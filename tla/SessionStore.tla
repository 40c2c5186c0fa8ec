----------------------------- MODULE SessionStore -----------------------------
(***************************************************************************)
(* What a publisher asks of the place its bytes go to: the interface       *)
(* Transport of ezchangelog/transport.py, as rows that every operation     *)
(* changes at once.                                                        *)
(*                                                                         *)
(* In the store of a directory one operation can undo others.  The most it *)
(* may do is put rows back to what they were at some time before, and from *)
(* then on the store is interfered with.                                   *)
(***************************************************************************)
EXTENDS Integers

CONSTANTS
    Sessions,           \* session ids
    Chunks              \* what chunks can be uploaded

VARIABLES
    rows,               \* per session: what the store says of it
    past,               \* per session: every row it ever had
    interfered          \* did an operation ever undo others

storeVars == <<rows, past, interfered>>

Row == [known : BOOLEAN, deleted : BOOLEAN, chunks : SUBSET Chunks]
NoRow == [known |-> FALSE, deleted |-> FALSE, chunks |-> {}]

StoreTypeOK == rows \in [Sessions -> Row] /\ interfered \in BOOLEAN

-----------------------------------------------------------------------------
(* put_session: a tombstone is a live session again. *)
Registered(row) == [row EXCEPT !.known = TRUE, !.deleted = FALSE]

(* put_chunk: the chunk takes the place of another one at its offset. *)
WithChunk(row, c) == [row EXCEPT !.known = TRUE,
                                 !.chunks = {d \in @ : d.from # c.from} \cup {c}]

(* delete_session: a tombstone, and nothing for a session never heard of. *)
Deleted(row) == IF row.known THEN [row EXCEPT !.deleted = TRUE, !.chunks = {}] ELSE row

-----------------------------------------------------------------------------
StoreInit ==
    /\ rows = [s \in Sessions |-> NoRow]
    /\ past = [s \in Sessions |-> {NoRow}]
    /\ interfered = FALSE

(* What the operations make of a row. *)
Results(row) == {Registered(row), Deleted(row)} \cup {WithChunk(row, c) : c \in Chunks}

(* An operation on s. *)
Operate(s) ==
    /\ interfered' \in {interfered, TRUE}
    /\ LET bases(t) == IF interfered' THEN past[t] ELSE {rows[t]}
       IN  /\ \E base \in bases(s) : rows'[s] \in Results(base)
           /\ \A t \in Sessions \ {s} : rows'[t] \in bases(t)
    /\ past' = [t \in Sessions |-> past[t] \cup {rows'[t]}]

StoreNext == \E s \in Sessions : Operate(s)

StoreSpec == StoreInit /\ [][StoreNext]_storeVars
=============================================================================
