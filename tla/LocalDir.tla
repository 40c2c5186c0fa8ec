------------------------------- MODULE LocalDir -------------------------------
(***************************************************************************)
(* A shared folder as the store: LocalDirTransport of                      *)
(* ezchangelog/transport.py, a file index.json and a file for each chunk.  *)
(*                                                                         *)
(* Nothing locks the folder.  Every operation reads the index, works on    *)
(* the chunk files and writes the whole index back.  The publisher of a    *)
(* session and a command `ezup unpublish` on it run at the same time, and  *)
(* other people's publishers use the same index.                           *)
(*                                                                         *)
(* A transcript is the version of its document and a length; a chunk is a  *)
(* range and the version that its sha256 stands for.                       *)
(***************************************************************************)
EXTENDS Integers, FiniteSets

CONSTANTS
    Sessions,           \* session ids
    Edited,             \* bound: those that change and are unpublished
    MaxLength,          \* bound: length of a transcript
    MaxVersion,         \* bound: documents of a session
    MaxTroubles,        \* bound: writers that end early and unread indexes
    MaxUnpublished,     \* bound: how often sessions are unpublished
    MaxEdits            \* bound: how often transcripts change

ASSUME LocalDirConstants ==
    /\ IsFiniteSet(Sessions) /\ Edited \subseteq Sessions
    /\ MaxLength \in Nat \ {0} /\ MaxVersion \in Nat \ {0} /\ MaxTroubles \in Nat
    /\ MaxUnpublished \in Nat /\ MaxEdits \in Nat

Versions == 1 .. MaxVersion
Ranges == {r \in [from : 0 .. MaxLength, to : 1 .. MaxLength] : r.from < r.to}
Chunks == {[from |-> r.from, to |-> r.to, version |-> v] : r \in Ranges, v \in Versions}
NoChunk == [from |-> 0, to |-> 0, version |-> 0]

VARIABLES
    doc,                \* per session: its transcript
    saved,              \* per session: the publisher's state file
    index,              \* index.json
    files,              \* per session and range: the version in the chunk's file, or 0
    job,                \* per writer: the operation under way
    past,               \* history: every row a session ever had in the index
    mishaps,            \* history, see Mishaps
    troubles,           \* how many troubles so far
    unpublished,        \* how many times a session was unpublished
    edits               \* how many edits of transcripts

vars == <<doc, saved, index, files, job, past, mishaps, troubles, unpublished, edits>>

(*   "overlap"     an index was written that was not what its writer had read*)
(*   "unread"      an index could not be read, and was taken for an empty one*)
(*   "broken"      a writer ended in the middle of an operation              *)
(*   "unsaved"     a publisher ended before it had saved that a chunk is up  *)
(*   "crossed"     unpublish met a run, or a transcript was rewritten in a run  *)
Mishaps == {"overlap", "unread", "broken", "unsaved", "crossed"}

(* The publisher holds the lock of its session (StateLock). *)
Writers == (Sessions \X {"publish"}) \cup (Edited \X {"unpublish"})
Of(w) == w[1]
IsPublisher(w) == w[2] = "publish"

NoRow == [known |-> FALSE, deleted |-> FALSE, chunks |-> {}]
NoIndex == [s \in Sessions |-> NoRow]
NothingSaved == [version |-> 1, offset |-> 0]

(* The operation, the step it is at, the chunk of the run and the version of *)
(* the bytes read for it, the index as the operation read it, the chunk files*)
(* it has still to remove, and whether the index was written meanwhile.      *)
NoJob == [op |-> "none", at |-> "load", chunk |-> NoChunk, data |-> 0,
          copy |-> NoIndex, todo |-> {}, stale |-> FALSE]

Contract == INSTANCE SessionStore WITH
    rows <- index, interfered <- mishaps \cap {"overlap", "unread"} # {}

TypeOK ==
    /\ doc \in [Sessions -> [version : Versions, length : 0 .. MaxLength]]
    /\ saved \in [Sessions -> [version : Versions, offset : 0 .. MaxLength]]
    /\ Contract!StoreTypeOK
    /\ files \in [Sessions -> [Ranges -> 0 .. MaxVersion]]
    /\ job \in [Writers -> [op : {"none", "register", "put", "delete"},
                            at : {"load", "files", "save", "return"},
                            chunk : Chunks \cup {NoChunk}, data : 0 .. MaxVersion,
                            stale : BOOLEAN, copy : [Sessions -> Contract!Row], todo : SUBSET Ranges]]
    /\ \A w \in Writers : job[w].op = "put" => job[w].data # 0
    /\ mishaps \subseteq Mishaps

Init ==
    /\ doc = [s \in Sessions |-> [version |-> 1, length |-> 1]]
    /\ saved = [s \in Sessions |-> NothingSaved]
    /\ index = NoIndex
    /\ files = [s \in Sessions |-> [r \in Ranges |-> 0]]
    /\ job = [w \in Writers |-> NoJob]
    /\ past = [s \in Sessions |-> {NoRow}]
    /\ mishaps = {} /\ troubles = 0 /\ unpublished = 0 /\ edits = 0

Busy(s) == {w \in Writers : Of(w) = s /\ job[w].op # "none"}
Edit == edits < MaxEdits /\ edits' = edits + 1
Trouble == troubles < MaxTroubles /\ troubles' = troubles + 1
Suffers(condition, name) == mishaps' = IF condition THEN mishaps \cup {name} ELSE mishaps
Goto(w, at) == job' = [job EXCEPT ![w].at = at]

Range(c) == [from |-> c.from, to |-> c.to]

-----------------------------------------------------------------------------
(* The calls of a publisher                                                 *)

(* What reconcile can check of a session when its publisher knows of nothing *)
(* published: the run of chunks, from the first, that are in the transcript. *)
Verified(s) ==
    LET remote == index[s].chunks
        first(c) == \A d \in remote : c.from <= d.from
        matches(c) == c.version = doc[s].version /\ c.to <= doc[s].length
    IN  {c \in remote : \A d \in remote : d.from <= c.from =>
           matches(d) /\ (first(d) \/ \E e \in remote : e.to = d.from)}

(* Where the next run begins: behind what is saved, or what it can check.    *)
StartsAt(s, n) ==
    IF saved[s].offset > 0 THEN n = saved[s].offset
    ELSE /\ \A c \in Verified(s) : c.to <= n
         /\ n = 0 \/ \E c \in Verified(s) : c.to = n

(* A run: the transcript is other than what was published, so that the       *)
(* session is deleted and starts over, or there is more of it.  A plan is one*)
(* chunk, as it is for less than MAX_CHUNK.                                  *)
Publish(s) ==
    LET w == <<s, "publish">>
        rewritten == saved[s].offset > 0 /\ saved[s].version # doc[s].version
    IN  /\ job[w].op = "none"
        /\ \E from \in 0 .. doc[s].length - 1 :
             /\ IF rewritten THEN from = 0 ELSE StartsAt(s, from)
             /\ job' = [job EXCEPT ![w] =
                  [NoJob EXCEPT !.op = IF rewritten THEN "delete" ELSE "register",
                                !.chunk = [from |-> from, to |-> doc[s].length,
                                           version |-> doc[s].version]]]
        /\ Suffers(Busy(s) # {}, "crossed")
        /\ UNCHANGED <<doc, saved, index, files, past, troubles, unpublished, edits>>

(* `ezup unpublish` deletes the session. *)
Unpublish(s) ==
    /\ job[<<s, "unpublish">>].op = "none"
    /\ index[s].known
    /\ unpublished < MaxUnpublished /\ unpublished' = unpublished + 1
    /\ job' = [job EXCEPT ![<<s, "unpublish">>] = [NoJob EXCEPT !.op = "delete"]]
    /\ Suffers(Busy(s) # {}, "crossed")
    /\ UNCHANGED <<doc, saved, index, files, past, troubles, edits>>

-----------------------------------------------------------------------------
(* The operations                                                           *)

(* Wrong versions of There and ToRemove: bytes are not compared; the record  *)
(* is emptied before its files are removed.                                  *)
ThereByOffset(row, c) == \E d \in row.chunks : d.from = c.from
ToRemoveNothing(row) == {}

There(row, c) == c \in row.chunks
ToRemove(row) == {Range(d) : d \in row.chunks}

(* What a writer does after its operation: a publisher registers a session   *)
(* that it deleted, and reads the bytes of its plan to upload them (a file   *)
(* that is too short now ends the run).                                      *)
After(w) ==
    LET j == job[w]
        then(op, data) == [NoJob EXCEPT !.op = op, !.chunk = j.chunk, !.data = data]
    IN  IF j.op = "delete" /\ IsPublisher(w) THEN then("register", 0)
        ELSE IF j.op # "register" THEN [j EXCEPT !.at = "return", !.copy = NoIndex, !.stale = FALSE]
        ELSE IF j.chunk.to <= doc[Of(w)].length THEN then("put", doc[Of(w)].version)
        ELSE NoJob

(* _load_index; an error counts as an empty index.  Deleting a session that  *)
(* is not in it does nothing, nor does uploading a chunk that is.            *)
Load(w) ==
    /\ job[w].op # "none" /\ job[w].at = "load"
    /\ \E copy \in {index, NoIndex} :
         LET row == copy[Of(w)]
             idle == \/ job[w].op = "delete" /\ ~row.known
                     \/ job[w].op = "put" /\ There(row, job[w].chunk)
         IN  /\ IF copy = index THEN UNCHANGED <<mishaps, troubles>>
                                ELSE Trouble /\ Suffers(TRUE, "unread")
             /\ job' = [job EXCEPT ![w] =
                  IF idle THEN After(w)
                  ELSE [@ EXCEPT !.at = IF job[w].op = "register" THEN "save" ELSE "files",
                                 !.copy = copy, !.stale = FALSE,
                                 !.todo = IF job[w].op = "delete" THEN ToRemove(row) ELSE {}]]
    /\ UNCHANGED <<doc, saved, index, files, past, unpublished, edits>>

(* Each chunk file goes in one piece, or comes off one by one. *)
Files(w) ==
    LET s == Of(w)
    IN  /\ job[w].at = "files"
        /\ \/ /\ job[w].op = "put"
              /\ files' = [files EXCEPT ![s][Range(job[w].chunk)] = job[w].data]
              /\ Goto(w, "save")
           \/ /\ job[w].op = "delete"
              /\ \E r \in job[w].todo :
                   /\ files' = [files EXCEPT ![s][r] = 0]
                   /\ job' = [job EXCEPT ![w].todo = @ \ {r}]
           \/ /\ job[w].op = "delete" /\ job[w].todo = {}
              /\ UNCHANGED files
              /\ Goto(w, "save")
        /\ UNCHANGED <<doc, saved, index, past, mishaps, troubles, unpublished, edits>>

(* Wrong versions of Effect: stale chunks of the offset stay, or the chunk   *)
(* files are removed and the index keeps naming them.                        *)
EffectStacks(op, row, c) ==
    CASE op = "register" -> [row EXCEPT !.known = TRUE, !.deleted = FALSE]
      [] op = "put" -> [row EXCEPT !.known = TRUE, !.chunks = @ \cup {c}]
      [] op = "delete" -> [row EXCEPT !.chunks = {}, !.deleted = TRUE]
EffectKeeps(op, row, c) ==
    CASE op = "register" -> [row EXCEPT !.known = TRUE, !.deleted = FALSE]
      [] op = "put" -> [row EXCEPT !.known = TRUE,
                                   !.chunks = {d \in @ : d.from # c.from} \cup {c}]
      [] op = "delete" -> [row EXCEPT !.deleted = TRUE]

(* What an operation makes of the record it read. *)
Effect(op, row, c) ==
    CASE op = "register" -> [row EXCEPT !.known = TRUE, !.deleted = FALSE]
      [] op = "put" -> [row EXCEPT !.known = TRUE,
                                   !.chunks = {d \in @ : d.from # c.from} \cup {c}]
      [] op = "delete" -> [row EXCEPT !.chunks = {}, !.deleted = TRUE]

(* _save_index writes the whole index that the operation read, with its own  *)
(* change.                                                                   *)
Save(w) ==
    LET s == Of(w)
    IN  /\ job[w].at = "save"
        /\ index' = [job[w].copy EXCEPT ![s] = Effect(job[w].op, @, job[w].chunk)]
        /\ past' = [t \in Sessions |-> past[t] \cup {index'[t]}]
        /\ job' = [v \in Writers |->
             IF v = w THEN After(w)
             ELSE [job[v] EXCEPT !.stale = job[v].at \in {"files", "save"}]]
        /\ Suffers(job[w].stale, "overlap")
        /\ UNCHANGED <<doc, saved, files, troubles, unpublished, edits>>

(* What is saved once a chunk is up.                                         *)
Checkpoint(c) == [version |-> c.version, offset |-> c.to]

(* The publisher saves that its chunk is up; unpublish removes the state file. *)
Return(w) ==
    /\ job[w].at = "return"
    /\ saved' = [saved EXCEPT ![Of(w)] = IF IsPublisher(w) THEN Checkpoint(job[w].chunk)
                                                          ELSE NothingSaved]
    /\ job' = [job EXCEPT ![w] = NoJob]
    /\ UNCHANGED <<doc, index, files, past, mishaps, troubles, unpublished, edits>>

-----------------------------------------------------------------------------
(* The editor, and the end of a writer                                      *)

Grow(s) ==
    /\ Edit
    /\ doc[s].length < MaxLength
    /\ doc' = [doc EXCEPT ![s].length = @ + 1]
    /\ UNCHANGED <<saved, index, files, job, past, mishaps, troubles, unpublished>>

Rewrite(s) ==
    /\ Edit
    /\ doc[s].version < MaxVersion
    /\ \E n \in 1 .. MaxLength : doc' = [doc EXCEPT ![s] = [version |-> @.version + 1, length |-> n]]
    /\ Suffers(job[<<s, "publish">>].op # "none", "crossed")
    /\ UNCHANGED <<saved, index, files, job, past, troubles, unpublished>>

End(w) ==
    /\ job[w].op # "none"
    /\ Trouble
    /\ job' = [job EXCEPT ![w] = NoJob]
    /\ LET unsaved == job[w].op = "put" /\ job[w].at = "return"
       IN  mishaps' = mishaps \cup (IF unsaved THEN {"unsaved"}
                                    ELSE IF job[w].at # "load" THEN {"broken"} ELSE {})
    /\ UNCHANGED <<doc, saved, index, files, past, unpublished, edits>>

Next ==
    \/ \E s \in Sessions : Publish(s)
    \/ \E s \in Edited : Unpublish(s) \/ Grow(s) \/ Rewrite(s)
    \/ \E w \in Writers : Load(w) \/ Files(w) \/ Save(w) \/ Return(w) \/ End(w)

Spec == Init /\ [][Next]_vars

-----------------------------------------------------------------------------
(* Properties                                                               *)

Unless(some) == mishaps \cap some # {}

(* The index behaves as the store of the interface: one row changes at a     *)
(* time, as the operation says.  When writers overlap, or an index could not *)
(* be read, rows are put back to what they were, and nothing worse.          *)
ContractKept == Contract!StoreSpec

(* Between operations on a session, the file of each of its chunks is there  *)
(* and holds the bytes that the index names (the order of os.replace and     *)
(* _save_index, transport.py:352-368).                                       *)
EntriesHaveFiles ==
    \A s \in Sessions :
        \/ Busy(s) # {}
        \/ \A c \in index[s].chunks : files[s][Range(c)] = c.version
        \/ Unless({"overlap", "broken", "crossed"})

(* "delete every published byte" (cli.py:793): once a session is deleted, no *)
(* file of it is left in the folder.                                         *)
DeleteLeavesNothing ==
    \A s \in Sessions :
        \/ ~index[s].deleted \/ Busy(s) # {}
        \/ \A r \in Ranges : files[s][r] = 0
        \/ Unless({"overlap", "broken", "crossed", "unsaved", "unread"})

(* What a publisher has saved as published is in the index and is not        *)
(* deleted, as long as the transcript is the one it published.               *)
PublishedIsIndexed ==
    \A s \in Sessions :
        \/ Busy(s) # {} \/ saved[s].offset = 0 \/ saved[s].version # doc[s].version
        \/ /\ ~index[s].deleted
           /\ \A n \in 0 .. saved[s].offset - 1 :
                \E c \in index[s].chunks :
                    c.from <= n /\ n < c.to /\ c.version = saved[s].version
        \/ Unless({"overlap", "broken", "crossed", "unread"})
=============================================================================
