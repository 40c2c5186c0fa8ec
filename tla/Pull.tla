-------------------------------- MODULE Pull --------------------------------
(***************************************************************************)
(* Pulling sessions: ezchangelog/pull.py against the Worker, on the path   *)
(* where the caller holds a key (a device or a reader).                    *)
(*                                                                         *)
(* The store is shared with the publishers, one per session (StateLock):   *)
(* they register a session, grant a wrap, add chunks one after the other   *)
(* and, when the transcript was rewritten or the key is rotated, delete    *)
(* the session and start over.  A pull lists what changed since its cursor *)
(* and works through that listing; every request is a step of its own, so  *)
(* everything a pull has read can be out of date when it uses it.          *)
(*                                                                         *)
(* A byte is the document it was written in and its position, a chunk the  *)
(* bytes of a range and the generation it is sealed under (0: plaintext),  *)
(* and its sha256 the chunk itself.  Sessions are numbered in the order of *)
(* their ids.                                                              *)
(***************************************************************************)
EXTENDS Integers, Sequences, FiniteSets

CONSTANTS
    Sessions,           \* session ids, as numbers
    Granted,            \* those whose publisher wraps the key for this caller
    Schemes,            \* which of "plain", "aead" publishers use
    Legacy,             \* values of --allow-legacy
    Page,               \* SESSION_PAGE
    MaxLength,          \* bound: length of a transcript
    MaxTime,            \* bound: the Worker's clock
    MaxDeletes,         \* bound: sessions that start over
    MaxTroubles         \* bound: failed requests, ends of a pull, lost state

ASSUME PullConstants ==
    /\ Sessions \subseteq Nat \ {0} /\ IsFiniteSet(Sessions)
    /\ Granted \subseteq Sessions
    /\ Schemes \subseteq {"plain", "aead"}
    /\ Legacy \subseteq BOOLEAN
    /\ Page \in Nat \ {0}
    /\ MaxLength \in Nat /\ MaxTime \in Nat \ {0} /\ MaxDeletes \in Nat /\ MaxTroubles \in Nat

(* Events told apart by what they excuse:                                    *)
(*   "late"     the time a chunk's request read was old when it was written  *)
(*   "skipped"  a pull skipped a legacy session it was not asked to allow    *)
(*   "ended"    a pull ended before it saved its state                       *)
(*   "alarmed"  a pull found more bytes than the listing it began with said  *)
(*   "emptied"  a pull met a session with no chunk in it yet                 *)
(*   "lost"     pull-state.json was lost                                     *)
(*   "moved"    a session started over from another watermark                *)
Mishaps == {"late", "skipped", "ended", "alarmed", "emptied", "lost", "moved"}

VARIABLES
    now,                \* the Worker's clock
    doc,                \* each session's transcript: the document of each byte
    start,              \* where its publisher starts, the watermark
    row, chunks, wrap,  \* the store: sessions rows, chunks rows, our wraps
    stamp,              \* time read by a chunk's request, until it touches the row
    claimed,            \* sessions for which such a request has claimed its range
    mirror,             \* pulled/<author>/<session>.jsonl
    saved,              \* pull-state.json
    pc, run,            \* the pull: next step and local variables
    past,               \* history: every transcript a session ever had
    mishaps,            \* history, see Mishaps
    troubles, deletes   \* how many there were so far

store == <<now, doc, start, row, chunks, wrap, stamp, claimed, past, deletes>>
puller == <<mirror, saved, pc, run>>
vars == <<store, puller, mishaps, troubles>>

-----------------------------------------------------------------------------
Least(m, n) == IF m <= n THEN m ELSE n
Most(m, n) == IF m >= n THEN m ELSE n

(* The greatest of n and the ends of some chunks. *)
Reach(n, some) ==
    CHOOSE m \in {n} \cup {c.end : c \in some} : n <= m /\ \A c \in some : c.end <= m

Bytes(s, from, to) == [i \in 1 .. to - from |-> <<doc[s][from + i], from + i - 1>>]

NoRecord == [base |-> 0, generation |-> {}, enc |-> FALSE, gen |-> 0]
NoState == [cursor |-> 0, records |-> [s \in Sessions |-> NoRecord]]
NoRow == [session |-> 0, enc |-> FALSE, gen |-> 0, size |-> 0, updated |-> 0]
NoRun == [rows |-> {}, held |-> {}, legacy |-> FALSE, records |-> NoState.records,
          ok |-> 0, failed |-> 0, row |-> NoRow, listed |-> {}, gen |-> 0, todo |-> {},
          written |-> FALSE, broken |-> FALSE]

Init ==
    /\ now = 1
    /\ doc = [s \in Sessions |-> [i \in 1 .. MaxLength |-> 1]]
    /\ start \in [Sessions -> {0, 1}]
    /\ row = [s \in Sessions |-> [status |-> "absent", enc |-> FALSE, gen |-> 0,
                                  size |-> 0, updated |-> 0]]
    /\ chunks = [s \in Sessions |-> {}]
    /\ wrap = [s \in Sessions |-> 0]
    /\ stamp = [s \in Sessions |-> 0] /\ claimed = {}
    /\ mirror = [s \in Sessions |-> <<>>]
    /\ saved = NoState
    /\ pc = "idle" /\ run = NoRun
    /\ past = [s \in Sessions |-> {doc[s]}]
    /\ mishaps = {} /\ troubles = 0 /\ deletes = 0

Live(s) == row[s].status = "live"
Suffers(some) == mishaps' = mishaps \cup some

-----------------------------------------------------------------------------
(* The store, and what publishers do with it                                *)

Tick ==
    /\ now < MaxTime
    /\ now' = now + 1
    /\ UNCHANGED <<doc, start, row, chunks, wrap, stamp, claimed, past, deletes>>

(* POST /v1/session: a publish registers its session anew, or starts one;    *)
(* an encrypted one at a new generation, and once encrypted always so.  A    *)
(* live session keeps the generation its chunks have: to name another over   *)
(* them takes the mishaps of Publish's StoreDecryptsUnlessUnsaved.           *)
Register(s, scheme) ==
    LET enc == scheme = "aead"
        fresh == [status |-> "live", enc |-> enc, updated |-> now, size |-> row[s].size,
                  gen |-> IF enc THEN row[s].gen + 1 ELSE 0]
    IN  /\ stamp[s] = 0
        /\ row[s].enc => enc
        /\ Live(s) => row[s].enc = enc
        /\ row' = [row EXCEPT ![s] = IF Live(s) THEN [@ EXCEPT !.updated = now] ELSE fresh]
        /\ UNCHANGED <<now, doc, start, chunks, wrap, stamp, claimed, past, deletes>>

(* POST /v1/wrapped_keys, before the first chunk of a generation. *)
PutWraps(s) ==
    /\ Live(s) /\ s \in Granted
    /\ wrap[s] < row[s].gen
    /\ wrap' = [wrap EXCEPT ![s] = row[s].gen]
    /\ UNCHANGED <<now, doc, start, row, chunks, stamp, claimed, past, deletes>>

(* POST /v1/chunk: the time is read, *)
ReadTime(s) ==
    /\ Live(s) /\ stamp[s] = 0
    /\ s \in Granted => wrap[s] = row[s].gen
    /\ Reach(start[s], chunks[s]) < MaxLength
    /\ stamp' = [stamp EXCEPT ![s] = now]
    /\ UNCHANGED <<now, doc, start, row, chunks, wrap, claimed, past, deletes>>

(* then the next range is claimed, *)
PutChunk(s) ==
    /\ stamp[s] # 0 /\ s \notin claimed
    /\ \E from \in {Reach(start[s], chunks[s])} : \E to \in from + 1 .. MaxLength :
         chunks' = [chunks EXCEPT ![s] = @ \cup
                      {[off |-> from, end |-> to, gen |-> row[s].gen, data |-> Bytes(s, from, to)]}]
    /\ claimed' = claimed \cup {s}
    /\ UNCHANGED <<now, doc, start, row, wrap, stamp, past, deletes>>

(* and then the session gets its size and that time. *)
TouchSession(s) ==
    /\ s \in claimed
    /\ row' = [row EXCEPT ![s].size = Reach(@, chunks[s]), ![s].updated = stamp[s]]
    /\ stamp' = [stamp EXCEPT ![s] = 0] /\ claimed' = claimed \ {s}
    /\ UNCHANGED <<now, doc, start, chunks, wrap, past, deletes>>

(* DELETE /v1/session: the publisher starts over, perhaps with a transcript  *)
(* rewritten from some byte on, perhaps from another watermark.              *)
DeleteSession(s, kept, from) ==
    LET rewritten == [i \in 1 .. MaxLength |-> IF i <= kept THEN doc[s][i]
                                               ELSE deletes + 2]
    IN  /\ Live(s) /\ stamp[s] = 0
        /\ deletes < MaxDeletes
        /\ deletes' = deletes + 1
        /\ row' = [row EXCEPT ![s].status = "deleted", ![s].size = 0, ![s].updated = now]
        /\ chunks' = [chunks EXCEPT ![s] = {}]
        /\ wrap' = [wrap EXCEPT ![s] = 0]
        /\ doc' = [doc EXCEPT ![s] = rewritten]
        /\ past' = [past EXCEPT ![s] = @ \cup {rewritten}]
        /\ start' = [start EXCEPT ![s] = from]
        /\ UNCHANGED <<now, stamp, claimed>>

StoreStep ==
    /\ \/ Tick /\ UNCHANGED mishaps
       \/ \E s \in Sessions :
            \/ \E scheme \in Schemes : Register(s, scheme) /\ UNCHANGED mishaps
            \/ PutWraps(s) /\ UNCHANGED mishaps
            \/ ReadTime(s) /\ UNCHANGED mishaps
            \/ \E kept \in 0 .. MaxLength, from \in {0, 1} :
                 DeleteSession(s, kept, from) /\ Suffers(IF from = start[s] THEN {} ELSE {"moved"})
    /\ UNCHANGED <<puller, troubles>>

(* A request the Worker has begun. *)
Upload(s) ==
    /\ \/ PutChunk(s) /\ UNCHANGED mishaps
       \/ TouchSession(s) /\ Suffers(IF stamp[s] < now THEN {"late"} ELSE {})
    /\ UNCHANGED <<puller, troubles>>

-----------------------------------------------------------------------------
(* One pull                                                                 *)

(* ORDER BY updated_ms, session. *)
Before(q, r) ==
    q.updated < r.updated \/ (q.updated = r.updated /\ q.session < r.session)

PageOf(some) ==
    LET found == {[session |-> s, enc |-> row[s].enc, gen |-> row[s].gen,
                   size |-> row[s].size, updated |-> row[s].updated] : s \in some}
    IN  {r \in found : Cardinality({q \in found : Before(q, r)}) < Page}

(* A wrong version of Listing: the cursor is exclusive. *)
ListingAfter(cursor) == PageOf({s \in Sessions : Live(s) /\ row[s].updated > cursor})

(* GET /v1/sessions since a cursor, which is inclusive. *)
Listing(cursor) == PageOf({s \in Sessions : Live(s) /\ row[s].updated >= cursor})

Goto(step) == pc' = step

(* pull: load the state and list the sessions. *)
List(legacy) ==
    /\ pc = "idle"
    /\ run' = [NoRun EXCEPT !.rows = Listing(saved.cursor), !.legacy = legacy,
                            !.records = saved.records]
    /\ Goto("wraps")
    /\ UNCHANGED <<store, mirror, saved, mishaps, troubles>>

FetchWrapsThen(step) ==
    /\ pc = "wraps"
    /\ run' = [run EXCEPT !.held = {s \in Sessions : Live(s) /\ wrap[s] # 0}]
    /\ Goto(step)
    /\ UNCHANGED <<store, mirror, saved, mishaps, troubles>>

(* A wrong version of FetchWraps: a listing is never empty. *)
FetchWrapsBlindly == FetchWrapsThen("session")

(* Every wrap this caller holds: a session with one must be encrypted. *)
FetchWraps == FetchWrapsThen(IF run.rows = {} THEN "save" ELSE "session")

(* The session at the head of the listing, and what is recorded of it. *)
Row == IF run.row # NoRow THEN run.row
       ELSE CHOOSE r \in run.rows : \A q \in run.rows : q = r \/ Before(r, q)
Session == Row.session
Record == run.records[Session]

(* A wrong version of Save's cursor: a failure does not hold it back. *)
CursorOfBest == IF run.ok # 0 THEN run.ok ELSE saved.cursor
Cursor == IF run.failed # 0 THEN run.failed
          ELSE IF run.ok # 0 THEN run.ok ELSE saved.cursor

(* On to the next row, with this one's outcome: "ok" moves the cursor up to  *)
(* it, "failed" holds the cursor back, "skipped" does neither.               *)
Conclude(outcome, record) ==
    LET rest == run.rows \ {Row}
        time == Row.updated
    IN  /\ run' = [run EXCEPT
             !.rows = rest, !.row = NoRow, !.listed = {}, !.gen = 0, !.todo = {},
             !.written = FALSE, !.broken = FALSE,
             !.records[Session] = record,
             !.ok = IF outcome = "ok" THEN Most(@, time) ELSE @,
             !.failed = IF outcome # "failed" THEN @
                        ELSE IF @ = 0 THEN time ELSE Least(@, time)]
        /\ Goto(IF rest = {} THEN "save" ELSE "session")

(* A legacy session nobody vouches for, and one that must not be plaintext.  *)
Unwanted == /\ ~Row.enc /\ ~run.legacy
            /\ Session \notin run.held /\ ~Record.enc
Downgraded == ~Row.enc /\ (Session \in run.held \/ Record.enc)

Skip ==
    /\ pc = "session" /\ Unwanted
    /\ Conclude("skipped", Record)
    /\ Suffers({"skipped"})
    /\ UNCHANGED <<store, mirror, saved, troubles>>

(* GET /v1/chunks.  A session without chunks is done, and its record is then *)
(* an empty one.                                                             *)
ListChunks ==
    /\ pc = "session" /\ ~Unwanted
    /\ IF Downgraded \/ ~Live(Session) THEN Conclude("failed", Record) /\ UNCHANGED mishaps
       ELSE IF chunks[Session] = {} THEN Conclude("ok", NoRecord) /\ Suffers({"emptied"})
       ELSE /\ run' = [run EXCEPT !.row = Row, !.listed = chunks[Session]]
            /\ Goto(IF Row.enc THEN "probe" ELSE "compare")
            /\ UNCHANGED mishaps
    /\ UNCHANGED <<store, mirror, saved, troubles>>

(* session_enc: the generation may have moved on since the listing. *)
ProbeGeneration ==
    /\ pc = "probe"
    /\ run' = [run EXCEPT !.gen = IF Live(Session) /\ row[Session].gen # 0
                                  THEN row[Session].gen ELSE Row.gen]
    /\ Goto("key")
    /\ UNCHANGED <<store, mirror, saved, mishaps, troubles>>

(* The wrap of this session: of that generation, and never of one older than *)
(* the record's.                                                             *)
ResolveKey ==
    /\ pc = "key"
    /\ IF Live(Session) /\ wrap[Session] = run.gen /\ run.gen # 0
          /\ (Record.enc => run.gen >= Record.gen)
         THEN Goto("compare") /\ UNCHANGED run
         ELSE Conclude("failed", Record)
    /\ UNCHANGED <<store, mirror, saved, mishaps, troubles>>

(* _prefix_for: the chunks that tile [base, end) exactly.  None is {}. *)
PrefixFor(listed, base, end) ==
    LET reached(c) == Reach(base, {d \in listed : d.off < c.off})
        prefix == {c \in listed : c.off < end /\ reached(c) < end}
    IN  IF /\ \A c \in prefix : c.off = reached(c)
           /\ Reach(base, prefix) = end
        THEN prefix ELSE {}

(* _verify_local: the bytes on disk, sealed again if need be, are these.     *)
VerifyLocal(file, base, prefix) ==
    \A c \in prefix : c.gen = run.gen /\ SubSeq(file, c.off - base + 1, c.end - base) = c.data

(* A wrong version of Stale: any ranges that tile the file will do. *)
StaleByLength(file, base) ==
    Record.base # base \/ PrefixFor(run.listed, base, base + Len(file)) = {}

(* _stale_reason, and a document that starts elsewhere. *)
Stale(file, base) ==
    LET prefix == PrefixFor(run.listed, base, base + Len(file))
    IN  \/ Record.base # base \/ prefix = {}
        \/ IF Record.generation # {} THEN prefix # Record.generation
                                     ELSE ~VerifyLocal(file, base, prefix)

(* _plan: what extends the file from `have` on, and whether it does so       *)
(* without a hole or a splice.                                               *)
Passed(c, have) == Reach(have, {d \in run.listed : d.off < c.off})
PlanOf(have) == {c \in run.listed : c.end > Passed(c, have)}
Contiguous(have) == \A c \in PlanOf(have) : c.off = Passed(c, have)

Base == (CHOOSE c \in run.listed : \A d \in run.listed : c.off <= d.off).off

(* _session_record: where the file starts, which chunks it is made of, and   *)
(* the pin.                                                                  *)
SessionRecord(generation) ==
    [base |-> Base, generation |-> generation, enc |-> Row.enc, gen |-> run.gen]

OnDisk(file) == PrefixFor(run.listed, Base, Base + Len(file))

(* Wrong versions of RecordOf: of everything that was listed; of a whole     *)
(* session only.                                                             *)
RecordOfListing(file) == SessionRecord(run.listed)
RecordWhenWhole(file) ==
    IF OnDisk(file) = run.listed THEN SessionRecord(run.listed) ELSE NoRecord

(* _generation_on_disk: of what the file holds. *)
RecordOf(file) == SessionRecord(OnDisk(file))

(* The file on disk decides what we have; one that cannot be extended is     *)
(* deleted and fetched again.                                                *)
Compare ==
    LET file == mirror[Session]
        stale == Len(file) > 0 /\ Stale(file, Base)
        kept == IF stale THEN <<>> ELSE file
        have == Base + Len(kept)
    IN  /\ pc = "compare"
        /\ mirror' = [mirror EXCEPT ![Session] = kept]
        /\ IF ~Contiguous(have) THEN Conclude("failed", Record)
           ELSE IF PlanOf(have) = {} THEN Conclude("ok", RecordOf(kept))
           ELSE run' = [run EXCEPT !.todo = PlanOf(have)] /\ Goto("fetch")
        /\ UNCHANGED <<store, saved, mishaps, troubles>>

(* GET /v1/blob by key, that is by range, and the checks of what came: its   *)
(* length, its digest, its tag.                                              *)
Fetch ==
    LET c == CHOOSE d \in run.todo : \A e \in run.todo : d.off <= e.off
        there == {d \in chunks[Session] : d.off = c.off /\ d.end = c.end}
        good == /\ Live(Session) /\ there = {c}
                /\ c.gen = run.gen
    IN  /\ pc = "fetch"
        /\ mirror' = IF good THEN [mirror EXCEPT ![Session] = @ \o c.data] ELSE mirror
        /\ run' = IF good THEN [run EXCEPT !.todo = @ \ {c}, !.written = TRUE]
                          ELSE [run EXCEPT !.broken = TRUE]
        /\ Goto(IF good /\ run.todo # {c} THEN "fetch" ELSE "finish")
        /\ UNCHANGED <<store, saved, mishaps, troubles>>

(* What is on disk is recorded, also after a partial failure; but not when   *)
(* it is more than the listing said the session has.                         *)
Finish ==
    LET file == mirror[Session]
        alarm == Base + Len(file) > Row.size
    IN  /\ pc = "finish"
        /\ IF alarm \/ ~run.written THEN Conclude("failed", Record)
           ELSE Conclude(IF run.broken THEN "failed" ELSE "ok", RecordOf(file))
        /\ Suffers(IF alarm THEN {"alarmed"} ELSE {})
        /\ UNCHANGED <<store, mirror, saved, troubles>>

(* The cursor never moves past a session that failed. *)
Save ==
    /\ pc = "save"
    /\ saved' = [cursor |-> Cursor, records |-> run.records]
    /\ Goto("idle") /\ run' = NoRun
    /\ UNCHANGED <<store, mirror, mishaps, troubles>>

PullStep ==
    \/ FetchWraps \/ Skip \/ ListChunks \/ ProbeGeneration \/ ResolveKey
    \/ Compare \/ Fetch \/ Finish \/ Save

-----------------------------------------------------------------------------
(* What goes wrong                                                          *)

Trouble == troubles < MaxTroubles /\ troubles' = troubles + 1

(* A request about one session fails. *)
RequestFails ==
    /\ Trouble
    /\ \/ pc = "session" /\ ~Unwanted /\ Conclude("failed", Record)
       \/ pc \in {"probe", "key"} /\ Conclude("failed", Record)
       \/ pc = "fetch" /\ run' = [run EXCEPT !.broken = TRUE] /\ Goto("finish")
    /\ UNCHANGED <<store, mirror, saved, mishaps>>

(* The pull is killed, or one of its first two requests fails. *)
EndEarly ==
    /\ pc # "idle"
    /\ Trouble
    /\ Goto("idle") /\ run' = NoRun
    /\ Suffers({"ended"})
    /\ UNCHANGED <<store, mirror, saved>>

LoseState ==
    /\ pc = "idle" /\ saved # NoState
    /\ Trouble
    /\ saved' = NoState
    /\ Suffers({"lost"})
    /\ UNCHANGED <<store, mirror, pc, run>>

Next ==
    \/ StoreStep
    \/ \E s \in Sessions : Upload(s)
    \/ \E legacy \in Legacy : List(legacy)
    \/ PullStep
    \/ RequestFails \/ EndEarly \/ LoseState

Spec == Init /\ [][Next]_vars

(* A request the Worker began ends, a pull that is not ended goes on, and    *)
(* there is another one after it.  Publishers promise nothing.               *)
FairSpec ==
    /\ Spec
    /\ \A s \in Sessions : WF_vars(Upload(s))
    /\ \A legacy \in Legacy : WF_vars(List(legacy))
    /\ WF_vars(PullStep)

-----------------------------------------------------------------------------
(* Properties                                                               *)

Chunk == [off : Nat, end : Nat, gen : Nat, data : Seq(Nat \X Nat)]
RecordType == [base : Nat, generation : SUBSET Chunk, enc : BOOLEAN, gen : Nat]

StoreTypeOK ==
    /\ now \in 1 .. MaxTime /\ deletes \in 0 .. MaxDeletes
    /\ \A s \in Sessions :
         /\ doc[s] \in [1 .. MaxLength -> Nat] /\ doc[s] \in past[s]
         /\ row[s] \in [status : {"absent", "live", "deleted"}, enc : BOOLEAN, gen : Nat,
                        size : 0 .. MaxLength, updated : 0 .. now]
         /\ \A c \in chunks[s] : c \in Chunk
         /\ start[s] \in {0, 1} /\ wrap[s] \in 0 .. row[s].gen /\ stamp[s] \in 0 .. now
         /\ s \in claimed => stamp[s] # 0

(* A step that works on a session or a chunk has one to work on. *)
PullTypeOK ==
    /\ \A s \in Sessions : \A i \in DOMAIN mirror[s] : mirror[s][i] \in Nat \X Nat
    /\ saved.cursor \in 0 .. now
    /\ pc \in {"idle", "wraps", "session", "probe", "key", "compare", "fetch", "finish", "save"}
    /\ pc = "session" => run.rows # {}
    /\ pc \in {"probe", "key", "compare", "fetch", "finish"} => run.listed # {}
    /\ pc = "fetch" => run.todo # {}
    /\ mishaps \subseteq Mishaps /\ troubles \in 0 .. MaxTroubles

TypeOK == StoreTypeOK /\ PullTypeOK

Unless(some, property) == mishaps \cap some = {} => property

(* A pull left a file that its record does not describe, of a session that   *)
(* started over from another watermark: the record may fit the session again,*)
(* and is then believed although the file begins elsewhere.                  *)
Misplaced == "moved" \in mishaps /\ mishaps \cap {"ended", "alarmed"} # {}

(* pull.py: a file "that is the right length and a document that never       *)
(* existed" is what must not be.  Whatever is deleted, rewritten or rotated  *)
(* between two requests of a pull, and wherever pulls end, the bytes on disk *)
(* are consecutive bytes of one transcript the session had.                  *)
MirrorIsOneDocument ==
    Misplaced \/ \A s \in Sessions : mirror[s] = <<>> \/
      \E d \in past[s] : \A i \in DOMAIN mirror[s] :
        LET at == mirror[s][1][2] + i
        IN  at \in DOMAIN d /\ mirror[s][i] = <<d[at], at - 1>>

(* The mirror lacks bytes of a session, or still has another document's.     *)
Behind(s) ==
    /\ Live(s) /\ s \notin claimed
    /\ \E c \in chunks[s] : \A i \in DOMAIN mirror[s] : mirror[s][i] # c.data[Len(c.data)]

(* index.ts, listSessions: "skipping one loses it forever".  A session the   *)
(* mirror is behind of will be listed by the next pull.                      *)
NothingSkipped ==
    \A s \in Sessions : Behind(s) => row[s].updated >= saved.cursor

(* What it takes to skip one: a time that was old when it was written, or a  *)
(* pull that did not allow a legacy session and another that does.           *)
NothingSkippedUnlessLate == Misplaced \/ Unless({"late", "skipped"}, NothingSkipped)

(* _session_record: "once a session is recorded as aead-v1 at some           *)
(* generation, a store that later reports it plaintext or at a lower         *)
(* generation is refused".  The record never forgets it, whatever fails.     *)
PinKept ==
    \A s \in Sessions : saved.records[s].enc =>
      saved'.records[s].enc /\ saved'.records[s].gen >= saved.records[s].gen

(* It does forget it when a pull meets the session between its registration  *)
(* and its first chunk.                                                      *)
PinKeptUnlessEmptied == [][Unless({"emptied", "lost"}, PinKept) \/ mishaps' # mishaps]_vars

(* The file under comparison is of the very generation that is listed.       *)
StillCorrect ==
    LET file == mirror[Session]
    IN  /\ Record.enc /\ \A c \in Record.generation : c.gen = run.gen
        /\ OnDisk(file) # {} /\ VerifyLocal(file, Base, OnDisk(file))

(* _pull_one: after a run that died between appending and saving, "the state *)
(* is stale and the file is still correct"; _generation_on_disk: "the next   *)
(* run resumes instead of refetching".  A file whose bytes are those of the  *)
(* generation in the store is extended and not deleted.                      *)
Resumes ==
    pc = "compare" /\ StillCorrect => mirror'[Session] = mirror[Session]

(* True after failed requests at any point; not after a pull that died, or   *)
(* that took a session's growth for duplicated bytes.                        *)
ResumesUnlessEnded == [][Unless({"ended", "alarmed"}, Resumes)]_vars

(* Once publishers and troubles rest, the mirror of every session this caller*)
(* can open is what is in the store, whatever was rotated or failed before.  *)
CatchesUp ==
    <>[](\/ Misplaced
         \/ Unless({"late", "skipped"},
                   \A s \in Sessions : (row[s].enc => s \in Granted) => ~Behind(s)))
=============================================================================
