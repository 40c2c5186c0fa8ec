------------------------------ MODULE PullProofs ------------------------------
(***************************************************************************)
(* Proofs about a puller beside the publishers of its sessions: a mirror   *)
(* is never spliced from two documents, no session is skipped, a pin is    *)
(* never forgotten and what is right on disk is resumed, each unless one   *)
(* of the mishaps its property names came between.  They hold for any      *)
(* number of sessions, any length of transcript and any page.              *)
(***************************************************************************)
EXTENDS Pull, FiniteSetTheorems, TLAPS

Wf == INSTANCE WellFoundedInduction

-----------------------------------------------------------------------------
(* Least elements                                                           *)

(* Numbers that are not empty have a least one.                              *)
LEMMA LeastNumber ==
  ASSUME NEW S, S \subseteq Nat, S # {}
  PROVE  \E x \in S : \A y \in S : x <= y
<1> DEFINE R == Wf!OpToRel(<, Nat)
<1>1. Wf!IsWellFoundedOn(R, Nat)
  BY Wf!NatLessThanWellFounded
<1>2. \A x, y \in Nat : x < y => <<x, y>> \in R
  BY DEF Wf!OpToRel
<1> HIDE DEF R
<1>3. PICK x \in S : \A y \in S : <<y, x>> \notin R
  BY <1>1, Wf!WFMin
<1>4. \A y \in S : x <= y
  <2>1. ASSUME NEW y \in S
        PROVE  x <= y
    <3>1. ~(y < x)
      BY <1>2, <1>3
    <3>2. QED
      BY <3>1
  <2>2. QED
    BY <2>1
<1>5. QED
  BY <1>4

(* What Reach returns: the greatest of a number and some bounded ends.       *)
LEMMA ReachIs ==
  ASSUME NEW n \in Nat, NEW N \in Nat, NEW some,
         \A c \in some : c.end \in Nat /\ c.end <= N
  PROVE  /\ Reach(n, some) \in Nat /\ n <= Reach(n, some)
         /\ \A c \in some : c.end <= Reach(n, some)
         /\ Reach(n, some) = n \/ \E c \in some : Reach(n, some) = c.end
<1> DEFINE Above == {m \in Nat : n <= m /\ \A c \in some : c.end <= m}
           Ends == {n} \cup {c.end : c \in some}
           Greatest(m) == n <= m /\ \A c \in some : c.end <= m
<1>1. \E m \in Above : \A k \in Above : m <= k
  <2>1. \E m \in Above : TRUE
    <3>1. n + N \in Nat /\ n <= n + N /\ \A e \in Nat : e <= N => e <= n + N
      OBVIOUS
    <3>2. \A c \in some : c.end <= n + N
      BY <3>1
    <3>3. n + N \in Above
      BY <3>1, <3>2
    <3>4. QED
      BY <3>3
  <2>2. Above \subseteq Nat /\ Above # {}
    BY <2>1
  <2> HIDE DEF Above
  <2>3. QED
    BY <2>2, LeastNumber
<1>2. PICK m \in Above : \A k \in Above : m <= k
  BY <1>1
<1>3. m \in Nat /\ Greatest(m)
  OBVIOUS
<1>4. m \in Ends
  <2>1. SUFFICES ASSUME m # n, \A c \in some : c.end # m
                 PROVE  FALSE
    OBVIOUS
  <2>2. m - 1 \in Nat /\ n <= m - 1
    BY <1>3, <2>1
  <2>3. \A e \in Nat : e <= m /\ e # m => e <= m - 1
    BY <1>3
  <2>4. \A c \in some : c.end <= m - 1
    BY <1>3, <2>1, <2>3
  <2>5. m - 1 \in Above
    BY <2>2, <2>4
  <2>6. m <= m - 1
    BY <1>2, <2>5
  <2>7. QED
    BY <1>3, <2>6
<1>5. Reach(n, some) = CHOOSE k \in Ends : Greatest(k)
  BY DEF Reach
<1> HIDE DEF Ends, Greatest
<1>6. Reach(n, some) \in Ends /\ Greatest(Reach(n, some))
  BY <1>3, <1>4, <1>5
<1>7. \A k \in Ends : k = n \/ \E c \in some : k = c.end
  BY DEF Ends
<1>8. Reach(n, some) \in Nat
  BY <1>6, <1>7
<1>9. QED
  BY <1>6, <1>7, <1>8 DEF Greatest

(* Reach only looks at the ends beyond the number it begins with.            *)
LEMMA ReachIsUnique ==
  ASSUME NEW n \in Nat, NEW N \in Nat, NEW some, NEW m \in Nat,
         \A c \in some : c.end \in Nat /\ c.end <= N,
         n <= m, \A c \in some : c.end <= m,
         m = n \/ \E c \in some : m = c.end
  PROVE  Reach(n, some) = m
<1> DEFINE r == Reach(n, some)
<1>1. /\ r \in Nat /\ n <= r
      /\ \A c \in some : c.end <= r
      /\ r = n \/ \E c \in some : r = c.end
  BY ReachIs
<1> HIDE DEF r
<1>2. m <= r /\ r <= m
  BY <1>1
<1>3. r = m
  BY <1>1, <1>2
<1>4. QED
  BY <1>3 DEF r

(* Rows of different sessions have one that comes before the others.         *)
LEMMA HeadOfRows ==
  ASSUME NEW rows, rows # {},
         \A r \in rows : r.updated \in Nat /\ r.session \in Nat,
         \A q, r \in rows : q.session = r.session => q = r
  PROVE  \E r \in rows : \A q \in rows : q = r \/ Before(r, q)
<1>1. \E t \in {r.updated : r \in rows} : \A u \in {r.updated : r \in rows} : t <= u
  <2>1. {r.updated : r \in rows} \subseteq Nat /\ {r.updated : r \in rows} # {}
    OBVIOUS
  <2>2. QED
    BY <2>1, LeastNumber
<1>2. PICK first \in rows : \A r \in rows : first.updated <= r.updated
  BY <1>1
<1> DEFINE Earliest == {r \in rows : r.updated = first.updated}
<1>3. \E i \in {r.session : r \in Earliest} : \A j \in {r.session : r \in Earliest} : i <= j
  <2>1. {r.session : r \in Earliest} \subseteq Nat /\ {r.session : r \in Earliest} # {}
    BY <1>2
  <2>2. QED
    BY <2>1, LeastNumber
<1>4. PICK head \in Earliest : \A r \in Earliest : head.session <= r.session
  BY <1>3
<1>5. ASSUME NEW q \in rows, q # head
      PROVE  Before(head, q)
  <2>1. head \in rows /\ head.updated = first.updated
    OBVIOUS
  <2>2. CASE q.updated = first.updated
    <3>1. head.session <= q.session /\ head.session # q.session
      BY <1>4, <1>5, <2>1, <2>2
    <3>2. head.session < q.session
      BY <2>1, <3>1
    <3>3. QED
      BY <2>1, <2>2, <3>2 DEF Before
  <2>3. CASE q.updated # first.updated
    <3>1. first.updated < q.updated
      BY <1>2, <2>3
    <3>2. QED
      BY <2>1, <3>1 DEF Before
  <2>4. QED
    BY <2>2, <2>3
<1>6. QED
  BY <1>5

(* The least of the offsets of some chunks.                                  *)
LEMMA FirstChunk ==
  ASSUME NEW some, some # {}, \A c \in some : c.off \in Nat
  PROVE  \E c \in some : \A d \in some : c.off <= d.off
<1>1. \E t \in {c.off : c \in some} : \A u \in {c.off : c \in some} : t <= u
  <2>1. {c.off : c \in some} \subseteq Nat /\ {c.off : c \in some} # {}
    OBVIOUS
  <2>2. QED
    BY <2>1, LeastNumber
<1>2. QED
  BY <1>1

-----------------------------------------------------------------------------
(* What is true of the state whatever went wrong                             *)

Transcripts == [1 .. MaxLength -> Nat]
RowInStore == [status : {"absent", "live", "deleted"}, enc : BOOLEAN, gen : Nat,
               size : 0 .. MaxLength, updated : Nat]
RowRead == [session : Nat, enc : BOOLEAN, gen : Nat, size : Nat, updated : Nat]
ChunkInStore == {c \in Chunk : c.end <= MaxLength}
RunType ==
    [rows : SUBSET RowRead, held : SUBSET Sessions, legacy : BOOLEAN,
     records : [Sessions -> RecordType], ok : Nat, failed : Nat, row : RowRead,
     listed : SUBSET ChunkInStore, gen : Nat, todo : SUBSET ChunkInStore,
     written : BOOLEAN, broken : BOOLEAN]
Steps == {"idle", "wraps", "session", "probe", "key", "compare", "fetch", "finish", "save"}

StoreTypes ==
    /\ now \in 1 .. MaxTime /\ deletes \in 0 .. MaxDeletes
    /\ doc \in [Sessions -> Transcripts] /\ past \in [Sessions -> SUBSET Transcripts]
    /\ start \in [Sessions -> {0, 1}]
    /\ row \in [Sessions -> RowInStore] /\ chunks \in [Sessions -> SUBSET ChunkInStore]
    /\ wrap \in [Sessions -> Nat] /\ stamp \in [Sessions -> Nat] /\ claimed \subseteq Sessions

PullTypes ==
    /\ mirror \in [Sessions -> Seq(Nat \X Nat)]
    /\ saved \in [cursor : Nat, records : [Sessions -> RecordType]]
    /\ run \in RunType
    /\ pc \in Steps
    /\ mishaps \subseteq Mishaps /\ troubles \in 0 .. MaxTroubles

(* A session in the store.                                                   *)
SessionRules(s) ==
    /\ doc[s] \in past[s]
    /\ row[s].updated <= now /\ wrap[s] <= row[s].gen /\ stamp[s] <= now
    /\ s \in claimed => stamp[s] # 0
    /\ stamp[s] # 0 => Live(s)
    /\ Live(s) => row[s].updated >= 1
    /\ ~row[s].enc => row[s].gen = 0

Working == pc \in {"probe", "key", "compare", "fetch", "finish"}
Writing == pc \in {"fetch", "finish"}

(* What a pull works on at each of its steps.                                *)
RunRules ==
    /\ saved.cursor <= now /\ run.ok <= now /\ run.failed <= now
    /\ \A r \in run.rows : /\ r.session \in Sessions
                           /\ 1 <= r.updated /\ r.updated <= now /\ saved.cursor <= r.updated
    /\ \A q, r \in run.rows : q.session = r.session => q = r
    /\ IF Working THEN run.row \in run.rows /\ run.listed # {}
                  ELSE run.row = NoRow /\ run.listed = {}
    /\ pc = "session" => run.rows # {}
    /\ pc = "save" => run.rows = {}
    /\ pc = "fetch" => run.todo # {}
    /\ run.todo \subseteq run.listed
    /\ run.written => Writing

Basics == StoreTypes /\ PullTypes /\ (\A s \in Sessions : SessionRules(s)) /\ RunRules

(* The row a pull works on is one of those it listed.                        *)
LEMMA RowIsListed ==
  ASSUME Basics, Working \/ pc = "session"
  PROVE  /\ Row \in run.rows /\ Row \in RowRead
         /\ Session \in Sessions /\ Record \in RecordType
<1>1. NoRow \notin run.rows
  <2>1. \A r \in run.rows : r.session # 0
    BY PullConstants DEF Basics, RunRules
  <2>2. QED
    BY <2>1 DEF NoRow
<1>2. Row \in run.rows
  <2>1. CASE Working
    BY <1>1, <2>1 DEF Row, Basics, RunRules
  <2>2. CASE pc = "session"
    <3>1. ~Working /\ run.row = NoRow /\ run.rows # {}
      BY <2>2 DEF Working, Basics, RunRules
    <3>2. Row = CHOOSE r \in run.rows : \A q \in run.rows : q = r \/ Before(r, q)
      BY <3>1 DEF Row
    <3>3. /\ \A r \in run.rows : r.updated \in Nat /\ r.session \in Nat
          /\ \A q, r \in run.rows : q.session = r.session => q = r
      BY DEF Basics, RunRules, PullTypes, RunType, RowRead
    <3>4. \E r \in run.rows : \A q \in run.rows : q = r \/ Before(r, q)
      BY <3>1, <3>3, HeadOfRows
    <3>5. QED
      BY <3>2, <3>4
  <2>3. QED
    BY <2>1, <2>2
<1>3. Row \in RowRead /\ Session \in Sessions
  BY <1>2 DEF Session, Basics, RunRules, PullTypes, RunType
<1>4. Record \in RecordType
  BY <1>3 DEF Record, Basics, PullTypes, RunType
<1>5. QED
  BY <1>2, <1>3, <1>4

(* What concluding a row leaves of the pull.                                 *)
LEMMA Concluded ==
  ASSUME Basics, Working \/ pc = "session",
         NEW outcome, NEW record \in RecordType, Conclude(outcome, record)
  PROVE  /\ run' \in RunType
         /\ run'.rows = run.rows \ {Row} /\ run'.row = NoRow
         /\ run'.listed = {} /\ run'.todo = {} /\ run'.gen = 0
         /\ ~run'.written
         /\ run'.records = [run.records EXCEPT ![Session] = record]
         /\ run'.ok = IF outcome = "ok" THEN Most(run.ok, Row.updated) ELSE run.ok
         /\ run'.failed = IF outcome # "failed" THEN run.failed
                          ELSE IF run.failed = 0 THEN Row.updated
                               ELSE Least(run.failed, Row.updated)
         /\ pc' = IF run'.rows = {} THEN "save" ELSE "session"
<1>1. run \in RunType /\ Row \in run.rows /\ Row \in RowRead /\ Session \in Sessions
  BY RowIsListed DEF Basics, PullTypes
<1>2. Row.updated \in Nat /\ run.ok \in Nat /\ run.failed \in Nat /\ NoRow \in RowRead
  BY <1>1 DEF RowRead, RunType, NoRow
<1> DEFINE ok == IF outcome = "ok" THEN Most(run.ok, Row.updated) ELSE run.ok
           failed == IF outcome # "failed" THEN run.failed
                     ELSE IF run.failed = 0 THEN Row.updated
                          ELSE Least(run.failed, Row.updated)
           records == [run.records EXCEPT ![Session] = record]
<1>3. ok \in Nat /\ failed \in Nat
  BY <1>2 DEF Most, Least
<1>4. records \in [Sessions -> RecordType] /\ run.rows \ {Row} \subseteq RowRead
  BY <1>1 DEF RunType
<1>5. /\ run' = [run EXCEPT !.rows = run.rows \ {Row}, !.row = NoRow, !.listed = {}, !.gen = 0,
                            !.todo = {}, !.written = FALSE, !.broken = FALSE,
                            !.records = records, !.ok = ok, !.failed = failed]
      /\ pc' = IF run.rows \ {Row} = {} THEN "save" ELSE "session"
  BY <1>1 DEF Conclude, Goto, RunType
<1> HIDE DEF ok, failed, records
<1>6. run' \in RunType
  BY <1>1, <1>2, <1>3, <1>4, <1>5 DEF RunType
<1>7. /\ run'.rows = run.rows \ {Row} /\ run'.row = NoRow
      /\ run'.listed = {} /\ run'.todo = {} /\ run'.gen = 0
      /\ run'.written = FALSE
      /\ run'.records = records /\ run'.ok = ok /\ run'.failed = failed
  BY <1>1, <1>5 DEF RunType
<1>8. QED
  BY <1>5, <1>6, <1>7 DEF ok, failed, records

(* Every transcript ever, and every chunk of one.                            *)
LEMMA BytesTyped ==
  ASSUME NEW s \in Sessions, doc[s] \in Transcripts,
         NEW from \in Nat, NEW to \in from + 1 .. MaxLength
  PROVE  /\ Bytes(s, from, to) \in Seq(Nat \X Nat)
         /\ Len(Bytes(s, from, to)) = to - from
         /\ \A i \in 1 .. to - from : Bytes(s, from, to)[i] = <<doc[s][from + i], from + i - 1>>
<1> DEFINE length == to - from
<1>1. length \in Nat /\ to <= MaxLength /\ MaxLength \in Nat
  BY PullConstants
<1>2. \A i \in 1 .. length : from + i \in 1 .. MaxLength /\ from + i - 1 \in Nat
  BY <1>1
<1>3. \A i \in 1 .. length : doc[s][from + i] \in Nat
  BY <1>2 DEF Transcripts
<1>4. Bytes(s, from, to) = [i \in 1 .. length |-> <<doc[s][from + i], from + i - 1>>]
  BY DEF Bytes
<1> HIDE DEF length
<1>5. Bytes(s, from, to) \in [1 .. length -> Nat \X Nat]
  BY <1>2, <1>3, <1>4
<1>6. Len(Bytes(s, from, to)) = length /\ Bytes(s, from, to) \in Seq(Nat \X Nat)
  BY <1>1, <1>5
<1>7. QED
  BY <1>4, <1>6 DEF length

LEMMA EndsInStore ==
  ASSUME StoreTypes, NEW s \in Sessions
  PROVE  /\ \A c \in chunks[s] : c.end \in Nat /\ c.end <= MaxLength
         /\ MaxLength \in Nat
         /\ \A n \in 0 .. MaxLength : Reach(n, chunks[s]) \in 0 .. MaxLength
<1>1. \A c \in chunks[s] : c.end \in Nat /\ c.end <= MaxLength
  BY DEF StoreTypes, ChunkInStore, Chunk
<1>2. MaxLength \in Nat
  BY PullConstants
<1>3. ASSUME NEW n \in 0 .. MaxLength
      PROVE  Reach(n, chunks[s]) \in 0 .. MaxLength
  <2>1. /\ Reach(n, chunks[s]) \in Nat
        /\ Reach(n, chunks[s]) = n \/ \E c \in chunks[s] : Reach(n, chunks[s]) = c.end
    BY <1>1, <1>2, ReachIs
  <2>2. QED
    BY <1>1, <1>2, <2>1
<1>4. QED
  BY <1>1, <1>2, <1>3

(* A publisher's step leaves the store in order; time does not run back.     *)
LEMMA RegisterBasics ==
  ASSUME Basics, NEW s \in Sessions, NEW scheme \in Schemes, Register(s, scheme)
  PROVE  StoreTypes' /\ (\A t \in Sessions : SessionRules(t)') /\ now' = now
<1> DEFINE enc == scheme = "aead"
           fresh == [status |-> "live", enc |-> enc, updated |-> now, size |-> row[s].size,
                     gen |-> IF enc THEN row[s].gen + 1 ELSE 0]
           renewed == [row[s] EXCEPT !.updated = now]
<1>1. row[s] \in RowInStore /\ now \in Nat /\ now >= 1
  BY DEF Basics, StoreTypes
<1>2. fresh \in RowInStore /\ renewed \in RowInStore
  BY <1>1 DEF RowInStore
<1>3. row' = [row EXCEPT ![s] = IF Live(s) THEN renewed ELSE fresh]
  BY DEF Register
<1>4. /\ fresh.status = "live" /\ fresh.updated = now /\ fresh.enc = enc
      /\ fresh.gen = IF enc THEN row[s].gen + 1 ELSE 0
      /\ renewed.status = row[s].status /\ renewed.updated = now
      /\ renewed.enc = row[s].enc /\ renewed.gen = row[s].gen
  BY <1>1 DEF RowInStore
<1>5. row[s].enc => enc
  BY DEF Register
<1>6. row[s].gen \in Nat /\ wrap[s] \in Nat
  BY <1>1 DEF RowInStore, Basics, StoreTypes
<1> HIDE DEF enc, fresh, renewed
<1>7. /\ row' \in [Sessions -> RowInStore]
      /\ row'[s] = IF Live(s) THEN renewed ELSE fresh
      /\ \A t \in Sessions \ {s} : row'[t] = row[t]
  BY <1>2, <1>3 DEF Basics, StoreTypes
<1>8. /\ row'[s].updated = now /\ row'[s].status = "live"
      /\ wrap[s] <= row'[s].gen
      /\ ~row'[s].enc => row'[s].gen = 0
  <2>1. CASE Live(s)
    BY <1>4, <1>7, <2>1 DEF Basics, SessionRules, Live
  <2>2. CASE ~Live(s)
    <3>1. row'[s] = fresh
      BY <1>7, <2>2
    <3>2. wrap[s] <= row[s].gen /\ (~row[s].enc => row[s].gen = 0)
      BY DEF Basics, SessionRules
    <3>3. wrap[s] <= fresh.gen
      BY <1>4, <1>5, <1>6, <3>2
    <3>4. QED
      BY <1>4, <3>1, <3>3
  <2>3. QED
    BY <2>1, <2>2
<1>9. UNCHANGED <<now, doc, start, chunks, wrap, stamp, claimed, past, deletes>>
  BY DEF Register
<1>10. StoreTypes'
  BY <1>7, <1>9 DEF Basics, StoreTypes
<1>11. ASSUME NEW t \in Sessions
       PROVE  SessionRules(t)'
  <2>1. SessionRules(t)
    BY DEF Basics
  <2>2. CASE t = s
    BY <1>1, <1>8, <1>9, <2>1, <2>2 DEF SessionRules, Live
  <2>3. CASE t # s
    <3>1. row'[t] = row[t]
      BY <1>7, <2>3
    <3>2. QED
      BY <1>9, <2>1, <3>1 DEF SessionRules, Live
  <2>4. QED
    BY <2>2, <2>3
<1>12. QED
  BY <1>9, <1>10, <1>11

LEMMA PutChunkBasics ==
  ASSUME Basics, NEW s \in Sessions, PutChunk(s)
  PROVE  StoreTypes' /\ (\A t \in Sessions : SessionRules(t)') /\ now' = now
<1> DEFINE from == Reach(start[s], chunks[s])
           added(to) == [off |-> from, end |-> to, gen |-> row[s].gen, data |-> Bytes(s, from, to)]
<1>1. PICK to \in from + 1 .. MaxLength :
        chunks' = [chunks EXCEPT ![s] = @ \cup {added(to)}]
  BY DEF PutChunk
<1>2. from \in Nat
  <2>1. \A c \in chunks[s] : c.end \in Nat /\ c.end <= MaxLength
    BY EndsInStore DEF Basics
  <2>2. start[s] \in Nat /\ MaxLength \in Nat
    BY PullConstants DEF Basics, StoreTypes
  <2>3. QED
    BY <2>1, <2>2, ReachIs
<1>3. row[s].gen \in Nat /\ doc[s] \in Transcripts
  BY DEF Basics, StoreTypes, RowInStore
<1> HIDE DEF from
<1>4. Bytes(s, from, to) \in Seq(Nat \X Nat)
  BY <1>2, <1>3, BytesTyped
<1>5. added(to) \in ChunkInStore
  <2>1. to \in Nat /\ to <= MaxLength
    BY <1>2, PullConstants
  <2>2. added(to) \in Chunk
    BY <1>2, <1>3, <1>4, <2>1 DEF Chunk
  <2>3. QED
    BY <2>1, <2>2 DEF ChunkInStore
<1> HIDE DEF added
<1>6. chunks' \in [Sessions -> SUBSET ChunkInStore]
  BY <1>1, <1>5 DEF Basics, StoreTypes
<1>7. /\ claimed' = claimed \cup {s} /\ stamp[s] # 0
      /\ UNCHANGED <<now, doc, start, row, wrap, stamp, past, deletes>>
  BY DEF PutChunk
<1>8. StoreTypes'
  BY <1>6, <1>7 DEF Basics, StoreTypes
<1>9. \A t \in Sessions : SessionRules(t)'
  BY <1>7 DEF Basics, SessionRules, Live
<1>10. QED
  BY <1>7, <1>8, <1>9

LEMMA TouchSessionBasics ==
  ASSUME Basics, NEW s \in Sessions, TouchSession(s)
  PROVE  StoreTypes' /\ (\A t \in Sessions : SessionRules(t)') /\ now' = now
<1> DEFINE size == Reach(row[s].size, chunks[s])
           touched == [row[s] EXCEPT !.size = size, !.updated = stamp[s]]
<1>1. row[s] \in RowInStore /\ stamp[s] \in Nat /\ stamp[s] # 0 /\ stamp[s] <= now
  BY DEF TouchSession, Basics, StoreTypes, SessionRules
<1>2. size \in 0 .. MaxLength
  BY <1>1, EndsInStore DEF Basics, RowInStore
<1>3. touched \in RowInStore
  BY <1>1, <1>2 DEF RowInStore
<1>4. /\ touched.updated = stamp[s] /\ touched.status = row[s].status
      /\ touched.enc = row[s].enc /\ touched.gen = row[s].gen
  BY <1>1 DEF RowInStore
<1>5. row' = [row EXCEPT ![s] = touched]
  BY DEF TouchSession
<1> HIDE DEF size, touched
<1>6. /\ row' \in [Sessions -> RowInStore] /\ row'[s] = touched
      /\ \A t \in Sessions \ {s} : row'[t] = row[t]
  BY <1>3, <1>5 DEF Basics, StoreTypes
<1>7. /\ stamp' = [stamp EXCEPT ![s] = 0] /\ claimed' = claimed \ {s}
      /\ UNCHANGED <<now, doc, start, chunks, wrap, past, deletes>>
  BY DEF TouchSession
<1>8. StoreTypes'
  BY <1>6, <1>7 DEF Basics, StoreTypes
<1>9. ASSUME NEW t \in Sessions
      PROVE  SessionRules(t)'
  <2>1. SessionRules(t)
    BY DEF Basics
  <2>2. CASE t = s
    <3>1. stamp'[t] = 0 /\ t \notin claimed' /\ row'[t] = touched
      BY <1>6, <1>7, <2>2 DEF Basics, StoreTypes
    <3>2. now \in Nat
      BY DEF Basics, StoreTypes
    <3>3. QED
      BY <1>1, <1>4, <1>7, <2>1, <2>2, <3>1, <3>2 DEF SessionRules, Live
  <2>3. CASE t # s
    <3>1. row'[t] = row[t] /\ stamp'[t] = stamp[t] /\ (t \in claimed' <=> t \in claimed)
      BY <1>6, <1>7, <2>3 DEF Basics, StoreTypes
    <3>2. QED
      BY <1>7, <2>1, <3>1 DEF SessionRules, Live
  <2>4. QED
    BY <2>2, <2>3
<1>10. QED
  BY <1>7, <1>8, <1>9

LEMMA DeleteSessionBasics ==
  ASSUME Basics, NEW s \in Sessions, NEW kept \in 0 .. MaxLength, NEW from \in {0, 1},
         DeleteSession(s, kept, from)
  PROVE  StoreTypes' /\ (\A t \in Sessions : SessionRules(t)') /\ now' = now
<1> DEFINE rewritten == [i \in 1 .. MaxLength |-> IF i <= kept THEN doc[s][i] ELSE deletes + 2]
           gone == [row[s] EXCEPT !.status = "deleted", !.size = 0, !.updated = now]
<1>1. row[s] \in RowInStore /\ now \in Nat /\ doc[s] \in Transcripts /\ deletes \in Nat
  BY DEF Basics, StoreTypes
<1>2. gone \in RowInStore
  <2>1. 0 \in 0 .. MaxLength
    BY PullConstants
  <2>2. QED
    BY <1>1, <2>1 DEF RowInStore
<1>3. /\ gone.updated = now /\ gone.status = "deleted"
      /\ gone.enc = row[s].enc /\ gone.gen = row[s].gen
  BY <1>1 DEF RowInStore
<1>4. rewritten \in Transcripts
  <2>1. deletes + 2 \in Nat
    BY <1>1
  <2>2. \A i \in 1 .. MaxLength : doc[s][i] \in Nat
    BY <1>1 DEF Transcripts
  <2>3. \A i \in 1 .. MaxLength : (IF i <= kept THEN doc[s][i] ELSE deletes + 2) \in Nat
    BY <2>1, <2>2
  <2>4. QED
    BY <2>3 DEF Transcripts
<1>5. /\ row' = [row EXCEPT ![s] = gone]
      /\ doc' = [doc EXCEPT ![s] = rewritten]
      /\ past' = [past EXCEPT ![s] = @ \cup {rewritten}]
      /\ chunks' = [chunks EXCEPT ![s] = {}] /\ wrap' = [wrap EXCEPT ![s] = 0]
      /\ start' = [start EXCEPT ![s] = from]
      /\ deletes' = deletes + 1 /\ deletes < MaxDeletes /\ stamp[s] = 0
      /\ UNCHANGED <<now, stamp, claimed>>
  BY DEF DeleteSession
<1> HIDE DEF rewritten, gone
<1>6. /\ row' \in [Sessions -> RowInStore] /\ doc' \in [Sessions -> Transcripts]
      /\ wrap' \in [Sessions -> Nat] /\ start' \in [Sessions -> {0, 1}]
      /\ chunks' \in [Sessions -> SUBSET ChunkInStore]
  BY <1>2, <1>4, <1>5 DEF Basics, StoreTypes
<1>7. past' \in [Sessions -> SUBSET Transcripts]
  BY <1>4, <1>5 DEF Basics, StoreTypes
<1>8. deletes' \in 0 .. MaxDeletes
  BY <1>1, <1>5, PullConstants DEF Basics, StoreTypes
<1>9. StoreTypes'
  BY <1>5, <1>6, <1>7, <1>8 DEF Basics, StoreTypes
<1>10. ASSUME NEW t \in Sessions
       PROVE  SessionRules(t)'
  <2>1. SessionRules(t)
    BY DEF Basics
  <2>2. CASE t = s
    <3>1. /\ row'[t] = gone /\ wrap'[t] = 0 /\ doc'[t] = rewritten
          /\ past'[t] = past[t] \cup {rewritten}
      BY <1>5, <2>2 DEF Basics, StoreTypes
    <3>2. row[s].gen \in Nat
      BY <1>1 DEF RowInStore
    <3>3. QED
      BY <1>1, <1>3, <1>5, <2>1, <2>2, <3>1, <3>2 DEF SessionRules, Live
  <2>3. CASE t # s
    <3>1. /\ row'[t] = row[t] /\ wrap'[t] = wrap[t] /\ doc'[t] = doc[t]
          /\ past'[t] = past[t]
      BY <1>5, <2>3 DEF Basics, StoreTypes
    <3>2. QED
      BY <1>5, <2>1, <3>1 DEF SessionRules, Live
  <2>4. QED
    BY <2>2, <2>3
<1>11. QED
  BY <1>5, <1>9, <1>10

(* The other steps of the store.                                             *)
LEMMA OtherStoreBasics ==
  ASSUME Basics, \/ Tick
                 \/ \E s \in Sessions : PutWraps(s) \/ ReadTime(s)
  PROVE  StoreTypes' /\ (\A t \in Sessions : SessionRules(t)') /\ now <= now'
<1>1. CASE Tick
  <2>1. now \in Nat /\ MaxTime \in Nat
    BY PullConstants DEF Basics, StoreTypes
  <2>2. now' \in 1 .. MaxTime /\ now' = now + 1
    BY <1>1, <2>1 DEF Tick, Basics, StoreTypes
  <2>3. UNCHANGED <<doc, start, row, chunks, wrap, stamp, claimed, past, deletes>>
    BY <1>1 DEF Tick
  <2>4. StoreTypes'
    BY <2>2, <2>3 DEF Basics, StoreTypes
  <2>5. ASSUME NEW t \in Sessions
        PROVE  SessionRules(t)'
    <3>1. row[t].updated \in Nat /\ stamp[t] \in Nat
      BY DEF Basics, StoreTypes, RowInStore
    <3>2. \A n \in Nat : n <= now => n <= now'
      BY <2>1, <2>2
    <3>3. SessionRules(t)
      BY DEF Basics
    <3>4. QED
      BY <2>3, <3>1, <3>2, <3>3 DEF SessionRules, Live
  <2>6. QED
    BY <2>1, <2>2, <2>4, <2>5
<1>2. ASSUME NEW s \in Sessions, PutWraps(s)
      PROVE  StoreTypes' /\ (\A t \in Sessions : SessionRules(t)') /\ now <= now'
  <2>1. /\ wrap' = [wrap EXCEPT ![s] = row[s].gen]
        /\ UNCHANGED <<now, doc, start, row, chunks, stamp, claimed, past, deletes>>
    BY <1>2 DEF PutWraps
  <2>2. row[s].gen \in Nat /\ now \in Nat
    BY DEF Basics, StoreTypes, RowInStore
  <2>3. StoreTypes'
    BY <2>1, <2>2 DEF Basics, StoreTypes
  <2>4. ASSUME NEW t \in Sessions
        PROVE  SessionRules(t)'
    <3>1. wrap'[t] <= row[t].gen
      BY <2>1, <2>2 DEF Basics, StoreTypes, SessionRules
    <3>2. SessionRules(t)
      BY DEF Basics
    <3>3. QED
      BY <2>1, <3>1, <3>2 DEF SessionRules, Live
  <2>5. QED
    BY <2>1, <2>2, <2>3, <2>4
<1>3. ASSUME NEW s \in Sessions, ReadTime(s)
      PROVE  StoreTypes' /\ (\A t \in Sessions : SessionRules(t)') /\ now <= now'
  <2>1. /\ stamp' = [stamp EXCEPT ![s] = now] /\ Live(s)
        /\ UNCHANGED <<now, doc, start, row, chunks, wrap, claimed, past, deletes>>
    BY <1>3 DEF ReadTime
  <2>2. now \in Nat /\ now # 0
    BY DEF Basics, StoreTypes
  <2>3. StoreTypes'
    BY <2>1, <2>2 DEF Basics, StoreTypes
  <2>4. ASSUME NEW t \in Sessions
        PROVE  SessionRules(t)'
    <3>1. stamp'[t] = IF t = s THEN now ELSE stamp[t]
      BY <2>1 DEF Basics, StoreTypes
    <3>2. SessionRules(t)
      BY DEF Basics
    <3>3. QED
      BY <2>1, <2>2, <3>1, <3>2 DEF SessionRules, Live
  <2>5. QED
    BY <2>1, <2>2, <2>3, <2>4
<1>4. QED
  BY <1>1, <1>2, <1>3

(* Whatever the store does, a pull does not notice before its next request.  *)
LEMMA StoreStepBasics ==
  ASSUME Basics, StoreStep \/ \E s \in Sessions : Upload(s)
  PROVE  Basics'
<1>1. StoreTypes' /\ (\A t \in Sessions : SessionRules(t)') /\ now <= now'
  <2>1. now \in Nat
    BY DEF Basics, StoreTypes
  <2>2. CASE StoreStep
    <3>1. CASE Tick \/ \E s \in Sessions : PutWraps(s) \/ ReadTime(s)
      BY <3>1, OtherStoreBasics
    <3>2. CASE \E s \in Sessions : \E scheme \in Schemes : Register(s, scheme)
      BY <2>1, <3>2, RegisterBasics
    <3>3. CASE \E s \in Sessions : \E kept \in 0 .. MaxLength, from \in {0, 1} :
                 DeleteSession(s, kept, from)
      BY <2>1, <3>3, DeleteSessionBasics
    <3>4. QED
      BY <2>2, <3>1, <3>2, <3>3 DEF StoreStep
  <2>3. CASE \E s \in Sessions : Upload(s)
    BY <2>1, <2>3, PutChunkBasics, TouchSessionBasics DEF Upload
  <2>4. QED
    BY <2>2, <2>3
<1>2. UNCHANGED <<puller, troubles>> /\ mishaps' \subseteq Mishaps
  BY DEF StoreStep, Upload, Suffers, Mishaps, Basics, PullTypes
<1>3. PullTypes'
  BY <1>2 DEF Basics, PullTypes, puller
<1>4. now \in Nat /\ now' \in Nat
  BY <1>1 DEF Basics, StoreTypes
<1>5. \A n \in Nat : n <= now => n <= now'
  BY <1>1, <1>4
<1>6. /\ saved.cursor \in Nat /\ run.ok \in Nat /\ run.failed \in Nat
      /\ \A r \in run.rows : r.updated \in Nat
  BY DEF Basics, PullTypes, RunType, RowRead
<1>7. RunRules'
  <2>1. Working' = Working /\ Writing' = Writing
    BY <1>2 DEF Working, Writing, puller
  <2>2. QED
    BY <1>2, <1>5, <1>6, <2>1 DEF Basics, RunRules, puller
<1>8. QED
  BY <1>1, <1>3, <1>7 DEF Basics

LEMMA NoRunTyped ==
  /\ NoRun \in RunType /\ NoState.records \in [Sessions -> RecordType]
  /\ NoRun.rows = {} /\ NoRun.row = NoRow /\ NoRun.listed = {} /\ NoRun.todo = {}
  /\ NoRun.ok = 0 /\ NoRun.failed = 0 /\ ~NoRun.written
  /\ NoState.cursor = 0 /\ NoRun.records = NoState.records
  /\ \A s \in Sessions : NoState.records[s] = NoRecord
<1>1. NoRecord \in RecordType
  BY DEF NoRecord, RecordType
<1>2. /\ NoState.records \in [Sessions -> RecordType] /\ NoState.cursor = 0
      /\ \A s \in Sessions : NoState.records[s] = NoRecord
  BY <1>1 DEF NoState
<1>3. NoRow \in RowRead
  BY DEF NoRow, RowRead
<1>4. NoRun \in RunType
  BY <1>2, <1>3 DEF NoRun, RunType
<1>5. QED
  BY <1>2, <1>4 DEF NoRun

(* What a listing holds.                                                     *)
LEMMA ListingIs ==
  ASSUME StoreTypes, NEW cursor, NEW r \in Listing(cursor)
  PROVE  /\ r.session \in Sessions /\ Live(r.session) /\ row[r.session].updated >= cursor
         /\ r = [session |-> r.session, enc |-> row[r.session].enc, gen |-> row[r.session].gen,
                 size |-> row[r.session].size, updated |-> row[r.session].updated]
         /\ r \in RowRead
<1>1. PICK s \in Sessions :
        /\ Live(s) /\ row[s].updated >= cursor
        /\ r = [session |-> s, enc |-> row[s].enc, gen |-> row[s].gen,
                size |-> row[s].size, updated |-> row[s].updated]
  BY DEF Listing, PageOf
<1>2. row[s] \in RowInStore /\ s \in Nat
  BY PullConstants DEF StoreTypes
<1>3. r.session = s
  BY <1>1
<1>4. r \in RowRead
  BY <1>1, <1>2 DEF RowRead, RowInStore
<1>5. QED
  BY <1>1, <1>3, <1>4

LEMMA ListBasics ==
  ASSUME Basics, NEW legacy \in Legacy, List(legacy)
  PROVE  Basics'
<1> DEFINE begun == [NoRun EXCEPT !.rows = Listing(saved.cursor), !.legacy = legacy,
                                  !.records = saved.records]
<1>1. /\ run' = begun /\ pc' = "wraps" /\ pc = "idle"
      /\ UNCHANGED <<store, mirror, saved, mishaps, troubles>>
  BY DEF List, Goto
<1>2. Listing(saved.cursor) \subseteq RowRead
  BY ListingIs DEF Basics
<1>3. legacy \in BOOLEAN /\ saved.records \in [Sessions -> RecordType] /\ saved.cursor \in Nat
  BY PullConstants DEF Basics, PullTypes
<1>4. NoRow \in RowRead
  BY DEF NoRow, RowRead
<1>5. NoRun \in RunType
  BY NoRunTyped
<1>6. begun \in RunType
  BY <1>2, <1>3, <1>5 DEF RunType
<1>7. PullTypes'
  BY <1>1, <1>6 DEF Basics, PullTypes, Steps
<1>8. now \in Nat /\ StoreTypes
  BY DEF Basics, StoreTypes
<1>9. ASSUME NEW r \in Listing(saved.cursor)
      PROVE  r.session \in Sessions /\ 1 <= r.updated /\ r.updated <= now /\ saved.cursor <= r.updated
  <2>1. /\ r.session \in Sessions /\ Live(r.session) /\ row[r.session].updated >= saved.cursor
        /\ r.updated = row[r.session].updated
    BY <1>8, ListingIs
  <2>2. row[r.session].updated <= now /\ row[r.session].updated >= 1
    BY <2>1 DEF Basics, SessionRules
  <2>3. row[r.session].updated \in Nat
    BY <1>8, <2>1 DEF StoreTypes, RowInStore
  <2>4. QED
    BY <1>3, <2>1, <2>2, <2>3
<1>10. \A q, r \in Listing(saved.cursor) : q.session = r.session => q = r
  BY <1>8, ListingIs
<1>11. RunRules'
  <2>1. /\ run'.rows = Listing(saved.cursor) /\ run'.ok = 0 /\ run'.failed = 0
        /\ run'.row = NoRow /\ run'.todo = {} /\ ~run'.written /\ ~Working' /\ run'.listed = {}
    BY <1>1, <1>5, NoRunTyped DEF Working, RunType
  <2>2. now' = now /\ saved' = saved /\ saved.cursor <= now /\ 0 <= now
    BY <1>1, <1>8 DEF Basics, RunRules, store
  <2>3. QED
    BY <1>1, <1>9, <1>10, <2>1, <2>2 DEF RunRules
<1>12. StoreTypes' /\ \A s \in Sessions : SessionRules(s)'
  BY <1>1 DEF Basics, StoreTypes, SessionRules, Live, store
<1>13. QED
  BY <1>7, <1>11, <1>12 DEF Basics

(* The store does not change in a pull's own steps.                          *)
LEMMA StoreStands ==
  ASSUME Basics, UNCHANGED store
  PROVE  StoreTypes' /\ \A s \in Sessions : SessionRules(s)'
BY DEF Basics, StoreTypes, SessionRules, Live, store

(* A row that is concluded leaves the others to be worked on.                *)
LEMMA ConcludeBasics ==
  ASSUME Basics, Working \/ pc = "session", UNCHANGED <<store, saved>>,
         NEW outcome, NEW record \in RecordType, Conclude(outcome, record),
         mirror' \in [Sessions -> Seq(Nat \X Nat)],
         mishaps' \subseteq Mishaps, troubles' \in 0 .. MaxTroubles
  PROVE  Basics'
<1>1. /\ run' \in RunType
      /\ run'.rows = run.rows \ {Row} /\ run'.row = NoRow /\ run'.todo = {} /\ ~run'.written
      /\ run'.listed = {}
      /\ run'.ok = IF outcome = "ok" THEN Most(run.ok, Row.updated) ELSE run.ok
      /\ run'.failed = IF outcome # "failed" THEN run.failed
                       ELSE IF run.failed = 0 THEN Row.updated
                            ELSE Least(run.failed, Row.updated)
      /\ pc' = IF run'.rows = {} THEN "save" ELSE "session"
  BY Concluded
<1>2. StoreTypes' /\ \A s \in Sessions : SessionRules(s)'
  BY StoreStands
<1>3. PullTypes'
  <2>1. pc' \in Steps
    BY <1>1 DEF Steps
  <2>2. QED
    BY <1>1, <2>1 DEF Basics, PullTypes
<1>4. /\ Row \in run.rows /\ Row.updated \in Nat /\ Row.updated <= now
      /\ run.ok \in Nat /\ run.failed \in Nat /\ run.ok <= now /\ run.failed <= now
  BY RowIsListed DEF Basics, PullTypes, RunType, RunRules, RowRead
<1>5. run'.ok <= now /\ run'.failed <= now
  BY <1>1, <1>4 DEF Most, Least
<1>6. RunRules'
  <2>1. ~Working' /\ now' = now /\ saved' = saved
    BY <1>1 DEF Working, store
  <2>2. QED
    BY <1>1, <1>5, <2>1 DEF Basics, RunRules
<1>7. QED
  BY <1>2, <1>3, <1>6 DEF Basics

(* What a pull works through is what it listed.                              *)
LEMMA PlanIsListed ==
  ASSUME NEW have
  PROVE  PlanOf(have) \subseteq run.listed
BY DEF PlanOf

LEMMA RecordTyped ==
  ASSUME Basics, Working, NEW file
  PROVE  Base \in Nat /\ RecordOf(file) \in RecordType
<1>1. run.listed # {} /\ run.listed \subseteq ChunkInStore /\ run.gen \in Nat
  BY DEF Basics, RunRules, PullTypes, RunType
<1>2. \A c \in run.listed : c.off \in Nat
  BY <1>1 DEF ChunkInStore, Chunk
<1>3. \E c \in run.listed : \A d \in run.listed : c.off <= d.off
  BY <1>1, <1>2, FirstChunk
<1>4. (CHOOSE c \in run.listed : \A d \in run.listed : c.off <= d.off) \in run.listed
  BY <1>3
<1>5. Base \in Nat
  BY <1>2, <1>4 DEF Base
<1>6. OnDisk(file) \subseteq Chunk
  BY <1>1 DEF OnDisk, PrefixFor, ChunkInStore
<1>7. Row.enc \in BOOLEAN
  BY RowIsListed DEF RowRead
<1>8. QED
  BY <1>1, <1>5, <1>6, <1>7 DEF RecordOf, SessionRecord, RecordType

(* A step within a row.                                                      *)
LEMMA RowStepBasics ==
  ASSUME Basics, Working \/ pc = "session", UNCHANGED <<store, saved, troubles, mishaps>>,
         mirror' \in [Sessions -> Seq(Nat \X Nat)], run' \in RunType, pc' \in Steps, Working',
         run'.rows = run.rows, run'.row \in run.rows, run'.listed # {},
         run'.ok = run.ok, run'.failed = run.failed, run'.todo \subseteq run'.listed,
         pc' = "fetch" => run'.todo # {}, run'.written => Writing'
  PROVE  Basics'
<1>1. StoreTypes' /\ \A s \in Sessions : SessionRules(s)'
  BY StoreStands
<1>2. PullTypes'
  BY DEF Basics, PullTypes
<1>3. RunRules'
  <2>1. now' = now /\ saved' = saved
    BY DEF store
  <2>2. pc' \notin {"session", "save"}
    BY DEF Working
  <2>3. QED
    BY <2>1, <2>2 DEF Basics, RunRules
<1>4. QED
  BY <1>1, <1>2, <1>3 DEF Basics

LEMMA FetchWrapsBasics ==
  ASSUME Basics, FetchWraps
  PROVE  Basics'
<1> DEFINE held == {s \in Sessions : Live(s) /\ wrap[s] # 0}
<1>1. /\ pc = "wraps" /\ run' = [run EXCEPT !.held = held]
      /\ pc' = IF run.rows = {} THEN "save" ELSE "session"
      /\ UNCHANGED <<store, mirror, saved, mishaps, troubles>>
  BY DEF FetchWraps, FetchWrapsThen, Goto
<1>2. held \subseteq Sessions /\ run \in RunType
  BY DEF Basics, PullTypes
<1> HIDE DEF held
<1>3. /\ run' \in RunType /\ run'.rows = run.rows /\ run'.row = run.row /\ run'.todo = run.todo
      /\ run'.listed = run.listed /\ run'.ok = run.ok /\ run'.failed = run.failed
      /\ run'.written = run.written
  BY <1>1, <1>2 DEF RunType
<1>4. StoreTypes' /\ \A s \in Sessions : SessionRules(s)'
  BY <1>1, StoreStands
<1>5. PullTypes'
  <2>1. pc' \in Steps
    BY <1>1 DEF Steps
  <2>2. QED
    BY <1>1, <1>3, <2>1 DEF Basics, PullTypes
<1>6. RunRules'
  <2>1. ~Working /\ ~Working' /\ ~Writing
    BY <1>1 DEF Working, Writing
  <2>2. now' = now
    BY <1>1 DEF store
  <2>3. QED
    BY <1>1, <1>3, <2>1, <2>2 DEF Basics, RunRules
<1>7. QED
  BY <1>4, <1>5, <1>6 DEF Basics

LEMMA SkipBasics ==
  ASSUME Basics, Skip
  PROVE  Basics'
<1>1. mishaps' \subseteq Mishaps
  BY DEF Skip, Suffers, Mishaps, Basics, PullTypes
<1>2. Record \in RecordType
  BY RowIsListed DEF Skip
<1>3. QED
  BY <1>1, <1>2, ConcludeBasics DEF Skip, Basics, PullTypes

LEMMA ListChunksBasics ==
  ASSUME Basics, ListChunks
  PROVE  Basics'
<1>1. /\ pc = "session" /\ ~Working
      /\ UNCHANGED <<store, mirror, saved, troubles>>
  BY DEF ListChunks, Working
<1>2. /\ Row \in run.rows /\ Row \in RowRead /\ Session \in Sessions /\ Record \in RecordType
  BY <1>1, RowIsListed
<1>3. NoRecord \in RecordType
  BY DEF NoRecord, RecordType
<1>4. mirror' \in [Sessions -> Seq(Nat \X Nat)] /\ troubles' \in 0 .. MaxTroubles
  BY <1>1 DEF Basics, PullTypes
<1>5. CASE Conclude("failed", Record) /\ UNCHANGED mishaps
  <2>1. mishaps' \subseteq Mishaps
    BY <1>5 DEF Basics, PullTypes
  <2>2. QED
    BY <1>1, <1>2, <1>4, <1>5, <2>1, ConcludeBasics
<1>6. CASE Conclude("ok", NoRecord) /\ Suffers({"emptied"})
  <2>1. mishaps' \subseteq Mishaps
    BY <1>6 DEF Suffers, Mishaps, Basics, PullTypes
  <2>2. QED
    BY <1>1, <1>3, <1>4, <1>6, <2>1, ConcludeBasics
<1>7. CASE /\ chunks[Session] # {}
           /\ run' = [run EXCEPT !.row = Row, !.listed = chunks[Session]]
           /\ Goto(IF Row.enc THEN "probe" ELSE "compare")
           /\ UNCHANGED mishaps
  <2>1. chunks[Session] \subseteq ChunkInStore /\ run \in RunType
    BY <1>2 DEF Basics, StoreTypes, PullTypes
  <2>2. /\ run' \in RunType /\ run'.rows = run.rows /\ run'.row = Row
        /\ run'.listed = chunks[Session] /\ run'.todo = run.todo /\ run'.ok = run.ok
        /\ run'.failed = run.failed /\ run'.written = run.written
    BY <1>2, <1>7, <2>1 DEF RunType
  <2>3. run.todo = {} /\ ~run.written
    <3>1. ~Writing
      BY <1>1 DEF Writing
    <3>2. QED
      BY <1>1, <3>1 DEF Basics, RunRules
  <2>4. pc' \in {"probe", "compare"}
    BY <1>7 DEF Goto
  <2>5. pc' \in Steps /\ Working' /\ pc' # "fetch"
    BY <2>4 DEF Steps, Working
  <2>6. QED
    BY <1>1, <1>2, <1>4, <1>7, <2>2, <2>3, <2>5, RowStepBasics
<1>8. QED
  BY <1>5, <1>6, <1>7 DEF ListChunks

LEMMA ProbeGenerationBasics ==
  ASSUME Basics, ProbeGeneration
  PROVE  Basics'
<1> DEFINE gen == IF Live(Session) /\ row[Session].gen # 0 THEN row[Session].gen ELSE Row.gen
<1>1. /\ pc = "probe" /\ pc' = "key" /\ run' = [run EXCEPT !.gen = gen]
      /\ UNCHANGED <<store, mirror, saved, mishaps, troubles>>
  BY DEF ProbeGeneration, Goto
<1>2. Row \in RowRead /\ Session \in Sessions /\ run \in RunType /\ Working
  <2>1. Working
    BY <1>1 DEF Working
  <2>2. QED
    BY <2>1, RowIsListed DEF Basics, PullTypes
<1>3. gen \in Nat
  BY <1>2 DEF RowRead, Basics, StoreTypes, RowInStore
<1> HIDE DEF gen
<1>4. /\ run' \in RunType /\ run'.rows = run.rows /\ run'.row = run.row
      /\ run'.listed = run.listed /\ run'.todo = run.todo /\ run'.ok = run.ok
      /\ run'.failed = run.failed /\ run'.written = run.written
  BY <1>1, <1>2, <1>3 DEF RunType
<1>5. /\ run.row \in run.rows /\ run.listed # {} /\ run.todo \subseteq run.listed
      /\ ~run.written
  <2>1. ~Writing
    BY <1>1 DEF Writing
  <2>2. QED
    BY <1>2, <2>1 DEF Basics, RunRules
<1>6. pc' \in Steps /\ Working'
  BY <1>1 DEF Steps, Working
<1>7. mirror' \in [Sessions -> Seq(Nat \X Nat)]
  BY <1>1 DEF Basics, PullTypes
<1>8. QED
  BY <1>1, <1>2, <1>4, <1>5, <1>6, <1>7, RowStepBasics

LEMMA ResolveKeyBasics ==
  ASSUME Basics, ResolveKey
  PROVE  Basics'
<1>1. /\ pc = "key" /\ UNCHANGED <<store, mirror, saved, mishaps, troubles>> /\ Working
  BY DEF ResolveKey, Working
<1>2. Record \in RecordType /\ run \in RunType
  BY <1>1, RowIsListed DEF Basics, PullTypes
<1>3. mirror' \in [Sessions -> Seq(Nat \X Nat)]
  BY <1>1 DEF Basics, PullTypes
<1>4. CASE Goto("compare") /\ UNCHANGED run
  <2>1. pc' \in Steps /\ Working' /\ pc' # "fetch"
    BY <1>4 DEF Goto, Steps, Working
  <2>2. /\ run'.row \in run.rows /\ run'.listed # {} /\ run'.todo \subseteq run'.listed
        /\ ~run'.written
    <3>1. ~Writing
      BY <1>1 DEF Writing
    <3>2. QED
      BY <1>1, <1>4, <3>1 DEF Basics, RunRules
  <2>3. QED
    BY <1>1, <1>2, <1>3, <1>4, <2>1, <2>2, RowStepBasics
<1>5. CASE Conclude("failed", Record)
  <2>1. mishaps' \subseteq Mishaps /\ troubles' \in 0 .. MaxTroubles
    BY <1>1 DEF Basics, PullTypes
  <2>2. QED
    BY <1>1, <1>2, <1>3, <1>5, <2>1, ConcludeBasics
<1>6. QED
  BY <1>4, <1>5 DEF ResolveKey

LEMMA CompareBasics ==
  ASSUME Basics, Compare
  PROVE  Basics'
<1> DEFINE file == mirror[Session]
           kept == IF Len(file) > 0 /\ Stale(file, Base) THEN <<>> ELSE file
           have == Base + Len(kept)
<1>1. /\ pc = "compare" /\ Working
      /\ mirror' = [mirror EXCEPT ![Session] = kept]
      /\ UNCHANGED <<store, saved, mishaps, troubles>>
  BY DEF Compare, Working
<1>2. /\ Record \in RecordType /\ RecordOf(kept) \in RecordType /\ run \in RunType
      /\ Session \in Sessions
  BY <1>1, RowIsListed, RecordTyped DEF Basics, PullTypes
<1>3. mirror' \in [Sessions -> Seq(Nat \X Nat)]
  BY <1>1, <1>2 DEF Basics, PullTypes
<1>4. mishaps' \subseteq Mishaps /\ troubles' \in 0 .. MaxTroubles
  BY <1>1 DEF Basics, PullTypes
<1>5. CASE Conclude("failed", Record) \/ Conclude("ok", RecordOf(kept))
  BY <1>1, <1>2, <1>3, <1>4, <1>5, ConcludeBasics
<1>6. CASE /\ PlanOf(have) # {}
           /\ run' = [run EXCEPT !.todo = PlanOf(have)] /\ Goto("fetch")
  <2>1. PlanOf(have) \subseteq run.listed
    BY PlanIsListed
  <2>2. run.listed \subseteq ChunkInStore /\ run.row \in run.rows /\ run.listed # {}
    BY <1>1 DEF Basics, PullTypes, RunType, RunRules
  <2> HIDE DEF have
  <2>3. /\ run' \in RunType /\ run'.rows = run.rows /\ run'.row = run.row
        /\ run'.listed = run.listed /\ run'.todo = PlanOf(have) /\ run'.ok = run.ok
        /\ run'.failed = run.failed /\ run'.written = run.written
    BY <1>2, <1>6, <2>1, <2>2 DEF RunType
  <2>4. pc' = "fetch" /\ pc' \in Steps /\ Working' /\ Writing'
    BY <1>6 DEF Goto, Steps, Working, Writing
  <2>5. QED
    BY <1>1, <1>3, <1>6, <2>1, <2>2, <2>3, <2>4, RowStepBasics
<1>7. QED
  BY <1>5, <1>6 DEF Compare

(* The next chunk to fetch.                                                  *)
Next1 == CHOOSE d \in run.todo : \A e \in run.todo : d.off <= e.off

LEMMA NextChunk ==
  ASSUME Basics, pc = "fetch"
  PROVE  /\ Next1 \in run.todo /\ Next1 \in run.listed /\ Next1 \in ChunkInStore
         /\ \A e \in run.todo : Next1.off <= e.off
<1>1. run.todo # {} /\ run.todo \subseteq ChunkInStore /\ run.todo \subseteq run.listed
  BY DEF Basics, RunRules, PullTypes, RunType
<1>2. \A c \in run.todo : c.off \in Nat
  BY <1>1 DEF ChunkInStore, Chunk
<1>3. \E c \in run.todo : \A d \in run.todo : c.off <= d.off
  BY <1>1, <1>2, FirstChunk
<1>4. Next1 \in run.todo /\ \A e \in run.todo : Next1.off <= e.off
  BY <1>3 DEF Next1
<1>5. QED
  BY <1>1, <1>4

(* The bytes of a chunk are appended, or nothing is.                         *)
Good == /\ Live(Session)
        /\ {d \in chunks[Session] : d.off = Next1.off /\ d.end = Next1.end} = {Next1}
        /\ Next1.gen = run.gen

LEMMA FetchIs ==
  ASSUME Fetch
  PROVE  /\ pc = "fetch"
         /\ mirror' = IF Good THEN [mirror EXCEPT ![Session] = @ \o Next1.data] ELSE mirror
         /\ run' = IF Good THEN [run EXCEPT !.todo = @ \ {Next1}, !.written = TRUE]
                           ELSE [run EXCEPT !.broken = TRUE]
         /\ pc' = IF Good /\ run.todo # {Next1} THEN "fetch" ELSE "finish"
         /\ UNCHANGED <<store, saved, mishaps, troubles>>
BY DEF Fetch, Good, Next1, Goto

LEMMA FetchBasics ==
  ASSUME Basics, Fetch
  PROVE  Basics'
<1>1. /\ pc = "fetch" /\ pc' \in {"fetch", "finish"} /\ Working /\ Working' /\ Writing'
      /\ pc' \in Steps
      /\ UNCHANGED <<store, saved, mishaps, troubles>>
  BY FetchIs DEF Working, Writing, Steps
<1>2. Next1 \in run.todo /\ Next1 \in ChunkInStore /\ run \in RunType /\ Session \in Sessions
  BY <1>1, NextChunk, RowIsListed DEF Basics, PullTypes
<1>3. mirror' \in [Sessions -> Seq(Nat \X Nat)]
  <2>1. Next1.data \in Seq(Nat \X Nat) /\ mirror[Session] \in Seq(Nat \X Nat)
    BY <1>2 DEF ChunkInStore, Chunk, Basics, PullTypes
  <2>2. mirror[Session] \o Next1.data \in Seq(Nat \X Nat)
    BY <2>1
  <2>3. QED
    BY <1>2, <2>2, FetchIs DEF Basics, PullTypes
<1>4. run.row \in run.rows /\ run.listed # {} /\ run.todo \subseteq run.listed
  BY <1>1 DEF Basics, RunRules
<1>5. CASE Good
  <2>1. run' = [run EXCEPT !.todo = @ \ {Next1}, !.written = TRUE]
    BY <1>5, FetchIs
  <2>2. /\ run' \in RunType /\ run'.rows = run.rows /\ run'.row = run.row
        /\ run'.listed = run.listed /\ run'.todo = run.todo \ {Next1} /\ run'.ok = run.ok
        /\ run'.failed = run.failed
    BY <1>2, <2>1 DEF RunType
  <2>3. pc' = "fetch" => run'.todo # {}
    BY <1>2, <1>5, <2>2, FetchIs
  <2>4. QED
    BY <1>1, <1>3, <1>4, <2>2, <2>3, RowStepBasics
<1>6. CASE ~Good
  <2>1. run' = [run EXCEPT !.broken = TRUE] /\ pc' = "finish"
    BY <1>6, FetchIs
  <2>2. /\ run' \in RunType /\ run'.rows = run.rows /\ run'.row = run.row
        /\ run'.listed = run.listed /\ run'.todo = run.todo /\ run'.ok = run.ok
        /\ run'.failed = run.failed
    BY <1>2, <2>1 DEF RunType
  <2>3. QED
    BY <1>1, <1>3, <1>4, <2>1, <2>2, RowStepBasics
<1>7. QED
  BY <1>5, <1>6

LEMMA FinishBasics ==
  ASSUME Basics, Finish
  PROVE  Basics'
<1>1. pc = "finish" /\ Working /\ UNCHANGED <<store, mirror, saved, troubles>>
  BY DEF Finish, Working
<1>2. mishaps' \subseteq Mishaps
  BY DEF Finish, Suffers, Mishaps, Basics, PullTypes
<1>3. mirror' \in [Sessions -> Seq(Nat \X Nat)] /\ troubles' \in 0 .. MaxTroubles
  BY <1>1 DEF Basics, PullTypes
<1>4. Record \in RecordType /\ RecordOf(mirror[Session]) \in RecordType
  BY <1>1, RowIsListed, RecordTyped
<1>5. \E outcome \in {"ok", "failed"}, record \in RecordType : Conclude(outcome, record)
  BY <1>4 DEF Finish
<1>6. QED
  BY <1>1, <1>2, <1>3, <1>5, ConcludeBasics

LEMMA SaveBasics ==
  ASSUME Basics, Save
  PROVE  Basics'
<1>1. /\ pc = "save" /\ saved' = [cursor |-> Cursor, records |-> run.records]
      /\ pc' = "idle" /\ run' = NoRun
      /\ UNCHANGED <<store, mirror, mishaps, troubles>>
  BY DEF Save, Goto
<1>2. Cursor \in Nat /\ Cursor <= now /\ run.records \in [Sessions -> RecordType]
  BY DEF Cursor, Basics, PullTypes, RunType, RunRules
<1>3. StoreTypes' /\ \A s \in Sessions : SessionRules(s)'
  BY <1>1, StoreStands
<1>4. PullTypes'
  BY <1>1, <1>2, NoRunTyped DEF Basics, PullTypes, Steps
<1>5. RunRules'
  <2>1. ~Working' /\ now' = now /\ 0 <= now /\ saved'.cursor = Cursor
    BY <1>1 DEF Working, store, Basics, StoreTypes
  <2>2. QED
    BY <1>1, <1>2, <2>1, NoRunTyped DEF RunRules
<1>6. QED
  BY <1>3, <1>4, <1>5 DEF Basics

LEMMA RequestFailsBasics ==
  ASSUME Basics, RequestFails
  PROVE  Basics'
<1>1. UNCHANGED <<store, mirror, saved, mishaps>> /\ troubles' \in 0 .. MaxTroubles
  <2>1. troubles \in 0 .. MaxTroubles /\ MaxTroubles \in Nat
    BY PullConstants DEF Basics, PullTypes
  <2>2. QED
    BY <2>1 DEF RequestFails, Trouble
<1>2. mirror' \in [Sessions -> Seq(Nat \X Nat)] /\ mishaps' \subseteq Mishaps
  BY <1>1 DEF Basics, PullTypes
<1>3. CASE pc \in {"session", "probe", "key"} /\ Conclude("failed", Record)
  <2>1. Working \/ pc = "session"
    BY <1>3 DEF Working
  <2>2. Record \in RecordType
    BY <2>1, RowIsListed
  <2>3. QED
    BY <1>1, <1>2, <1>3, <2>1, <2>2, ConcludeBasics
<1>4. CASE pc = "fetch" /\ run' = [run EXCEPT !.broken = TRUE] /\ pc' = "finish"
  <2>1. run \in RunType
    BY DEF Basics, PullTypes
  <2>2. /\ run' \in RunType /\ run'.rows = run.rows /\ run'.row = run.row
        /\ run'.listed = run.listed /\ run'.todo = run.todo /\ run'.ok = run.ok
        /\ run'.failed = run.failed
    BY <1>4, <2>1 DEF RunType
  <2>3. Working /\ Working' /\ Writing' /\ pc' \in Steps
    BY <1>4 DEF Working, Writing, Steps
  <2>4. run.row \in run.rows /\ run.listed # {} /\ run.todo \subseteq run.listed
    BY <2>3 DEF Basics, RunRules
  <2>5. StoreTypes' /\ \A s \in Sessions : SessionRules(s)'
    BY <1>1, StoreStands
  <2>6. PullTypes'
    BY <1>1, <1>2, <2>2, <2>3 DEF Basics, PullTypes
  <2>7. RunRules'
    <3>1. now' = now /\ saved' = saved
      BY <1>1 DEF store
    <3>2. QED
      BY <1>4, <2>2, <2>3, <2>4, <3>1 DEF Basics, RunRules
  <2>8. QED
    BY <2>5, <2>6, <2>7 DEF Basics
<1>5. QED
  BY <1>3, <1>4 DEF RequestFails, Goto

LEMMA EndsBasics ==
  ASSUME Basics, EndEarly \/ LoseState
  PROVE  Basics'
<1>1. UNCHANGED <<store, mirror>> /\ troubles' \in 0 .. MaxTroubles /\ mishaps' \subseteq Mishaps
  <2>1. troubles \in 0 .. MaxTroubles /\ MaxTroubles \in Nat
    BY PullConstants DEF Basics, PullTypes
  <2>2. mishaps' \subseteq Mishaps
    BY DEF EndEarly, LoseState, Suffers, Mishaps, Basics, PullTypes
  <2>3. QED
    BY <2>1, <2>2 DEF EndEarly, LoseState, Trouble
<1>2. StoreTypes' /\ \A s \in Sessions : SessionRules(s)'
  BY <1>1, StoreStands
<1>3. 0 <= now /\ now' = now
  BY <1>1 DEF store, Basics, StoreTypes
<1>4. CASE EndEarly
  <2>1. pc' = "idle" /\ run' = NoRun /\ saved' = saved
    BY <1>4 DEF EndEarly, Goto
  <2>2. PullTypes'
    BY <1>1, <2>1, NoRunTyped DEF Basics, PullTypes, Steps
  <2>3. RunRules'
    <3>1. ~Working'
      BY <2>1 DEF Working
    <3>2. QED
      BY <1>3, <2>1, <3>1, NoRunTyped DEF Basics, RunRules
  <2>4. QED
    BY <1>2, <2>2, <2>3 DEF Basics
<1>5. CASE LoseState
  <2>1. pc = "idle" /\ saved' = NoState /\ pc' = pc /\ run' = run
    BY <1>5 DEF LoseState
  <2>2. NoState \in [cursor : Nat, records : [Sessions -> RecordType]]
    BY NoRunTyped DEF NoState
  <2>3. PullTypes'
    BY <1>1, <2>1, <2>2 DEF Basics, PullTypes
  <2>4. RunRules'
    <3>1. ~Working' /\ ~Working
      BY <2>1 DEF Working
    <3>2. \A r \in run.rows : 0 <= r.updated
      BY DEF Basics, PullTypes, RunType, RowRead
    <3>3. Writing' = Writing /\ saved'.cursor = 0
      BY <2>1, NoRunTyped DEF Writing
    <3>4. QED
      BY <1>3, <2>1, <3>1, <3>2, <3>3 DEF Basics, RunRules
  <2>5. QED
    BY <1>2, <2>3, <2>4 DEF Basics
<1>6. QED
  BY <1>4, <1>5

LEMMA InitBasics ==
  ASSUME Init
  PROVE  Basics
<1>1. MaxLength \in Nat /\ MaxTime \in Nat \ {0} /\ MaxDeletes \in Nat /\ MaxTroubles \in Nat
  BY PullConstants
<1>2. [i \in 1 .. MaxLength |-> 1] \in Transcripts
  BY DEF Transcripts
<1>3. [status |-> "absent", enc |-> FALSE, gen |-> 0, size |-> 0, updated |-> 0] \in RowInStore
  BY <1>1 DEF RowInStore
<1>4. StoreTypes
  <2>1. now \in 1 .. MaxTime /\ deletes \in 0 .. MaxDeletes
    BY <1>1 DEF Init
  <2>2. doc \in [Sessions -> Transcripts] /\ past \in [Sessions -> SUBSET Transcripts]
    BY <1>2 DEF Init
  <2>3. row \in [Sessions -> RowInStore]
    BY <1>3 DEF Init
  <2>4. QED
    BY <2>1, <2>2, <2>3 DEF Init, StoreTypes
<1>5. PullTypes
  <2>1. NoState \in [cursor : Nat, records : [Sessions -> RecordType]]
    BY NoRunTyped DEF NoState
  <2>2. mirror \in [Sessions -> Seq(Nat \X Nat)]
    BY DEF Init
  <2>3. QED
    BY <1>1, <2>1, <2>2, NoRunTyped DEF Init, PullTypes, Steps
<1>6. \A s \in Sessions : SessionRules(s)
  <2>1. ASSUME NEW s \in Sessions
        PROVE  SessionRules(s)
    <3>1. /\ row[s].status = "absent" /\ row[s].gen = 0 /\ row[s].updated = 0
          /\ wrap[s] = 0 /\ stamp[s] = 0 /\ now = 1 /\ claimed = {} /\ doc[s] \in past[s]
      BY DEF Init
    <3>2. QED
      BY <3>1 DEF SessionRules, Live
  <2>2. QED
    BY <2>1
<1>7. RunRules
  <2>1. pc = "idle" /\ run = NoRun /\ now = 1 /\ saved = NoState
    BY DEF Init
  <2>2. ~Working
    BY <2>1 DEF Working
  <2>3. QED
    BY <2>1, <2>2, NoRunTyped DEF RunRules
<1>8. QED
  BY <1>4, <1>5, <1>6, <1>7 DEF Basics

LEMMA NextBasics ==
  ASSUME Basics, Next
  PROVE  Basics'
<1>1. CASE StoreStep \/ \E s \in Sessions : Upload(s)
  BY <1>1, StoreStepBasics
<1>2. CASE \E legacy \in Legacy : List(legacy)
  BY <1>2, ListBasics
<1>3. CASE PullStep
  BY <1>3, FetchWrapsBasics, SkipBasics, ListChunksBasics, ProbeGenerationBasics,
     ResolveKeyBasics, CompareBasics, FetchBasics, FinishBasics, SaveBasics DEF PullStep
<1>4. CASE RequestFails \/ EndEarly \/ LoseState
  BY <1>4, RequestFailsBasics, EndsBasics
<1>5. QED
  BY <1>1, <1>2, <1>3, <1>4 DEF Next

LEMMA StutterBasics ==
  ASSUME Basics, UNCHANGED vars
  PROVE  Basics'
BY DEF vars, store, puller, Basics, StoreTypes, PullTypes, SessionRules, Live, RunRules, Working,
       Writing

(* The rules above hold in every state, whatever goes wrong.                 *)
THEOREM BasicsAlways == Spec => []Basics
<1>1. Init => Basics
  BY InitBasics
<1>2. Basics /\ [Next]_vars => Basics'
  BY NextBasics, StutterBasics
<1>3. QED
  BY <1>1, <1>2, PTL DEF Spec

LEMMA BasicsTyped ==
  ASSUME Basics
  PROVE  TypeOK
<1>1. StoreTypeOK
  <2>1. ASSUME NEW s \in Sessions
        PROVE  /\ doc[s] \in [1 .. MaxLength -> Nat] /\ doc[s] \in past[s]
               /\ row[s] \in [status : {"absent", "live", "deleted"}, enc : BOOLEAN, gen : Nat,
                              size : 0 .. MaxLength, updated : 0 .. now]
               /\ \A c \in chunks[s] : c \in Chunk
               /\ start[s] \in {0, 1} /\ wrap[s] \in 0 .. row[s].gen /\ stamp[s] \in 0 .. now
               /\ s \in claimed => stamp[s] # 0
    <3>1. row[s] \in RowInStore /\ SessionRules(s) /\ now \in Nat
      BY DEF Basics, StoreTypes
    <3>2. row[s].updated \in 0 .. now
      BY <3>1 DEF RowInStore, SessionRules
    <3>3. row[s] \in [status : {"absent", "live", "deleted"}, enc : BOOLEAN, gen : Nat,
                      size : 0 .. MaxLength, updated : 0 .. now]
      BY <3>1, <3>2 DEF RowInStore
    <3>4. wrap[s] \in Nat /\ stamp[s] \in Nat /\ row[s].gen \in Nat
      BY <3>1 DEF RowInStore, Basics, StoreTypes
    <3>5. wrap[s] \in 0 .. row[s].gen /\ stamp[s] \in 0 .. now
      BY <3>1, <3>4 DEF SessionRules
    <3>6. \A c \in chunks[s] : c \in Chunk
      BY DEF Basics, StoreTypes, ChunkInStore
    <3>7. QED
      BY <3>1, <3>3, <3>5, <3>6 DEF SessionRules, Basics, StoreTypes, Transcripts
  <2>2. QED
    BY <2>1 DEF StoreTypeOK, Basics, StoreTypes
<1>2. PullTypeOK
  <2>1. \A s \in Sessions : \A i \in DOMAIN mirror[s] : mirror[s][i] \in Nat \X Nat
    BY DEF Basics, PullTypes
  <2>2. saved.cursor \in 0 .. now
    BY DEF Basics, PullTypes, RunRules, StoreTypes
  <2>3. QED
    BY <2>1, <2>2 DEF PullTypeOK, Basics, PullTypes, RunRules, Working, Steps
<1>3. QED
  BY <1>1, <1>2 DEF TypeOK

(* Every variable keeps its type, and a step of a pull that works on a       *)
(* session or a chunk has one to work on.                                    *)
THEOREM TypeCorrect == Spec => []TypeOK
  BY BasicsTyped, BasicsAlways, PTL

-----------------------------------------------------------------------------
(* A pull's steps, in terms of the row it works on                           *)

(* A step within a row goes on with it.                                      *)
SameRow == /\ run'.row = Row /\ run'.rows = run.rows /\ run'.records = run.records
           /\ run'.ok = run.ok /\ run'.failed = run.failed

LEMMA RowStays ==
  ASSUME Basics, Working \/ pc = "session", SameRow
  PROVE  Row' = Row /\ Session' = Session /\ Record' = Record
<1>1. Row \in run.rows
  BY RowIsListed
<1>2. Row # NoRow
  <2>1. Row.session # 0
    BY <1>1, PullConstants DEF Basics, RunRules
  <2>2. QED
    BY <2>1 DEF NoRow
<1>3. Row' = Row
  BY <1>2 DEF Row, SameRow
<1>4. QED
  BY <1>3 DEF Session, Record, SameRow

LEMMA RowIsRun ==
  ASSUME Basics, Working
  PROVE  run.row = Row /\ run \in RunType
<1>1. run.row \in run.rows
  BY DEF Basics, RunRules
<1>2. run.row.session # 0
  BY <1>1, PullConstants DEF Basics, RunRules
<1>3. run.row # NoRow
  BY <1>2 DEF NoRow
<1>4. QED
  BY <1>3 DEF Row, Basics, PullTypes

LEMMA ListChunksIs ==
  ASSUME Basics, ListChunks
  PROVE  /\ pc = "session" /\ UNCHANGED <<store, mirror, saved, troubles>>
         /\ \/ Conclude("failed", Record) /\ UNCHANGED mishaps
            \/ /\ chunks[Session] = {} /\ Conclude("ok", NoRecord)
               /\ mishaps' = mishaps \cup {"emptied"}
            \/ /\ chunks[Session] # {} /\ Live(Session) /\ SameRow
               /\ run'.listed = chunks[Session] /\ run'.todo = {} /\ ~run'.written
               /\ pc' = IF Row.enc THEN "probe" ELSE "compare"
               /\ Record.enc => Row.enc
               /\ UNCHANGED mishaps
<1>1. pc = "session" /\ UNCHANGED <<store, mirror, saved, troubles>> /\ ~Writing /\ ~Working
  BY DEF ListChunks, Writing, Working
<1>2. CASE /\ ~Downgraded /\ Live(Session) /\ chunks[Session] # {}
           /\ run' = [run EXCEPT !.row = Row, !.listed = chunks[Session]]
           /\ pc' = IF Row.enc THEN "probe" ELSE "compare"
           /\ UNCHANGED mishaps
  <2>1. run \in RunType
    BY DEF Basics, PullTypes
  <2>2. /\ run'.row = Row /\ run'.rows = run.rows /\ run'.records = run.records
        /\ run'.ok = run.ok /\ run'.failed = run.failed
        /\ run'.listed = chunks[Session] /\ run'.todo = run.todo /\ run'.written = run.written
    BY <1>2, <2>1 DEF RunType
  <2>3. run.todo = {} /\ ~run.written
    BY <1>1 DEF Basics, RunRules
  <2>4. Record.enc => Row.enc
    BY <1>2 DEF Downgraded
  <2>5. QED
    BY <1>1, <1>2, <2>2, <2>3, <2>4 DEF SameRow
<1>3. \/ Conclude("failed", Record) /\ UNCHANGED mishaps
      \/ /\ chunks[Session] = {} /\ Conclude("ok", NoRecord)
         /\ mishaps' = mishaps \cup {"emptied"}
      \/ /\ ~Downgraded /\ Live(Session) /\ chunks[Session] # {}
         /\ run' = [run EXCEPT !.row = Row, !.listed = chunks[Session]]
         /\ pc' = IF Row.enc THEN "probe" ELSE "compare"
         /\ UNCHANGED mishaps
  BY DEF ListChunks, Suffers, Goto
<1>4. QED
  BY <1>1, <1>2, <1>3

LEMMA ProbeGenerationIs ==
  ASSUME Basics, ProbeGeneration
  PROVE  /\ pc = "probe" /\ pc' = "key" /\ UNCHANGED <<store, mirror, saved, mishaps, troubles>>
         /\ SameRow /\ run'.listed = run.listed /\ run'.todo = run.todo
         /\ run'.written = run.written
<1>1. pc = "probe" /\ Working
  BY DEF ProbeGeneration, Working
<1>2. run.row = Row /\ run \in RunType
  BY <1>1, RowIsRun
<1>3. QED
  BY <1>2 DEF ProbeGeneration, SameRow, RunType, Goto

LEMMA ResolveKeyIs ==
  ASSUME Basics, ResolveKey
  PROVE  /\ pc = "key" /\ UNCHANGED <<store, mirror, saved, mishaps, troubles>>
         /\ \/ Conclude("failed", Record)
            \/ /\ pc' = "compare" /\ SameRow /\ UNCHANGED run
               /\ run.gen # 0 /\ (Record.enc => run.gen >= Record.gen)
<1>1. pc = "key" /\ Working
  BY DEF ResolveKey, Working
<1>2. run.row = Row
  BY <1>1, RowIsRun
<1>3. QED
  BY <1>2 DEF ResolveKey, SameRow, Goto

(* What Compare leaves of the file.                                          *)
Left == IF Len(mirror[Session]) > 0 /\ Stale(mirror[Session], Base) THEN <<>> ELSE mirror[Session]

LEMMA CompareIs ==
  ASSUME Basics, Compare
  PROVE  /\ pc = "compare" /\ UNCHANGED <<store, saved, mishaps, troubles>>
         /\ mirror' = [mirror EXCEPT ![Session] = Left]
         /\ \/ Conclude("failed", Record)
            \/ /\ Contiguous(Base + Len(Left)) /\ PlanOf(Base + Len(Left)) = {}
               /\ Conclude("ok", RecordOf(Left))
            \/ /\ Contiguous(Base + Len(Left)) /\ SameRow
               /\ run'.listed = run.listed /\ run'.gen = run.gen
               /\ run'.todo = PlanOf(Base + Len(Left))
               /\ run'.written = run.written /\ pc' = "fetch"
<1> DEFINE have == Base + Len(Left)
<1>1. pc = "compare" /\ Working
  BY DEF Compare, Working
<1>2. run.row = Row /\ run \in RunType
  BY <1>1, RowIsRun
<1>3. /\ UNCHANGED <<store, saved, mishaps, troubles>>
      /\ mirror' = [mirror EXCEPT ![Session] = Left]
      /\ IF ~Contiguous(have) THEN Conclude("failed", Record)
         ELSE IF PlanOf(have) = {} THEN Conclude("ok", RecordOf(Left))
         ELSE run' = [run EXCEPT !.todo = PlanOf(have)] /\ pc' = "fetch"
  BY DEF Compare, Left, Goto
<1> HIDE DEF have
<1>4. ASSUME run' = [run EXCEPT !.todo = PlanOf(have)]
      PROVE  /\ SameRow /\ run'.listed = run.listed /\ run'.gen = run.gen
             /\ run'.todo = PlanOf(have) /\ run'.written = run.written
  <2>1. /\ run'.row = run.row /\ run'.rows = run.rows /\ run'.records = run.records
        /\ run'.ok = run.ok /\ run'.failed = run.failed
    BY <1>2, <1>4 DEF RunType
  <2>2. /\ run'.listed = run.listed /\ run'.gen = run.gen
        /\ run'.todo = PlanOf(have) /\ run'.written = run.written
    BY <1>2, <1>4 DEF RunType
  <2>3. QED
    BY <1>2, <2>1, <2>2 DEF SameRow
<1>5. QED
  BY <1>1, <1>3, <1>4 DEF have

LEMMA FetchDoes ==
  ASSUME Basics, Fetch
  PROVE  /\ pc = "fetch" /\ UNCHANGED <<store, saved, mishaps, troubles>>
         /\ SameRow /\ run'.listed = run.listed /\ run'.gen = run.gen
         /\ \/ /\ Good /\ mirror' = [mirror EXCEPT ![Session] = @ \o Next1.data]
               /\ run'.todo = run.todo \ {Next1} /\ run'.written
               /\ pc' = IF run.todo = {Next1} THEN "finish" ELSE "fetch"
               /\ run'.broken = run.broken
            \/ /\ UNCHANGED mirror /\ run'.todo = run.todo /\ run'.written = run.written
               /\ run'.broken /\ pc' = "finish"
<1>1. pc = "fetch" /\ Working
  BY FetchIs DEF Working
<1>2. run.row = Row /\ run \in RunType
  BY <1>1, RowIsRun
<1>3. CASE Good
  <2>1. run' = [run EXCEPT !.todo = @ \ {Next1}, !.written = TRUE]
    BY <1>3, FetchIs
  <2>2. /\ run'.row = run.row /\ run'.rows = run.rows /\ run'.records = run.records
        /\ run'.ok = run.ok /\ run'.failed = run.failed
        /\ run'.listed = run.listed /\ run'.gen = run.gen
        /\ run'.todo = run.todo \ {Next1} /\ run'.written = TRUE /\ run'.broken = run.broken
    BY <1>2, <2>1 DEF RunType
  <2>3. QED
    BY <1>2, <1>3, <2>2, FetchIs DEF SameRow
<1>4. CASE ~Good
  <2>1. run' = [run EXCEPT !.broken = TRUE]
    BY <1>4, FetchIs
  <2>2. /\ run'.row = run.row /\ run'.rows = run.rows /\ run'.records = run.records
        /\ run'.ok = run.ok /\ run'.failed = run.failed
        /\ run'.listed = run.listed /\ run'.gen = run.gen
        /\ run'.todo = run.todo /\ run'.written = run.written /\ run'.broken = TRUE
    BY <1>2, <2>1 DEF RunType
  <2>3. QED
    BY <1>2, <1>4, <2>2, FetchIs DEF SameRow
<1>5. QED
  BY <1>3, <1>4

LEMMA FinishIs ==
  ASSUME Basics, Finish
  PROVE  /\ pc = "finish" /\ UNCHANGED <<store, mirror, saved, troubles>>
         /\ \/ /\ Conclude("failed", Record)
               /\ ~run.written \/ "alarmed" \in mishaps'
               /\ mishaps \subseteq mishaps' /\ mishaps' \subseteq mishaps \cup {"alarmed"}
            \/ /\ run.written /\ UNCHANGED mishaps
               /\ Conclude(IF run.broken THEN "failed" ELSE "ok", RecordOf(mirror[Session]))
BY DEF Finish, Suffers

LEMMA RequestFailsIs ==
  ASSUME Basics, RequestFails
  PROVE  /\ UNCHANGED <<store, mirror, saved, mishaps>>
         /\ \/ pc \in {"session", "probe", "key"} /\ Conclude("failed", Record)
            \/ /\ pc = "fetch" /\ pc' = "finish" /\ SameRow /\ run'.listed = run.listed
               /\ run'.gen = run.gen /\ run'.todo = run.todo /\ run'.written = run.written
               /\ run'.broken
<1>1. CASE pc = "fetch" /\ run' = [run EXCEPT !.broken = TRUE] /\ pc' = "finish"
  <2>1. Working
    BY <1>1 DEF Working
  <2>2. run.row = Row /\ run \in RunType
    BY <2>1, RowIsRun
  <2>3. /\ run'.row = run.row /\ run'.rows = run.rows /\ run'.records = run.records
        /\ run'.ok = run.ok /\ run'.failed = run.failed
        /\ run'.listed = run.listed /\ run'.gen = run.gen
        /\ run'.todo = run.todo /\ run'.written = run.written /\ run'.broken = TRUE
    BY <1>1, <2>2 DEF RunType
  <2>4. QED
    BY <1>1, <2>2, <2>3 DEF SameRow, RequestFails
<1>2. QED
  BY <1>1 DEF RequestFails, Goto

-----------------------------------------------------------------------------
(* The pin                                                                   *)

(* A pull carries the pins it loaded, and the key it works with is no older. *)
PinCarried(s) ==
    (mishaps \cap {"emptied", "lost"} = {} /\ pc # "idle" /\ saved.records[s].enc) =>
      run.records[s].enc /\ run.records[s].gen >= saved.records[s].gen

KeyIsNoOlder ==
    /\ Working => (Record.enc => Row.enc)
    /\ pc \in {"probe", "key"} => Row.enc
    /\ pc \in {"compare", "fetch", "finish"} =>
         (Record.enc => run.gen >= Record.gen) /\ (Row.enc => run.gen # 0)

PinRules == KeyIsNoOlder /\ \A s \in Sessions : PinCarried(s)

(* A record that forgets nothing may take the place of one.                  *)
LEMMA ConcludePin ==
  ASSUME Basics, PinRules, Working \/ pc = "session", saved' = saved, mishaps \subseteq mishaps',
         NEW outcome, NEW record \in RecordType, Conclude(outcome, record),
         \/ "emptied" \in mishaps'
         \/ Record.enc => record.enc /\ record.gen >= Record.gen
  PROVE  PinRules'
<1>1. /\ run'.records = [run.records EXCEPT ![Session] = record]
      /\ pc' \in {"save", "session"} /\ run.records \in [Sessions -> RecordType]
      /\ Session \in Sessions /\ pc # "idle"
  BY Concluded, RowIsListed DEF Basics, PullTypes, RunType, Working
<1>2. KeyIsNoOlder'
  BY <1>1 DEF KeyIsNoOlder, Working
<1>3. ASSUME NEW s \in Sessions
      PROVE  PinCarried(s)'
  <2>1. SUFFICES ASSUME mishaps' \cap {"emptied", "lost"} = {}, saved.records[s].enc
                 PROVE  run'.records[s].enc /\ run'.records[s].gen >= saved.records[s].gen
    BY DEF PinCarried
  <2>2. mishaps \cap {"emptied", "lost"} = {} /\ "emptied" \notin mishaps'
    BY <2>1
  <2>3. run.records[s].enc /\ run.records[s].gen >= saved.records[s].gen
    BY <1>1, <2>1, <2>2 DEF PinRules, PinCarried
  <2>4. CASE s = Session
    <3>1. run'.records[s] = record /\ record.enc /\ record.gen >= run.records[s].gen
      BY <1>1, <2>2, <2>3, <2>4 DEF Record
    <3>2. record.gen \in Nat /\ run.records[s].gen \in Nat /\ saved.records[s].gen \in Nat
      BY <1>1 DEF RecordType, Basics, PullTypes
    <3>3. QED
      BY <2>3, <3>1, <3>2
  <2>5. CASE s # Session
    BY <1>1, <2>3, <2>5
  <2>6. QED
    BY <2>4, <2>5
<1>4. QED
  BY <1>2, <1>3 DEF PinRules

(* As long as a pull is at the same row it has the same pins.                *)
LEMMA SameRowPin ==
  ASSUME Basics, PinRules, Working \/ pc = "session", pc' # "idle", saved' = saved,
         mishaps' = mishaps, SameRow
  PROVE  \A s \in Sessions : PinCarried(s)'
<1>1. pc # "idle" /\ run'.records = run.records
  BY DEF Working, SameRow
<1>2. QED
  BY <1>1 DEF PinRules, PinCarried

LEMMA PullStepPin ==
  ASSUME Basics, PinRules, PullStep \/ RequestFails
  PROVE  PinRules'
<1>1. CASE FetchWraps
  <2>1. /\ pc = "wraps" /\ pc' \in {"save", "session"} /\ UNCHANGED <<saved, mishaps>>
        /\ run' = [run EXCEPT !.held = {s \in Sessions : Live(s) /\ wrap[s] # 0}]
    BY <1>1 DEF FetchWraps, FetchWrapsThen, Goto
  <2>2. run'.records = run.records
    BY <2>1 DEF Basics, PullTypes, RunType
  <2>3. KeyIsNoOlder'
    BY <2>1 DEF KeyIsNoOlder, Working
  <2>4. QED
    BY <2>1, <2>2, <2>3 DEF PinRules, PinCarried
<1>2. CASE Skip
  <2>1. pc = "session" /\ Conclude("skipped", Record) /\ saved' = saved /\ mishaps \subseteq mishaps'
    BY <1>2 DEF Skip, Suffers
  <2>2. Record \in RecordType /\ Record.gen >= Record.gen
    BY <2>1, RowIsListed DEF RecordType
  <2>3. QED
    BY <2>1, <2>2, ConcludePin
<1>3. ASSUME Working \/ pc = "session", Conclude("failed", Record), saved' = saved,
             mishaps \subseteq mishaps'
      PROVE  PinRules'
  <2>1. Record \in RecordType /\ Record.gen >= Record.gen
    BY <1>3, RowIsListed DEF RecordType
  <2>2. QED
    BY <1>3, <2>1, ConcludePin
<1>4. ASSUME Working, pc \in {"compare", "finish"}, NEW outcome, NEW file,
             Conclude(outcome, RecordOf(file)), saved' = saved, mishaps' = mishaps
      PROVE  PinRules'
  <2>1. RecordOf(file) \in RecordType
    BY <1>4, RecordTyped
  <2>2. RecordOf(file).enc = Row.enc /\ RecordOf(file).gen = run.gen
    BY DEF RecordOf, SessionRecord
  <2>3. Record.enc => RecordOf(file).enc /\ RecordOf(file).gen >= Record.gen
    BY <1>4, <2>2 DEF PinRules, KeyIsNoOlder
  <2>4. QED
    BY <1>4, <2>1, <2>3, ConcludePin
<1>5. CASE ListChunks
  <2>1. pc = "session" /\ saved' = saved
    BY <1>5, ListChunksIs
  <2>2. CASE Conclude("failed", Record) /\ UNCHANGED mishaps
    BY <1>3, <2>1, <2>2
  <2>3. CASE Conclude("ok", NoRecord) /\ mishaps' = mishaps \cup {"emptied"}
    <3>1. NoRecord \in RecordType
      BY DEF NoRecord, RecordType
    <3>2. QED
      BY <2>1, <2>3, <3>1, ConcludePin
  <2>4. CASE /\ SameRow /\ pc' = (IF Row.enc THEN "probe" ELSE "compare")
             /\ Record.enc => Row.enc
             /\ UNCHANGED mishaps
    <3>1. Row' = Row /\ Record' = Record
      BY <2>1, <2>4, RowStays
    <3>2. KeyIsNoOlder'
      BY <2>4, <3>1 DEF KeyIsNoOlder, Working
    <3>3. pc' # "idle"
      BY <2>4
    <3>4. QED
      BY <2>1, <2>4, <3>2, <3>3, SameRowPin DEF PinRules
  <2>5. QED
    BY <1>5, <2>2, <2>3, <2>4, ListChunksIs
<1>6. CASE ProbeGeneration
  <2>1. pc = "probe" /\ pc' = "key" /\ saved' = saved /\ mishaps' = mishaps /\ SameRow /\ Working
    BY <1>6, ProbeGenerationIs DEF Working
  <2>2. Row' = Row /\ Record' = Record
    BY <2>1, RowStays
  <2>3. KeyIsNoOlder'
    BY <2>1, <2>2 DEF PinRules, KeyIsNoOlder, Working
  <2>4. QED
    BY <2>1, <2>3, SameRowPin DEF PinRules
<1>7. CASE ResolveKey
  <2>1. pc = "key" /\ saved' = saved /\ mishaps' = mishaps /\ Working
    BY <1>7, ResolveKeyIs DEF Working
  <2>2. CASE Conclude("failed", Record)
    BY <1>3, <2>1, <2>2
  <2>3. CASE /\ pc' = "compare" /\ SameRow /\ UNCHANGED run
             /\ run.gen # 0 /\ (Record.enc => run.gen >= Record.gen)
    <3>1. Row' = Row /\ Record' = Record
      BY <2>1, <2>3, RowStays
    <3>2. KeyIsNoOlder'
      BY <2>1, <2>3, <3>1 DEF PinRules, KeyIsNoOlder, Working
    <3>3. pc' # "idle"
      BY <2>3
    <3>4. QED
      BY <2>1, <2>3, <3>2, <3>3, SameRowPin DEF PinRules
  <2>4. QED
    BY <1>7, <2>2, <2>3, ResolveKeyIs
<1>8. ASSUME pc \in {"compare", "fetch"}, pc' \in {"fetch", "finish"}, SameRow,
             run'.gen = run.gen, saved' = saved, mishaps' = mishaps
      PROVE  PinRules'
  <2>1. Working /\ Working' /\ pc' # "idle"
    BY <1>8 DEF Working
  <2>2. Row' = Row /\ Record' = Record
    BY <1>8, <2>1, RowStays
  <2>3. KeyIsNoOlder'
    BY <1>8, <2>1, <2>2 DEF PinRules, KeyIsNoOlder
  <2>4. QED
    BY <1>8, <2>1, <2>3, SameRowPin DEF PinRules
<1>9. CASE Compare
  <2>1. pc = "compare" /\ saved' = saved /\ mishaps' = mishaps /\ Working
    BY <1>9, CompareIs DEF Working
  <2>2. QED
    BY <1>3, <1>4, <1>8, <1>9, <2>1, CompareIs
<1>10. CASE Fetch
  BY <1>8, <1>10, FetchDoes
<1>11. CASE Finish
  <2>1. pc = "finish" /\ saved' = saved /\ Working
    BY <1>11, FinishIs DEF Working
  <2>2. QED
    BY <1>3, <1>4, <1>11, <2>1, FinishIs
<1>12. CASE Save
  <2>1. pc' = "idle"
    BY <1>12 DEF Save, Goto
  <2>2. QED
    BY <2>1 DEF PinRules, PinCarried, KeyIsNoOlder, Working
<1>13. CASE RequestFails
  <2>1. saved' = saved /\ mishaps' = mishaps
    BY <1>13, RequestFailsIs
  <2>2. CASE pc \in {"session", "probe", "key"} /\ Conclude("failed", Record)
    BY <1>3, <2>1, <2>2 DEF Working
  <2>3. QED
    BY <1>8, <1>13, <2>1, <2>2, RequestFailsIs
<1>14. QED
  BY <1>1, <1>2, <1>5, <1>6, <1>7, <1>9, <1>10, <1>11, <1>12, <1>13 DEF PullStep

LEMMA NextPin ==
  ASSUME Basics, PinRules, [Next]_vars
  PROVE  PinRules'
<1>1. CASE \/ StoreStep \/ (\E s \in Sessions : Upload(s)) \/ UNCHANGED vars
  <2>1. UNCHANGED puller /\ mishaps \subseteq mishaps'
    BY <1>1 DEF StoreStep, Upload, Suffers, vars
  <2>2. saved' = saved /\ pc' = pc /\ run' = run /\ Row' = Row /\ Record' = Record /\ Working' = Working
    BY <2>1 DEF puller, Row, Session, Record, Working
  <2>3. QED
    BY <2>1, <2>2 DEF PinRules, PinCarried, KeyIsNoOlder
<1>2. ASSUME NEW legacy \in Legacy, List(legacy)
      PROVE  PinRules'
  <2>1. /\ run' = [NoRun EXCEPT !.rows = Listing(saved.cursor), !.legacy = legacy,
                                !.records = saved.records]
        /\ pc' = "wraps" /\ saved' = saved
    BY <1>2 DEF List, Goto
  <2>2. run'.records = saved.records
    BY <2>1, NoRunTyped DEF RunType
  <2>3. \A s \in Sessions : saved.records[s].gen \in Nat
    BY DEF Basics, PullTypes, RecordType
  <2>4. QED
    BY <2>1, <2>2, <2>3 DEF PinRules, PinCarried, KeyIsNoOlder, Working
<1>3. CASE EndEarly \/ LoseState
  <2>1. pc' = "idle"
    BY <1>3 DEF EndEarly, LoseState, Goto
  <2>2. QED
    BY <2>1 DEF PinRules, PinCarried, KeyIsNoOlder, Working
<1>4. QED
  BY <1>1, <1>2, <1>3, PullStepPin DEF Next

LEMMA InitPin ==
  ASSUME Init
  PROVE  PinRules
<1>1. pc = "idle"
  BY DEF Init
<1>2. QED
  BY <1>1 DEF PinRules, PinCarried, KeyIsNoOlder, Working

(* A pin is given up only with what a pull saves.                            *)
LEMMA PinStep ==
  ASSUME Basics, PinRules, [Next]_vars
  PROVE  Unless({"emptied", "lost"}, PinKept) \/ mishaps' # mishaps
<1>1. SUFFICES ASSUME mishaps' = mishaps, mishaps \cap {"emptied", "lost"} = {},
                      NEW s \in Sessions, saved.records[s].enc
               PROVE  saved'.records[s].enc /\ saved'.records[s].gen >= saved.records[s].gen
  BY DEF Unless, PinKept
<1>2. saved.records[s].gen \in Nat
  BY DEF Basics, PullTypes, RecordType
<1>3. CASE Save
  <2>1. pc = "save" /\ saved'.records = run.records
    BY <1>3 DEF Save
  <2>2. QED
    BY <1>1, <2>1 DEF PinRules, PinCarried
<1>4. CASE LoseState
  <2>1. mishaps' = mishaps \cup {"lost"}
    BY <1>4 DEF LoseState, Suffers
  <2>2. QED
    BY <1>1, <2>1
<1>5. CASE saved' = saved
  BY <1>1, <1>2, <1>5
<1>6. CASE PullStep /\ ~Save
  <2>1. saved' = saved
    BY <1>6 DEF PullStep, FetchWraps, FetchWrapsThen, Skip, ListChunks, ProbeGeneration,
       ResolveKey, Compare, Fetch, Finish
  <2>2. QED
    BY <1>5, <2>1
<1>7. CASE ~PullStep /\ ~LoseState
  <2>1. saved' = saved
    BY <1>7 DEF Next, StoreStep, Upload, puller, List, RequestFails, EndEarly, vars
  <2>2. QED
    BY <1>5, <2>1
<1>8. QED
  BY <1>3, <1>4, <1>6, <1>7

(* pull.py, _session_record: what the record says of a session's encryption  *)
(* is never forgotten and its generation never lowered, whatever fails,      *)
(* unless a pull meets the session between its registration and its first    *)
(* chunk or the state file is lost.                                          *)
THEOREM PinAlways == Spec => PinKeptUnlessEmptied
<1>1. Init => PinRules
  BY InitPin
<1>2. Basics /\ PinRules /\ [Next]_vars => PinRules'
  BY NextPin
<1>3. Basics /\ PinRules /\ [Next]_vars =>
        [Unless({"emptied", "lost"}, PinKept) \/ mishaps' # mishaps]_vars
  BY PinStep
<1>4. QED
  BY <1>1, <1>2, <1>3, BasicsAlways, PTL DEF Spec, PinKeptUnlessEmptied

-----------------------------------------------------------------------------
(* What is in the store                                                      *)

Apart(c, d) == c = d \/ c.end <= d.off \/ d.end <= c.off

(* Bytes of a transcript, at the positions the chunk says.                   *)
WellFormed(c) ==
    /\ c \in ChunkInStore /\ c.off < c.end /\ Len(c.data) = c.end - c.off
    /\ \A i \in 1 .. Len(c.data) : c.data[i][2] = c.off + i - 1
OfDocument(c, d) == \A i \in 1 .. Len(c.data) : c.data[i] = <<d[c.off + i], c.off + i - 1>>

(* A session's chunks are ranges of its transcript that do not overlap and   *)
(* begin at the watermark, sealed under its generation; a transcript is      *)
(* written by no document that is yet to come.                               *)
Stored(s) ==
    /\ \A c \in chunks[s] : WellFormed(c) /\ OfDocument(c, doc[s])
    /\ \A c \in chunks[s] : c.gen = row[s].gen /\ start[s] <= c.off
    /\ \A c, d \in chunks[s] : Apart(c, d)
    /\ chunks[s] # {} => Live(s) /\ \E c \in chunks[s] : c.off = start[s]
    /\ \A i \in 1 .. MaxLength : doc[s][i] <= deletes + 1

AllStored == \A s \in Sessions : Stored(s)

LEMMA PutChunkStored ==
  ASSUME Basics, AllStored, NEW s \in Sessions, PutChunk(s)
  PROVE  AllStored'
<1> DEFINE from == Reach(start[s], chunks[s])
           added(to) == [off |-> from, end |-> to, gen |-> row[s].gen, data |-> Bytes(s, from, to)]
<1>1. PICK to \in from + 1 .. MaxLength :
        chunks' = [chunks EXCEPT ![s] = @ \cup {added(to)}]
  BY DEF PutChunk
<1>2. /\ UNCHANGED <<now, doc, start, row, wrap, stamp, past, deletes>> /\ stamp[s] # 0
  BY DEF PutChunk
<1>3. /\ from \in Nat /\ start[s] \in Nat /\ start[s] <= from
      /\ \A c \in chunks[s] : c.end <= from
      /\ chunks[s] = {} => from = start[s]
  <2>1. \A c \in chunks[s] : c.end \in Nat /\ c.end <= MaxLength
    BY EndsInStore DEF Basics
  <2>2. start[s] \in Nat /\ MaxLength \in Nat
    BY PullConstants DEF Basics, StoreTypes
  <2>3. QED
    BY <2>1, <2>2, ReachIs
<1>4. row[s].gen \in Nat /\ doc[s] \in Transcripts
  BY DEF Basics, StoreTypes, RowInStore
<1>5. to \in Nat /\ to <= MaxLength /\ from < to
  BY <1>3, PullConstants
<1> HIDE DEF from
<1>6. /\ Bytes(s, from, to) \in Seq(Nat \X Nat)
      /\ Len(Bytes(s, from, to)) = to - from
      /\ \A i \in 1 .. to - from : Bytes(s, from, to)[i] = <<doc[s][from + i], from + i - 1>>
  BY <1>3, <1>4, BytesTyped
<1> DEFINE c0 == added(to)
<1>7. c0.off = from /\ c0.end = to /\ c0.gen = row[s].gen /\ c0.data = Bytes(s, from, to)
  OBVIOUS
<1>8. c0 \in ChunkInStore
  BY <1>3, <1>4, <1>5, <1>6 DEF Chunk, ChunkInStore
<1> HIDE DEF added, c0
<1>9. WellFormed(c0) /\ OfDocument(c0, doc[s])
  <2>1. \A i \in 1 .. Len(c0.data) : c0.data[i] = <<doc[s][c0.off + i], c0.off + i - 1>>
    BY <1>6, <1>7
  <2>2. \A i \in 1 .. Len(c0.data) : c0.data[i][2] = c0.off + i - 1
    BY <2>1
  <2>3. QED
    BY <1>5, <1>6, <1>7, <1>8, <2>1, <2>2 DEF WellFormed, OfDocument
<1>10. \A t \in Sessions : chunks'[t] = IF t = s THEN chunks[s] \cup {c0} ELSE chunks[t]
  BY <1>1 DEF c0, Basics, StoreTypes
<1>11. ASSUME NEW t \in Sessions
       PROVE  Stored(t)'
  <2>1. Stored(t)
    BY DEF AllStored
  <2>2. CASE t # s
    <3>1. chunks'[t] = chunks[t]
      BY <1>10, <2>2
    <3>2. QED
      BY <1>2, <2>1, <3>1 DEF Stored, Live
  <2>3. CASE t = s
    <3>1. chunks'[s] = chunks[s] \cup {c0}
      BY <1>10
    <3>2. \A c \in chunks'[s] : WellFormed(c) /\ OfDocument(c, doc[s])
      BY <1>9, <2>1, <2>3, <3>1 DEF Stored
    <3>3. \A c \in chunks'[s] : c.gen = row[s].gen /\ start[s] <= c.off
      BY <1>3, <1>7, <2>1, <2>3, <3>1 DEF Stored
    <3>4. \A c, d \in chunks'[s] : Apart(c, d)
      BY <1>3, <1>7, <2>1, <2>3, <3>1 DEF Stored, Apart
    <3>5. Live(s) /\ \E c \in chunks'[s] : c.off = start[s]
      <4>1. Live(s)
        BY <1>2 DEF Basics, SessionRules
      <4>2. \E c \in chunks'[s] : c.off = start[s]
        BY <1>3, <1>7, <2>1, <2>3, <3>1 DEF Stored
      <4>3. QED
        BY <4>1, <4>2
    <3>6. QED
      BY <1>2, <2>1, <2>3, <3>2, <3>3, <3>4, <3>5 DEF Stored, Live
  <2>4. QED
    BY <2>2, <2>3
<1>12. QED
  BY <1>11 DEF AllStored

LEMMA RegisterStored ==
  ASSUME Basics, AllStored, NEW s \in Sessions, NEW scheme \in Schemes, Register(s, scheme)
  PROVE  AllStored'
<1>1. /\ UNCHANGED <<now, doc, start, chunks, wrap, stamp, claimed, past, deletes>>
      /\ \A t \in Sessions : t # s => row'[t] = row[t]
      /\ Live(s) => row'[s].gen = row[s].gen /\ row'[s].status = row[s].status
  BY DEF Register, Basics, StoreTypes, RowInStore
<1>2. ASSUME NEW t \in Sessions
      PROVE  Stored(t)'
  <2>1. Stored(t)
    BY DEF AllStored
  <2>2. CASE Live(t) \/ t # s
    BY <1>1, <2>1, <2>2 DEF Stored, Live
  <2>3. CASE ~Live(t)
    <3>1. chunks[t] = {}
      BY <2>1, <2>3 DEF Stored
    <3>2. QED
      BY <1>1, <2>1, <3>1 DEF Stored
  <2>4. QED
    BY <2>2, <2>3
<1>3. QED
  BY <1>2 DEF AllStored

(* The bytes of a rewritten transcript are old ones or newer than any.       *)
Rewritten(s, kept) ==
    [i \in 1 .. MaxLength |-> IF i <= kept THEN doc[s][i] ELSE deletes + 2]

LEMMA DeletedIs ==
  ASSUME Basics, NEW s \in Sessions, NEW kept \in 0 .. MaxLength, NEW from \in {0, 1},
         DeleteSession(s, kept, from)
  PROVE  /\ \A t \in Sessions :
              /\ chunks'[t] = IF t = s THEN {} ELSE chunks[t]
              /\ doc'[t] = IF t = s THEN Rewritten(s, kept) ELSE doc[t]
              /\ past[t] \subseteq past'[t] /\ doc'[t] \in past'[t]
              /\ start'[t] = IF t = s THEN from ELSE start[t]
              /\ row'[t].gen = row[t].gen
              /\ t # s => row'[t] = row[t]
         /\ row'[s].status = "deleted"
         /\ deletes' = deletes + 1 /\ stamp' = stamp /\ claimed' = claimed
         /\ \A i \in 1 .. MaxLength : Rewritten(s, kept)[i] = IF i <= kept THEN doc[s][i]
                                                              ELSE deletes + 2
<1>1. /\ row' = [row EXCEPT ![s].status = "deleted", ![s].size = 0, ![s].updated = now]
      /\ chunks' = [chunks EXCEPT ![s] = {}]
      /\ doc' = [doc EXCEPT ![s] = Rewritten(s, kept)]
      /\ past' = [past EXCEPT ![s] = @ \cup {Rewritten(s, kept)}]
      /\ start' = [start EXCEPT ![s] = from]
      /\ deletes' = deletes + 1 /\ UNCHANGED <<now, stamp, claimed>>
  BY DEF DeleteSession, Rewritten
<1>2. \A t \in Sessions : doc[t] \in past[t]
  BY DEF Basics, SessionRules
<1>3. row \in [Sessions -> RowInStore]
  BY DEF Basics, StoreTypes
<1>4. \A t \in Sessions : row'[t].gen = row[t].gen /\ (t # s => row'[t] = row[t])
  BY <1>1, <1>3 DEF RowInStore
<1>5. row'[s].status = "deleted"
  BY <1>1, <1>3 DEF RowInStore
<1>6. \A i \in 1 .. MaxLength : Rewritten(s, kept)[i] = IF i <= kept THEN doc[s][i]
                                                        ELSE deletes + 2
  BY DEF Rewritten
<1>7. \A t \in Sessions :
              /\ chunks'[t] = IF t = s THEN {} ELSE chunks[t]
              /\ doc'[t] = IF t = s THEN Rewritten(s, kept) ELSE doc[t]
              /\ past[t] \subseteq past'[t] /\ doc'[t] \in past'[t]
              /\ start'[t] = IF t = s THEN from ELSE start[t]
  BY <1>1, <1>2 DEF Basics, StoreTypes
<1>8. QED
  BY <1>1, <1>4, <1>5, <1>6, <1>7

LEMMA DeleteSessionStored ==
  ASSUME Basics, AllStored, NEW s \in Sessions, NEW kept \in 0 .. MaxLength, NEW from \in {0, 1},
         DeleteSession(s, kept, from)
  PROVE  AllStored'
<1>1. deletes \in Nat /\ deletes' = deletes + 1
  BY DeletedIs DEF Basics, StoreTypes
<1>2. \A n \in Nat : n <= deletes + 1 => n <= deletes' + 1
  BY <1>1
<1>3. ASSUME NEW t \in Sessions
      PROVE  Stored(t)'
  <2>1. Stored(t) /\ \A i \in 1 .. MaxLength : doc[t][i] \in Nat
    BY DEF AllStored, Basics, StoreTypes, Transcripts
  <2>2. CASE t # s
    <3>1. chunks'[t] = chunks[t] /\ doc'[t] = doc[t] /\ start'[t] = start[t] /\ row'[t] = row[t]
      BY <2>2, DeletedIs
    <3>2. QED
      BY <1>2, <2>1, <3>1 DEF Stored, Live
  <2>3. CASE t = s
    <3>1. chunks'[s] = {} /\ doc'[s] = Rewritten(s, kept)
      BY DeletedIs
    <3>2. \A i \in 1 .. MaxLength : doc'[s][i] <= deletes' + 1
      <4>1. deletes + 2 <= deletes' + 1
        BY <1>1
      <4>2. \A i \in 1 .. MaxLength : doc'[s][i] = doc[s][i] \/ doc'[s][i] = deletes + 2
        BY <3>1, DeletedIs
      <4>3. QED
        BY <1>2, <2>1, <2>3, <4>1, <4>2 DEF Stored
    <3>3. QED
      BY <2>3, <3>1, <3>2 DEF Stored
  <2>4. QED
    BY <2>2, <2>3
<1>4. QED
  BY <1>3 DEF AllStored

LEMMA TouchedIs ==
  ASSUME Basics, NEW s \in Sessions, TouchSession(s)
  PROVE  /\ \A t \in Sessions : /\ row'[t].gen = row[t].gen /\ row'[t].status = row[t].status
                                /\ row'[t].enc = row[t].enc /\ (t # s => row'[t] = row[t])
         /\ row'[s].updated = stamp[s]
         /\ UNCHANGED <<now, doc, start, chunks, wrap, past, deletes>>
         /\ claimed' = claimed \ {s}
<1>1. row' = [row EXCEPT ![s].size = Reach(@, chunks[s]), ![s].updated = stamp[s]]
  BY DEF TouchSession
<1>2. row \in [Sessions -> RowInStore]
  BY DEF Basics, StoreTypes
<1>3. \A t \in Sessions : /\ row'[t].gen = row[t].gen /\ row'[t].status = row[t].status
                          /\ row'[t].enc = row[t].enc /\ (t # s => row'[t] = row[t])
  BY <1>1, <1>2 DEF RowInStore
<1>4. row'[s].updated = stamp[s]
  BY <1>1, <1>2 DEF RowInStore
<1>5. QED
  BY <1>3, <1>4 DEF TouchSession

LEMMA NextStored ==
  ASSUME Basics, AllStored, [Next]_vars
  PROVE  AllStored'
<1>1. CASE UNCHANGED <<doc, start, row, chunks, deletes>>
  BY <1>1 DEF AllStored, Stored, Live
<1>2. CASE Tick \/ \E s \in Sessions : PutWraps(s) \/ ReadTime(s)
  <2>1. UNCHANGED <<doc, start, row, chunks, deletes>>
    BY <1>2 DEF Tick, PutWraps, ReadTime
  <2>2. QED
    BY <1>1, <2>1
<1>3. CASE StoreStep
  BY <1>2, <1>3, RegisterStored, DeleteSessionStored DEF StoreStep
<1>4. ASSUME NEW s \in Sessions, TouchSession(s)
      PROVE  AllStored'
  <2>1. ASSUME NEW t \in Sessions
        PROVE  Stored(t)'
    <3>1. Stored(t) /\ row'[t].gen = row[t].gen /\ row'[t].status = row[t].status
      BY <1>4, TouchedIs DEF AllStored
    <3>2. UNCHANGED <<doc, start, chunks, deletes>>
      BY <1>4 DEF TouchSession
    <3>3. QED
      BY <3>1, <3>2 DEF Stored, Live
  <2>2. QED
    BY <2>1 DEF AllStored
<1>5. CASE \E s \in Sessions : Upload(s)
  BY <1>4, <1>5, PutChunkStored DEF Upload
<1>6. CASE ~StoreStep /\ ~\E s \in Sessions : Upload(s)
  <2>1. UNCHANGED store
    BY <1>6 DEF Next, vars, List, PullStep, FetchWraps, FetchWrapsThen, Skip, ListChunks,
       ProbeGeneration, ResolveKey, Compare, Fetch, Finish, Save, RequestFails, EndEarly,
       LoseState
  <2>2. QED
    BY <1>1, <2>1 DEF store
<1>7. QED
  BY <1>3, <1>5, <1>6

LEMMA InitStored ==
  ASSUME Init
  PROVE  AllStored
<1>1. ASSUME NEW s \in Sessions
      PROVE  Stored(s)
  <2>1. chunks[s] = {} /\ deletes = 0 /\ \A i \in 1 .. MaxLength : doc[s][i] = 1
    BY DEF Init
  <2>2. QED
    BY <2>1 DEF Stored
<1>2. QED
  BY <1>1 DEF AllStored

-----------------------------------------------------------------------------
(* Bytes, and what tiles a range                                             *)

Content(some) == UNION {{c.data[i] : i \in 1 .. Len(c.data)} : c \in some}
File(f) == {f[i] : i \in 1 .. Len(f)}
Transcript(d) == {<<d[i], i - 1>> : i \in 1 .. MaxLength}

(* The bytes of X are of no newer document than those of Y where they meet.  *)
NoNewer(X, Y) == \A x \in X, y \in Y : x[2] = y[2] => x[1] <= y[1]

(* A file of consecutive bytes of a transcript.                              *)
FileOf(f, base, d) ==
    /\ base + Len(f) <= MaxLength
    /\ \A i \in 1 .. Len(f) : f[i] = <<d[base + i], base + i - 1>>

(* Chunks that tile a range: each byte is in one and none reaches over.      *)
Covered(some, base, end) ==
    /\ \A p \in base .. end - 1 : \E c \in some : c.off <= p /\ p < c.end
    /\ \A c \in some : c.end <= end \/ end <= c.off

LEMMA ContentIs ==
  ASSUME NEW some
  PROVE  \A b : b \in Content(some) <=> \E c \in some : \E i \in 1 .. Len(c.data) : b = c.data[i]
BY DEF Content

LEMMA NoNewerParts ==
  ASSUME NEW X, NEW Y, NEW V \in SUBSET X, NEW W \in SUBSET Y, NoNewer(X, Y)
  PROVE  NoNewer(V, W)
BY DEF NoNewer

LEMMA NoNewerJoined ==
  ASSUME NEW X, NEW Y, NEW Z, NoNewer(X, Z), NoNewer(Y, Z)
  PROVE  NoNewer(X \cup Y, Z)
BY DEF NoNewer

LEMMA NoNewerThanJoined ==
  ASSUME NEW X, NEW Y, NEW Z, NoNewer(Z, X), NoNewer(Z, Y)
  PROVE  NoNewer(Z, X \cup Y)
BY DEF NoNewer

LEMMA ContentGrows ==
  ASSUME NEW X, NEW Y, X \subseteq Y
  PROVE  Content(X) \subseteq Content(Y)
BY DEF Content

LEMMA WellFormedIs ==
  ASSUME NEW c, WellFormed(c)
  PROVE  /\ c.off \in Nat /\ c.end \in Nat /\ c.gen \in Nat /\ c.off < c.end /\ c.end <= MaxLength
         /\ c.data \in Seq(Nat \X Nat) /\ Len(c.data) = c.end - c.off
         /\ MaxLength \in Nat
BY PullConstants DEF WellFormed, ChunkInStore, Chunk

LEMMA ContentOfDocument ==
  ASSUME NEW some, NEW d, \A c \in some : WellFormed(c) /\ OfDocument(c, d)
  PROVE  Content(some) \subseteq Transcript(d)
<1>1. ASSUME NEW b \in Content(some)
      PROVE  b \in Transcript(d)
  <2>1. PICK c \in some : \E i \in 1 .. Len(c.data) : b = c.data[i]
    BY ContentIs
  <2>2. PICK i \in 1 .. Len(c.data) : b = c.data[i]
    BY <2>1
  <2>3. /\ c.off \in Nat /\ c.end \in Nat /\ c.end <= MaxLength
        /\ Len(c.data) = c.end - c.off /\ MaxLength \in Nat
    BY WellFormedIs
  <2>4. c.off + i \in 1 .. MaxLength /\ c.off + i - 1 = (c.off + i) - 1
    BY <2>3
  <2>5. b = <<d[c.off + i], c.off + i - 1>>
    BY <2>2 DEF OfDocument
  <2>6. QED
    BY <2>4, <2>5 DEF Transcript
<1>2. QED
  BY <1>1

LEMMA FileOfDocument ==
  ASSUME NEW f \in Seq(Nat \X Nat), NEW base \in Nat, NEW d, FileOf(f, base, d)
  PROVE  File(f) \subseteq Transcript(d)
<1>1. ASSUME NEW i \in 1 .. Len(f)
      PROVE  f[i] \in Transcript(d)
  <2>1. MaxLength \in Nat /\ Len(f) \in Nat /\ base + Len(f) <= MaxLength
    BY PullConstants DEF FileOf
  <2>2. base + i \in 1 .. MaxLength
    BY <2>1
  <2>3. f[i] = <<d[base + i], base + i - 1>>
    BY DEF FileOf
  <2>4. QED
    BY <2>2, <2>3 DEF Transcript
<1>2. QED
  BY <1>1 DEF File

(* Bytes of one transcript are the same where they meet.                     *)
LEMMA SameDocument ==
  ASSUME NEW d \in Transcripts, NEW X \in SUBSET Transcript(d), NEW Y \in SUBSET Transcript(d)
  PROVE  NoNewer(X, Y)
<1>1. SUFFICES ASSUME NEW x \in X, NEW y \in Y, x[2] = y[2]
               PROVE  x[1] <= y[1]
  BY DEF NoNewer
<1>2. PICK i \in 1 .. MaxLength : x = <<d[i], i - 1>>
  BY DEF Transcript
<1>3. PICK j \in 1 .. MaxLength : y = <<d[j], j - 1>>
  BY DEF Transcript
<1>4. i - 1 = j - 1
  BY <1>1, <1>2, <1>3
<1>5. i = j
  BY <1>4
<1>6. d[i] \in Nat
  BY DEF Transcripts
<1>7. QED
  BY <1>2, <1>3, <1>5, <1>6

LEMMA WithinDocument ==
  ASSUME NEW d \in Transcripts, NEW X, NEW Y \in SUBSET Transcript(d), NoNewer(X, Transcript(d))
  PROVE  NoNewer(X, Y)
BY DEF NoNewer

-----------------------------------------------------------------------------
LEMMA ReachOf ==
  ASSUME NEW some, \A c \in some : WellFormed(c), NEW n \in Nat
  PROVE  /\ Reach(n, some) \in Nat /\ n <= Reach(n, some)
         /\ \A c \in some : c.end <= Reach(n, some)
         /\ Reach(n, some) = n \/ \E c \in some : Reach(n, some) = c.end
<1>1. \A c \in some : c.end \in Nat /\ c.end <= MaxLength
  BY WellFormedIs
<1>2. MaxLength \in Nat
  BY PullConstants
<1>3. QED
  BY <1>1, <1>2, ReachIs

(* _prefix_for finds nothing, or chunks that cover the range and no more.    *)
LEMMA PrefixCovers ==
  ASSUME NEW L, \A c \in L : WellFormed(c), NEW base \in Nat, NEW end \in Nat,
         NEW prefix, prefix = PrefixFor(L, base, end), prefix # {}
  PROVE  /\ prefix \subseteq L
         /\ \A c \in prefix : base <= c.off /\ c.end <= end
         /\ \A p \in base .. end - 1 : \E c \in prefix : c.off <= p /\ p < c.end
<1> DEFINE reached(c) == Reach(base, {d \in L : d.off < c.off})
           Tile == {c \in L : c.off < end /\ reached(c) < end}
<1>1. prefix = Tile /\ (\A c \in Tile : c.off = reached(c)) /\ Reach(base, Tile) = end
  BY DEF PrefixFor
<1>2. \A c \in L : /\ reached(c) \in Nat /\ base <= reached(c)
                   /\ \A d \in L : d.off < c.off => d.end <= reached(c)
                   /\ reached(c) = base \/ \E d \in L : d.off < c.off /\ reached(c) = d.end
  <2>1. ASSUME NEW c \in L
        PROVE  /\ reached(c) \in Nat /\ base <= reached(c)
               /\ \A d \in L : d.off < c.off => d.end <= reached(c)
               /\ reached(c) = base \/ \E d \in L : d.off < c.off /\ reached(c) = d.end
    <3>1. \A d \in {e \in L : e.off < c.off} : WellFormed(d)
      OBVIOUS
    <3>2. QED
      BY <3>1, ReachOf
  <2>2. QED
    BY <2>1
<1>3. \A c \in Tile : c \in L /\ c.off < end /\ reached(c) < end
  OBVIOUS
<1>4. /\ \A c \in Tile : c.end <= end
      /\ end = base \/ \E c \in Tile : end = c.end
  <2>1. \A c \in Tile : WellFormed(c)
    BY <1>3
  <2> HIDE DEF Tile, reached
  <2>2. QED
    BY <1>1, <2>1, ReachOf
<1>5. \A c \in L : c.off \in Nat /\ c.end \in Nat /\ c.off < c.end
  BY WellFormedIs
<1>6. \A c \in Tile : base <= c.off
  BY <1>1, <1>2, <1>3
<1>7. ASSUME NEW c \in Tile, NEW d \in L, d.off < c.off
      PROVE  d \in Tile
  <2>1. d.off < end
    BY <1>3, <1>5, <1>7
  <2>2. d.end <= reached(c)
    BY <1>2, <1>3, <1>7
  <2>3. reached(d) <= reached(c)
    <3>1. CASE reached(d) = base
      BY <1>2, <1>3, <3>1
    <3>2. ASSUME NEW e \in L, e.off < d.off, reached(d) = e.end
          PROVE  reached(d) <= reached(c)
      <4>1. e.off < c.off
        BY <1>3, <1>5, <1>7, <3>2
      <4>2. QED
        BY <1>2, <1>3, <3>2, <4>1
    <3>3. QED
      BY <1>2, <3>1, <3>2
  <2>4. reached(c) < end /\ reached(c) \in Nat /\ reached(d) \in Nat
    BY <1>2, <1>3, <1>7
  <2>5. reached(d) < end
    BY <2>3, <2>4
  <2>6. QED
    BY <2>1, <2>5
<1> HIDE DEF Tile, reached
<1>8. ASSUME NEW p \in base .. end - 1
      PROVE  \E c \in Tile : c.off <= p /\ p < c.end
  <2> DEFINE Beyond == {c \in Tile : p < c.end}
  <2>1. Beyond # {}
    <3>1. end # base /\ p < end
      OBVIOUS
    <3>2. QED
      BY <1>4, <3>1
  <2>2. \A c \in Beyond : c.off \in Nat
    BY <1>3, <1>5
  <2> HIDE DEF Beyond
  <2>3. PICK c \in Beyond : \A d \in Beyond : c.off <= d.off
    BY <2>1, <2>2, FirstChunk
  <2>4. c \in Tile /\ p < c.end
    BY <2>3 DEF Beyond
  <2>5. SUFFICES ASSUME p < c.off
                 PROVE  FALSE
    BY <1>3, <1>5, <2>4
  <2>6. c.off = reached(c) /\ c.off # base
    BY <1>1, <2>4, <2>5
  <2>7. PICK d \in L : d.off < c.off /\ c.off = d.end
    BY <1>2, <1>3, <2>4, <2>6
  <2>8. d \in Beyond
    BY <1>7, <2>4, <2>5, <2>7 DEF Beyond
  <2>9. c.off <= d.off
    BY <2>3, <2>8
  <2>10. QED
    BY <1>3, <1>5, <2>4, <2>7, <2>9
<1>9. QED
  BY <1>1, <1>3, <1>4, <1>6, <1>8

(* And chunks that tile a range are found.                                   *)
LEMMA PrefixFound ==
  ASSUME NEW L, \A c \in L : WellFormed(c), \A c, d \in L : Apart(c, d),
         NEW base \in Nat, NEW end \in Nat, base < end,
         \A c \in L : base <= c.off, Covered(L, base, end)
  PROVE  /\ PrefixFor(L, base, end) = {c \in L : c.end <= end}
         /\ PrefixFor(L, base, end) # {}
<1> DEFINE reached(c) == Reach(base, {d \in L : d.off < c.off})
           Tile == {c \in L : c.off < end /\ reached(c) < end}
           Within == {c \in L : c.end <= end}
<1>1. \A c \in L : c.off \in Nat /\ c.end \in Nat /\ c.off < c.end /\ base <= c.off
  BY WellFormedIs
<1>2. ASSUME NEW c \in Within
      PROVE  reached(c) = c.off
  <2>1. /\ reached(c) \in Nat /\ base <= reached(c)
        /\ \A d \in L : d.off < c.off => d.end <= reached(c)
        /\ reached(c) = base \/ \E d \in L : d.off < c.off /\ reached(c) = d.end
    <3>1. \A d \in {e \in L : e.off < c.off} : WellFormed(d)
      OBVIOUS
    <3>2. QED
      BY <3>1, ReachOf
  <2> HIDE DEF reached
  <2>2. \A d \in L : d.off < c.off => d.end <= c.off
    BY <1>1 DEF Apart
  <2>3. reached(c) <= c.off
    BY <1>1, <2>1, <2>2
  <2>4. SUFFICES ASSUME reached(c) < c.off
                 PROVE  FALSE
    BY <1>1, <2>1, <2>3
  <2>5. c.off - 1 \in base .. end - 1
    BY <1>1, <2>1, <2>4
  <2>6. PICK d \in L : d.off <= c.off - 1 /\ c.off - 1 < d.end
    BY <2>5 DEF Covered
  <2>7. d.off < c.off
    BY <1>1, <2>6
  <2>8. d.end <= reached(c)
    BY <2>1, <2>7
  <2>9. QED
    BY <1>1, <2>1, <2>4, <2>6, <2>8
<1>3. Tile = Within
  <2>1. ASSUME NEW c \in Tile
        PROVE  c \in Within
    BY <1>1 DEF Covered
  <2>2. ASSUME NEW c \in Within
        PROVE  c \in Tile
    <3>1. c.off < end
      BY <1>1
    <3>2. QED
      BY <1>2, <3>1
  <2>3. QED
    BY <2>1, <2>2
<1>4. Reach(base, Within) = end
  <2>1. end - 1 \in base .. end - 1
    OBVIOUS
  <2>2. PICK c \in L : c.off <= end - 1 /\ end - 1 < c.end
    BY <2>1 DEF Covered
  <2>3. c.end = end
    BY <1>1, <2>2 DEF Covered
  <2>4. c \in Within
    BY <2>3
  <2>5. /\ \A d \in Within : d.end \in Nat /\ d.end <= end
    BY <1>1
  <2> HIDE DEF Within
  <2>6. QED
    BY <2>3, <2>4, <2>5, ReachIsUnique
<1>5. PrefixFor(L, base, end) = IF /\ \A c \in Tile : c.off = reached(c)
                                   /\ Reach(base, Tile) = end
                                THEN Tile ELSE {}
  BY DEF PrefixFor
<1>6. Within # {}
  <2>1. SUFFICES ASSUME Within = {}
                 PROVE  FALSE
    OBVIOUS
  <2>2. end - 1 \in base .. end - 1
    OBVIOUS
  <2>3. PICK c \in L : c.off <= end - 1 /\ end - 1 < c.end
    BY <2>2 DEF Covered
  <2>4. c.end <= end
    BY <1>1, <2>3 DEF Covered
  <2>5. QED
    BY <2>1, <2>4
<1>7. PrefixFor(L, base, end) = Tile
  BY <1>2, <1>3, <1>4, <1>5
<1>8. QED
  BY <1>3, <1>6, <1>7

(* _plan: a plan without a hole is what lies beyond the bytes we have.       *)
LEMMA PlanIs ==
  ASSUME \A c \in run.listed : WellFormed(c), \A c, d \in run.listed : Apart(c, d),
         NEW have \in Nat
  PROVE  /\ PlanOf(have) = {c \in run.listed : have < c.end}
         /\ Contiguous(have) => \A c \in PlanOf(have) :
                                  c.off = have \/ \E d \in PlanOf(have) : d.end = c.off
<1> DEFINE L == run.listed
<1>1. \A c \in L : c.off \in Nat /\ c.end \in Nat /\ c.off < c.end
  BY WellFormedIs
<1>2. ASSUME NEW c \in L
      PROVE  /\ Passed(c, have) \in Nat /\ have <= Passed(c, have)
             /\ \A d \in L : d.off < c.off => d.end <= Passed(c, have)
             /\ Passed(c, have) = have \/ \E d \in L : d.off < c.off /\ Passed(c, have) = d.end
  <2>1. \A d \in {e \in L : e.off < c.off} : WellFormed(d)
    OBVIOUS
  <2>2. QED
    BY <2>1, ReachOf DEF Passed
<1>3. ASSUME NEW c \in L
      PROVE  c.end > Passed(c, have) <=> have < c.end
  <2>1. \A d \in L : d.off < c.off => d.end <= c.off
    BY <1>1, <1>3 DEF Apart
  <2>2. Passed(c, have) = have \/ Passed(c, have) <= c.off
    BY <1>2, <2>1
  <2>3. QED
    BY <1>1, <1>2, <2>2
<1>4. PlanOf(have) = {c \in L : have < c.end}
  BY <1>3 DEF PlanOf
<1>5. ASSUME Contiguous(have), NEW c \in PlanOf(have), c.off # have
      PROVE  \E d \in PlanOf(have) : d.end = c.off
  <2>1. c.off = Passed(c, have) /\ c \in L
    BY <1>4, <1>5 DEF Contiguous
  <2>2. PICK d \in L : d.off < c.off /\ c.off = d.end
    BY <1>2, <1>5, <2>1
  <2>3. have <= Passed(c, have) /\ Passed(c, have) \in Nat
    BY <1>2, <2>1
  <2>4. have < d.end
    BY <1>5, <2>1, <2>2, <2>3
  <2>5. QED
    BY <1>4, <2>2, <2>4
<1>6. QED
  BY <1>4, <1>5

-----------------------------------------------------------------------------
(* What a pull has read, and what is on disk                                 *)

(* A chunk a pull may have read: one of a generation that is over, or one    *)
(* that is still there.                                                      *)
FromStore(c, s) ==
    /\ WellFormed(c) /\ c.gen <= row[s].gen
    /\ (c.gen # 0 /\ c.gen = row[s].gen /\ Live(s)) => c \in chunks[s]

(* A mirror holds consecutive bytes of a transcript, from the watermark on,  *)
(* that are no newer than the transcript there is.                           *)
MirrorRules(s) ==
    /\ NoNewer(File(mirror[s]), Transcript(doc[s]))
    /\ ("moved" \notin mishaps /\ mirror[s] # <<>>) => mirror[s][1][2] = start[s]
    /\ mirror[s] # <<>> => \E d \in past[s] : FileOf(mirror[s], mirror[s][1][2], d)

(* A record may lag behind the mirror, never the mirror behind it.           *)
RecordRules(record, s) ==
    /\ \A c \in record.generation : FromStore(c, s)
    /\ record.enc => record.generation # {}
    /\ NoNewer(Content(record.generation), Transcript(doc[s]))
    /\ NoNewer(Content(record.generation), File(mirror[s]))

(* It describes the mirror exactly as long as no pull left without a word.   *)
InSync(record, s) ==
    (record.generation # {} /\ mirror[s] # <<>>) =>
      mirror[s][1][2] = record.base /\ File(mirror[s]) = Content(record.generation)

SyncRules(s) ==
    mishaps \cap {"ended", "alarmed"} = {} =>
      IF pc = "idle" THEN InSync(saved.records[s], s)
      ELSE InSync(run.records[s], s) \/ (run.written /\ s = Session)

SessionData(s) ==
    /\ MirrorRules(s) /\ SyncRules(s)
    /\ RecordRules(saved.records[s], s) /\ RecordRules(run.records[s], s)

(* What was listed of a session: ranges of one transcript it had, no older   *)
(* than the mirror and its records and no newer than the transcript.         *)
ListedRules ==
    /\ \A c \in run.listed : FromStore(c, Session)
    /\ \A c, d \in run.listed : Apart(c, d)
    /\ \E d \in past[Session] : /\ \A c \in run.listed : OfDocument(c, d)
                                /\ Writing => FileOf(mirror[Session], Base, d)
    /\ NoNewer(Content(run.listed), Transcript(doc[Session]))
    /\ NoNewer(File(mirror[Session]), Content(run.listed))
    /\ NoNewer(Content(saved.records[Session].generation), Content(run.listed))
    /\ NoNewer(Content(Record.generation), Content(run.listed))
    /\ "moved" \notin mishaps => Base = start[Session]
    /\ \A c \in Record.generation, d \in run.listed : (c.gen = d.gen /\ c.gen # 0) => Apart(c, d)

(* The file so far, and what is left to append to it.                        *)
Have == Base + Len(mirror[Session])
WritingRules ==
    /\ Covered(run.listed, Base, Have)
    /\ run.todo = {c \in run.listed : Have < c.end}
    /\ \A c \in run.todo : c.off = Have \/ \E d \in run.todo : d.end = c.off
    /\ run.written => mirror[Session] # <<>>
    /\ pc = "finish" => run.broken \/ run.todo = {}

DataRules ==
    /\ \A s \in Sessions : SessionData(s)
    /\ Working => ListedRules
    /\ Writing => WritingRules

-----------------------------------------------------------------------------
(* The store moves on under a pull                                           *)

LEMMA RegisterIs ==
  ASSUME Basics, NEW s \in Sessions, NEW scheme \in Schemes, Register(s, scheme)
  PROVE  /\ \A t \in Sessions : t # s => row'[t] = row[t]
         /\ row'[s].updated = now /\ row'[s].gen \in Nat
         /\ Live(s) => row'[s].gen = row[s].gen /\ row'[s].status = row[s].status
         /\ ~Live(s) => row[s].gen < row'[s].gen \/ (row[s].gen = 0 /\ row'[s].gen = 0)
<1> DEFINE enc == scheme = "aead"
           fresh == [status |-> "live", enc |-> enc, updated |-> now, size |-> row[s].size,
                     gen |-> IF enc THEN row[s].gen + 1 ELSE 0]
           renewed == [row[s] EXCEPT !.updated = now]
<1>1. row[s] \in RowInStore /\ SessionRules(s)
  BY DEF Basics, StoreTypes
<1>2. /\ fresh.updated = now /\ fresh.gen = IF enc THEN row[s].gen + 1 ELSE 0
      /\ renewed.status = row[s].status /\ renewed.updated = now /\ renewed.gen = row[s].gen
  BY <1>1 DEF RowInStore
<1>3. row' = [row EXCEPT ![s] = IF Live(s) THEN renewed ELSE fresh] /\ (row[s].enc => enc)
  BY DEF Register
<1> HIDE DEF enc, fresh, renewed
<1>4. row'[s] = (IF Live(s) THEN renewed ELSE fresh) /\ \A t \in Sessions : t # s => row'[t] = row[t]
  BY <1>3 DEF Basics, StoreTypes
<1>5. row[s].gen \in Nat /\ (~row[s].enc => row[s].gen = 0)
  BY <1>1 DEF RowInStore, SessionRules
<1>6. CASE Live(s)
  BY <1>2, <1>4, <1>5, <1>6
<1>7. CASE ~Live(s)
  <2>1. row'[s] = fresh
    BY <1>4, <1>7
  <2>2. CASE enc
    BY <1>2, <1>4, <1>5, <1>7, <2>1, <2>2
  <2>3. CASE ~enc
    BY <1>2, <1>3, <1>4, <1>5, <1>7, <2>1, <2>3
  <2>4. QED
    BY <2>2, <2>3
<1>8. QED
  BY <1>6, <1>7

(* What a step of the store may do to a session.                             *)
Ages(s) ==
    /\ past[s] \subseteq past'[s]
    /\ \A i \in 1 .. MaxLength : doc[s][i] <= doc'[s][i]
    /\ start'[s] = start[s] \/ "moved" \in mishaps'
    /\ \A c : FromStore(c, s) => FromStore(c, s)'

LEMMA SessionAges ==
  ASSUME Basics, AllStored, NEW s \in Sessions, row[s].gen <= row'[s].gen,
         past[s] \subseteq past'[s],
         \A i \in 1 .. MaxLength : doc'[s][i] = doc[s][i] \/ doc'[s][i] = deletes + 2,
         start'[s] = start[s] \/ "moved" \in mishaps',
         row'[s].gen \in Nat,
         \A c : (c.gen # 0 /\ c.gen = row'[s].gen /\ Live(s)') =>
                  \/ row'[s].gen > row[s].gen
                  \/ Live(s) /\ chunks[s] \subseteq chunks'[s] /\ row'[s].gen = row[s].gen
  PROVE  Ages(s)
<1>1. \A i \in 1 .. MaxLength : doc[s][i] <= doc'[s][i]
  <2>1. \A i \in 1 .. MaxLength : doc[s][i] \in Nat /\ doc[s][i] <= deletes + 1
    BY DEF Basics, StoreTypes, Transcripts, AllStored, Stored
  <2>2. deletes \in Nat
    BY DEF Basics, StoreTypes
  <2>3. \A n \in Nat : n <= deletes + 1 => n <= deletes + 2
    BY <2>2
  <2>4. \A n \in Nat : n <= n
    OBVIOUS
  <2>5. QED
    BY <2>1, <2>3, <2>4
<1>2. ASSUME NEW c, FromStore(c, s)
      PROVE  FromStore(c, s)'
  <2>1. WellFormed(c) /\ c.gen \in Nat /\ row[s].gen \in Nat /\ c.gen <= row[s].gen
    BY <1>2, WellFormedIs DEF FromStore, Basics, StoreTypes, RowInStore
  <2>2. c.gen <= row'[s].gen
    BY <2>1
  <2>3. ASSUME c.gen # 0, c.gen = row'[s].gen, Live(s)'
        PROVE  c \in chunks'[s]
    <3>1. ~(row'[s].gen > row[s].gen)
      BY <2>1, <2>3
    <3>2. Live(s) /\ chunks[s] \subseteq chunks'[s] /\ row'[s].gen = row[s].gen
      BY <2>3, <3>1
    <3>3. QED
      BY <1>2, <2>3, <3>2 DEF FromStore
  <2>4. QED
    BY <2>1, <2>2, <2>3 DEF FromStore
<1>3. QED
  BY <1>1, <1>2 DEF Ages

LEMMA StoreAges ==
  ASSUME Basics, AllStored, StoreStep \/ \E t \in Sessions : Upload(t)
  PROVE  /\ \A s \in Sessions : Ages(s)
         /\ mishaps \subseteq mishaps' /\ UNCHANGED puller
<1>1. mishaps \subseteq mishaps' /\ UNCHANGED puller
  BY DEF StoreStep, Upload, Suffers
<1>2. \A s \in Sessions : row[s].gen \in Nat /\ row[s].gen <= row[s].gen
  BY DEF Basics, StoreTypes, RowInStore
<1>3. ASSUME UNCHANGED <<doc, start, past>>,
             \A s \in Sessions : chunks[s] \subseteq chunks'[s]
                                 /\ row'[s].gen = row[s].gen /\ row'[s].status = row[s].status,
             NEW s \in Sessions
      PROVE  Ages(s)
  BY <1>2, <1>3, SessionAges DEF Live
<1>4. CASE Tick \/ \E t \in Sessions : PutWraps(t) \/ ReadTime(t) \/ PutChunk(t)
  <2>1. UNCHANGED <<doc, start, past, row>>
    BY <1>4 DEF Tick, PutWraps, ReadTime, PutChunk
  <2>2. \A s \in Sessions : chunks[s] \subseteq chunks'[s]
    BY <1>4 DEF Tick, PutWraps, ReadTime, PutChunk, Basics, StoreTypes
  <2>3. QED
    BY <1>1, <1>3, <2>1, <2>2
<1>5. ASSUME NEW t \in Sessions, TouchSession(t), NEW s \in Sessions
      PROVE  Ages(s)
  BY <1>3, <1>5, TouchedIs
<1>6. ASSUME NEW t \in Sessions, NEW scheme \in Schemes, Register(t, scheme), NEW s \in Sessions
      PROVE  Ages(s)
  <2>1. UNCHANGED <<doc, start, chunks, past>>
    BY <1>6 DEF Register
  <2>2. row'[s].gen \in Nat /\ row[s].gen <= row'[s].gen
    BY <1>2, <1>6, RegisterIs
  <2>3. \A c : (c.gen # 0 /\ c.gen = row'[s].gen /\ Live(s)') =>
                  \/ row'[s].gen > row[s].gen
                  \/ Live(s) /\ chunks[s] \subseteq chunks'[s] /\ row'[s].gen = row[s].gen
    <3>1. CASE s # t
      BY <1>6, <2>1, <3>1, RegisterIs DEF Live
    <3>2. CASE s = t /\ Live(s)
      BY <1>6, <2>1, <3>2, RegisterIs
    <3>3. CASE s = t /\ ~Live(s)
      BY <1>2, <1>6, <3>3, RegisterIs
    <3>4. QED
      BY <3>1, <3>2, <3>3
  <2>4. QED
    BY <2>1, <2>2, <2>3, SessionAges
<1>7. ASSUME NEW t \in Sessions, NEW kept \in 0 .. MaxLength, NEW from \in {0, 1},
             DeleteSession(t, kept, from), Suffers(IF from = start[t] THEN {} ELSE {"moved"}),
             NEW s \in Sessions
      PROVE  Ages(s)
  <2>1. row'[s].gen = row[s].gen /\ past[s] \subseteq past'[s]
    BY <1>7, DeletedIs
  <2>2. \A i \in 1 .. MaxLength : doc'[s][i] = doc[s][i] \/ doc'[s][i] = deletes + 2
    BY <1>7, DeletedIs
  <2>3. start'[s] = start[s] \/ "moved" \in mishaps'
    BY <1>7, DeletedIs DEF Suffers
  <2>4. \A c : (c.gen # 0 /\ c.gen = row'[s].gen /\ Live(s)') =>
                  \/ row'[s].gen > row[s].gen
                  \/ Live(s) /\ chunks[s] \subseteq chunks'[s] /\ row'[s].gen = row[s].gen
    BY <1>7, DeletedIs DEF Live
  <2>5. QED
    BY <1>2, <2>1, <2>2, <2>3, <2>4, SessionAges
<1>8. QED
  BY <1>1, <1>4, <1>5, <1>6, <1>7 DEF StoreStep, Upload

(* What a pull has read and written stays true of a store that moves on.     *)
LEMMA NewerStill ==
  ASSUME Basics, NEW s \in Sessions, \A i \in 1 .. MaxLength : doc[s][i] <= doc'[s][i],
         doc'[s] \in Transcripts,
         NEW X \in SUBSET (Nat \X Nat), NoNewer(X, Transcript(doc[s]))
  PROVE  NoNewer(X, Transcript(doc'[s]))
<1>1. SUFFICES ASSUME NEW x \in X, NEW i \in 1 .. MaxLength, x[2] = i - 1
               PROVE  x[1] <= doc'[s][i]
  BY DEF NoNewer, Transcript
<1>2. <<doc[s][i], i - 1>> \in Transcript(doc[s])
  BY DEF Transcript
<1>3. x[1] <= doc[s][i]
  BY <1>1, <1>2 DEF NoNewer
<1>4. x[1] \in Nat /\ doc[s][i] \in Nat /\ doc'[s][i] \in Nat /\ doc[s][i] <= doc'[s][i]
  BY DEF Basics, StoreTypes, Transcripts
<1>5. QED
  BY <1>3, <1>4

LEMMA BytesAreTyped ==
  ASSUME Basics
  PROVE  /\ \A s \in Sessions : File(mirror[s]) \in SUBSET (Nat \X Nat)
         /\ \A some : (\A c \in some : c \in Chunk) => Content(some) \in SUBSET (Nat \X Nat)
<1>1. \A s \in Sessions : File(mirror[s]) \in SUBSET (Nat \X Nat)
  BY DEF File, Basics, PullTypes
<1>2. ASSUME NEW some, \A c \in some : c \in Chunk
      PROVE  Content(some) \in SUBSET (Nat \X Nat)
  <2>1. ASSUME NEW b \in Content(some)
        PROVE  b \in Nat \X Nat
    <3>1. PICK c \in some : \E i \in 1 .. Len(c.data) : b = c.data[i]
      BY ContentIs
    <3>2. c.data \in Seq(Nat \X Nat)
      BY <1>2 DEF Chunk
    <3>3. QED
      BY <3>1, <3>2
  <2>2. QED
    BY <2>1
<1>3. QED
  BY <1>1, <1>2

LEMMA StoreData ==
  ASSUME Basics, Basics', AllStored, DataRules, StoreStep \/ \E t \in Sessions : Upload(t)
  PROVE  DataRules'
<1>1. mishaps \subseteq mishaps' /\ UNCHANGED <<mirror, saved, pc, run>>
  BY StoreAges DEF puller
<1>2. \A s \in Sessions : Ages(s)
  BY StoreAges
<1>3. ASSUME NEW s \in Sessions
      PROVE  /\ \A X \in SUBSET (Nat \X Nat) :
                  NoNewer(X, Transcript(doc[s])) => NoNewer(X, Transcript(doc'[s]))
             /\ past[s] \subseteq past'[s]
             /\ start'[s] = start[s] \/ "moved" \in mishaps'
             /\ \A c : FromStore(c, s) => FromStore(c, s)'
  <2>1. doc'[s] \in Transcripts
    BY DEF Basics, StoreTypes
  <2>2. QED
    BY <1>2, <2>1, NewerStill DEF Ages
<1>4. ASSUME NEW s \in Sessions
      PROVE  MirrorRules(s)'
  <2>1. MirrorRules(s)
    BY DEF DataRules, SessionData
  <2>2. File(mirror[s]) \in SUBSET (Nat \X Nat)
    BY BytesAreTyped
  <2>3. QED
    BY <1>1, <1>3, <2>1, <2>2 DEF MirrorRules
<1>5. ASSUME NEW s \in Sessions, NEW record \in RecordType, RecordRules(record, s)
      PROVE  /\ \A c \in record.generation : FromStore(c, s)'
             /\ record.enc => record.generation # {}
             /\ NoNewer(Content(record.generation), Transcript(doc'[s]))
             /\ NoNewer(Content(record.generation), File(mirror'[s]))
  <2>1. Content(record.generation) \in SUBSET (Nat \X Nat)
    BY BytesAreTyped DEF RecordType
  <2>2. QED
    BY <1>1, <1>3, <1>5, <2>1 DEF RecordRules
<1>6. ASSUME NEW s \in Sessions
      PROVE  SessionData(s)'
  <2>1. saved.records[s] \in RecordType /\ run.records[s] \in RecordType
    BY DEF Basics, PullTypes, RunType
  <2>2. RecordRules(saved.records[s], s)' /\ RecordRules(run.records[s], s)'
    BY <1>1, <1>5, <2>1 DEF DataRules, SessionData, RecordRules
  <2>3. SyncRules(s)
    BY DEF DataRules, SessionData
  <2>4. Session' = Session
    BY <1>1 DEF Session, Row
  <2>5. SyncRules(s)'
    BY <1>1, <2>3, <2>4 DEF SyncRules, InSync
  <2>6. QED
    BY <1>4, <2>2, <2>5 DEF SessionData
<1>7. ASSUME Working'
      PROVE  ListedRules'
  <2>1. Working /\ ListedRules
    BY <1>1, <1>7 DEF Working, DataRules
  <2>2. /\ Session' = Session /\ Record' = Record /\ Base' = Base /\ Writing' = Writing
        /\ Session \in Sessions
    BY <1>1, <2>1, RowIsListed DEF Session, Row, Record, Base, Writing
  <2>3. Content(run.listed) \in SUBSET (Nat \X Nat)
    BY BytesAreTyped DEF Basics, PullTypes, RunType, ChunkInStore
  <2>4. NoNewer(Content(run.listed), Transcript(doc'[Session]))
    BY <1>3, <2>1, <2>2, <2>3 DEF ListedRules
  <2>5. \A c \in run.listed : FromStore(c, Session)'
    BY <1>3, <2>1, <2>2 DEF ListedRules
  <2>6. \E d \in past'[Session] : /\ \A c \in run.listed : OfDocument(c, d)
                                  /\ Writing => FileOf(mirror[Session], Base, d)
    BY <1>3, <2>1, <2>2 DEF ListedRules
  <2>7. "moved" \notin mishaps' => Base = start'[Session]
    BY <1>1, <1>3, <2>1, <2>2 DEF ListedRules
  <2>8. /\ \A c, d \in run.listed : Apart(c, d)
        /\ NoNewer(File(mirror[Session]), Content(run.listed))
        /\ NoNewer(Content(saved.records[Session].generation), Content(run.listed))
        /\ NoNewer(Content(Record.generation), Content(run.listed))
        /\ \A c \in Record.generation, d \in run.listed :
             (c.gen = d.gen /\ c.gen # 0) => Apart(c, d)
    BY <2>1 DEF ListedRules
  <2>9. QED
    BY <1>1, <2>2, <2>4, <2>5, <2>6, <2>7, <2>8 DEF ListedRules
<1>8. ASSUME Writing'
      PROVE  WritingRules'
  <2>1. Writing /\ WritingRules
    BY <1>1, <1>8 DEF Writing, DataRules
  <2>2. Session' = Session /\ Base' = Base
    BY <1>1 DEF Session, Row, Base
  <2>3. Have' = Have
    BY <1>1, <2>2 DEF Have
  <2>4. QED
    BY <1>1, <2>1, <2>2, <2>3 DEF WritingRules
<1>9. QED
  BY <1>6, <1>7, <1>8 DEF DataRules

-----------------------------------------------------------------------------
(* The steps of a pull                                                       *)

LEMMA BaseIs ==
  ASSUME Basics, Working
  PROVE  /\ Base \in Nat /\ \A c \in run.listed : Base <= c.off
         /\ \E c \in run.listed : c.off = Base
         /\ mirror[Session] \in Seq(Nat \X Nat) /\ Session \in Sessions
         /\ run.listed # {}
<1>1. run.listed # {} /\ run.listed \subseteq ChunkInStore
  BY DEF Basics, RunRules, PullTypes, RunType
<1>2. \A c \in run.listed : c.off \in Nat
  BY <1>1 DEF ChunkInStore, Chunk
<1> DEFINE first == CHOOSE c \in run.listed : \A d \in run.listed : c.off <= d.off
<1>3. first \in run.listed /\ \A d \in run.listed : first.off <= d.off
  <2>1. \E c \in run.listed : \A d \in run.listed : c.off <= d.off
    BY <1>1, <1>2, FirstChunk
  <2>2. QED
    BY <2>1
<1>4. Base = first.off
  BY DEF Base
<1>5. Session \in Sessions
  BY RowIsListed
<1>6. mirror[Session] \in Seq(Nat \X Nat)
  BY <1>5 DEF Basics, PullTypes
<1> HIDE DEF first
<1>7. QED
  BY <1>1, <1>2, <1>3, <1>4, <1>5, <1>6

(* The byte of a chunk at a position.                                        *)
LEMMA ByteAt ==
  ASSUME NEW c, WellFormed(c), NEW p \in Nat, c.off <= p, p < c.end
  PROVE  /\ p - c.off + 1 \in 1 .. Len(c.data)
         /\ \A d : OfDocument(c, d) => c.data[p - c.off + 1] = <<d[p + 1], p>>
<1>1. c.off \in Nat /\ c.end \in Nat /\ Len(c.data) = c.end - c.off
  BY WellFormedIs
<1>2. p - c.off + 1 \in 1 .. Len(c.data)
  BY <1>1
<1>3. c.off + (p - c.off + 1) = p + 1 /\ c.off + (p - c.off + 1) - 1 = p
  BY <1>1
<1>4. ASSUME NEW d, OfDocument(c, d)
      PROVE  c.data[p - c.off + 1] = <<d[p + 1], p>>
  <2>1. c.data[p - c.off + 1] = <<d[c.off + (p - c.off + 1)], c.off + (p - c.off + 1) - 1>>
    BY <1>2, <1>4 DEF OfDocument
  <2>2. QED
    BY <1>3, <2>1
<1>5. QED
  BY <1>2, <1>4

(* A position in a chunk, as one of the part of the file it is in.           *)
LEMMA PlaceInChunk ==
  ASSUME NEW base \in Nat, NEW i \in Nat, NEW off \in Nat, NEW end \in Nat, NEW p \in Nat,
         p = base + i - 1, off <= p, p < end
  PROVE  /\ off - base + 1 \in Int /\ end - base \in Int
         /\ p - off + 1 \in 1 .. (end - base) - (off - base + 1) + 1
         /\ (off - base + 1) + (p - off + 1) - 1 = i
<1>1. (end - base) - (off - base + 1) + 1 = end - off
  OBVIOUS
<1>2. p - off + 1 \in 1 .. end - off
  OBVIOUS
<1>3. QED
  BY <1>1, <1>2

(* _generation_on_disk: what a tiled file is recorded as made of.            *)
LEMMA RecordOfFile ==
  ASSUME Basics, Working, ListedRules, NEW d \in Transcripts,
         \A c \in run.listed : OfDocument(c, d),
         NEW f \in Seq(Nat \X Nat), f # <<>>, FileOf(f, Base, d),
         Covered(run.listed, Base, Base + Len(f))
  PROVE  /\ OnDisk(f) # {} /\ OnDisk(f) \subseteq run.listed
         /\ Content(OnDisk(f)) = File(f) /\ f[1][2] = Base
<1> DEFINE L == run.listed
           end == Base + Len(f)
<1>1. /\ \A c \in L : WellFormed(c)
      /\ \A c, e \in L : Apart(c, e)
  BY DEF ListedRules, FromStore
<1>2. Base \in Nat /\ \A c \in L : Base <= c.off
  BY BaseIs
<1>3. Len(f) \in Nat /\ Len(f) > 0
  OBVIOUS
<1>4. end \in Nat /\ Base < end
  BY <1>2, <1>3
<1>5. OnDisk(f) = {c \in L : c.end <= end} /\ OnDisk(f) # {}
  BY <1>1, <1>2, <1>4, PrefixFound DEF OnDisk
<1>6. f[1][2] = Base
  <2>1. f[1] = <<d[Base + 1], Base + 1 - 1>>
    BY <1>3 DEF FileOf
  <2>2. QED
    BY <1>2, <2>1
<1>7. ASSUME NEW b \in Content(OnDisk(f))
      PROVE  b \in File(f)
  <2>1. PICK c \in OnDisk(f) : \E i \in 1 .. Len(c.data) : b = c.data[i]
    BY ContentIs
  <2>2. PICK i \in 1 .. Len(c.data) : b = c.data[i]
    BY <2>1
  <2>3. c \in L /\ c.end <= end
    BY <1>5
  <2>4. /\ c.off \in Nat /\ c.end \in Nat /\ Len(c.data) = c.end - c.off /\ Base <= c.off
        /\ Base \in Nat /\ Len(f) \in Nat /\ c.end <= Base + Len(f)
    BY <1>1, <1>2, <1>3, <2>3, WellFormedIs
  <2>5. b = <<d[c.off + i], c.off + i - 1>>
    BY <2>2, <2>3 DEF OfDocument
  <2> DEFINE k == c.off - Base + i
  <2>6. k \in 1 .. Len(f) /\ Base + k = c.off + i /\ Base + k - 1 = c.off + i - 1
    <3>1. PICK base \in Nat, n \in Nat, off \in Nat, stop \in Nat :
            base = Base /\ n = Len(f) /\ off = c.off /\ stop = c.end
      BY <2>4
    <3>2. base <= off /\ stop <= base + n /\ i \in 1 .. stop - off
      BY <2>4, <3>1
    <3>3. /\ off - base + i \in 1 .. n /\ base + (off - base + i) = off + i
          /\ base + (off - base + i) - 1 = off + i - 1
      BY <3>2
    <3>4. QED
      BY <3>1, <3>3
  <2> HIDE DEF k
  <2>7. f[k] = <<d[Base + k], Base + k - 1>>
    BY <2>6 DEF FileOf
  <2>8. b = f[k]
    BY <2>5, <2>6, <2>7
  <2>9. QED
    BY <2>6, <2>8 DEF File
<1>8. ASSUME NEW b \in File(f)
      PROVE  b \in Content(OnDisk(f))
  <2>1. PICK i \in 1 .. Len(f) : b = f[i]
    BY DEF File
  <2> DEFINE p == Base + i - 1
  <2>2. p \in Base .. end - 1 /\ p \in Nat /\ p + 1 = Base + i
    BY <1>2, <1>3
  <2>3. b = <<d[p + 1], p>>
    BY <2>1, <2>2 DEF FileOf
  <2> HIDE DEF p
  <2>4. PICK c \in L : c.off <= p /\ p < c.end
    BY <2>2 DEF Covered
  <2>5. c.off \in Nat /\ c.end \in Nat
    BY <1>1, WellFormedIs
  <2>6. c.end <= end
    BY <1>4, <2>2, <2>4, <2>5 DEF Covered
  <2>7. p - c.off + 1 \in 1 .. Len(c.data) /\ c.data[p - c.off + 1] = <<d[p + 1], p>>
    BY <1>1, <2>2, <2>4, ByteAt
  <2>8. QED
    BY <1>5, <2>3, <2>6, <2>7, ContentIs
<1>9. QED
  BY <1>5, <1>6, <1>7, <1>8

(* A file that _stale_reason lets stand is of the transcript that is listed: *)
(* its bytes were verified, or its record names chunks that are older and    *)
(* chunks that are newer than it, and these are the same.                    *)
LEMMA FileStands ==
  ASSUME Basics, DataRules, pc = "compare", ~Misplaced, NEW d \in past[Session],
         \A c \in run.listed : OfDocument(c, d),
         Len(mirror[Session]) > 0, ~Stale(mirror[Session], Base)
  PROVE  /\ FileOf(mirror[Session], Base, d)
         /\ Covered(run.listed, Base, Base + Len(mirror[Session]))
<1> DEFINE L == run.listed
           file == mirror[Session]
           end == Base + Len(file)
           prefix == PrefixFor(L, Base, end)
<1>1. Working /\ ~Writing /\ ListedRules /\ SessionData(Session)
  <2>1. Working /\ ~Writing
    BY DEF Working, Writing
  <2>2. QED
    BY <2>1, BaseIs DEF DataRules
<1>2. /\ \A c \in L : WellFormed(c)
      /\ \A c, e \in L : Apart(c, e)
  BY <1>1 DEF ListedRules, FromStore
<1>3. /\ Base \in Nat /\ \A c \in L : Base <= c.off
      /\ file \in Seq(Nat \X Nat) /\ Len(file) \in Nat /\ Session \in Sessions
  BY <1>1, BaseIs
<1>4. end \in Nat /\ Base < end
  BY <1>3
<1>5. /\ prefix # {} /\ Record.base = Base
      /\ \/ prefix = Record.generation
         \/ Record.generation = {} /\ VerifyLocal(file, Base, prefix)
  BY DEF Stale
<1>6. prefix = PrefixFor(L, Base, end)
  OBVIOUS
<1> HIDE DEF prefix
<1>7. /\ prefix \subseteq L
      /\ \A c \in prefix : Base <= c.off /\ c.end <= end
      /\ \A p \in Base .. end - 1 : \E c \in prefix : c.off <= p /\ p < c.end
  <2> HIDE DEF end
  <2>1. QED
    BY <1>2, <1>3, <1>4, <1>5, <1>6, PrefixCovers
<1>8. \A c \in L : c.off \in Nat /\ c.end \in Nat /\ c.off < c.end /\ c.end <= MaxLength
  BY <1>2, WellFormedIs
<1>9. Covered(L, Base, end)
  <2>1. ASSUME NEW c \in L, ~(end <= c.off)
        PROVE  c.end <= end
    <3>1. c.off \in Base .. end - 1
      BY <1>3, <1>4, <1>8, <2>1
    <3>2. PICK e \in prefix : e.off <= c.off /\ c.off < e.end
      BY <1>7, <3>1
    <3>3. c = e
      BY <1>2, <1>7, <1>8, <3>2 DEF Apart
    <3>4. QED
      BY <1>7, <3>3
  <2>2. QED
    BY <1>7, <2>1 DEF Covered
<1>10. end <= MaxLength
  <2>1. end - 1 \in Base .. end - 1
    BY <1>3, <1>4
  <2>2. PICK c \in prefix : c.off <= end - 1 /\ end - 1 < c.end
    BY <1>7, <2>1
  <2>3. c.end \in Nat /\ c.end <= MaxLength /\ MaxLength \in Nat
    BY <1>7, <1>8, PullConstants
  <2>4. QED
    BY <1>4, <2>2, <2>3
<1>11. \E old : \A i \in 1 .. Len(file) :
         file[i] = <<old[file[1][2] + i], file[1][2] + i - 1>>
  <2>1. file # <<>>
    OBVIOUS
  <2>2. QED
    BY <1>1, <2>1 DEF SessionData, MirrorRules, FileOf
<1>12. ASSUME NEW i \in 1 .. Len(file)
       PROVE  file[i] = <<d[Base + i], Base + i - 1>>
  <2> DEFINE p == Base + i - 1
  <2>1. p \in Base .. end - 1 /\ p \in Nat /\ p + 1 = Base + i /\ i \in Nat
    BY <1>3
  <2> HIDE DEF p
  <2>2. PICK c \in prefix : c.off <= p /\ p < c.end
    BY <1>7, <2>1
  <2> DEFINE j == p - c.off + 1
             y == c.data[j]
  <2>3. c \in L /\ WellFormed(c) /\ OfDocument(c, d)
    BY <1>2, <1>7
  <2>4. j \in 1 .. Len(c.data) /\ y = <<d[p + 1], p>>
    BY <2>1, <2>2, <2>3, ByteAt
  <2>5. CASE Record.generation = {} /\ VerifyLocal(file, Base, prefix)
    <3>1. SubSeq(file, c.off - Base + 1, c.end - Base) = c.data
      BY <2>5 DEF VerifyLocal
    <3>2. /\ c.off - Base + 1 \in Int /\ c.end - Base \in Int
          /\ j \in 1 .. (c.end - Base) - (c.off - Base + 1) + 1
          /\ (c.off - Base + 1) + j - 1 = i
      <4>1. c.off \in Nat /\ c.end \in Nat /\ Base \in Nat /\ p \in Nat /\ i \in Nat
        BY <1>3, <1>8, <2>1, <2>3
      <4>2. p = Base + i - 1
        BY DEF p
      <4>3. PICK base \in Nat, off \in Nat, stop \in Nat :
              base = Base /\ off = c.off /\ stop = c.end
        BY <4>1
      <4>4. p = base + i - 1 /\ off <= p /\ p < stop
        BY <2>2, <4>2, <4>3
      <4>5. /\ off - base + 1 \in Int /\ stop - base \in Int
            /\ p - off + 1 \in 1 .. (stop - base) - (off - base + 1) + 1
            /\ (off - base + 1) + (p - off + 1) - 1 = i
        BY <4>1, <4>4, PlaceInChunk
      <4>6. QED
        BY <4>3, <4>5
    <3> HIDE DEF j
    <3>3. SubSeq(file, c.off - Base + 1, c.end - Base)[j] = file[(c.off - Base + 1) + j - 1]
      <4>1. \A m, n \in Int : \A k \in 1 .. n - m + 1 : SubSeq(file, m, n)[k] = file[m + k - 1]
        BY <1>3
      <4>2. QED
        BY <3>2, <4>1
    <3>4. QED
      BY <2>1, <2>4, <3>1, <3>2, <3>3 DEF p
  <2>6. CASE prefix = Record.generation
    <3>1. y \in Content(L) /\ y \in Content(Record.generation)
      <4> HIDE DEF j
      <4>1. QED
        BY <2>2, <2>3, <2>4, <2>6, ContentIs
    <3>2. file[i] \in File(file)
      BY DEF File
    <3>3. file[1][2] = Base
      <4>1. CASE "moved" \notin mishaps
        <5>1. Base = start[Session] /\ file # <<>>
          BY <1>1, <4>1 DEF ListedRules
        <5>2. QED
          BY <1>1, <4>1, <5>1 DEF SessionData, MirrorRules
      <4>2. CASE "moved" \in mishaps
        <5>1. mishaps \cap {"ended", "alarmed"} = {}
          BY <4>2 DEF Misplaced
        <5>2. ~run.written /\ pc # "idle"
          BY <1>1 DEF Basics, RunRules
        <5>3. InSync(Record, Session)
          BY <1>1, <5>1, <5>2 DEF SessionData, SyncRules, Record
        <5>4. file # <<>> /\ Record.generation # {}
          BY <1>5, <2>6
        <5>5. QED
          BY <1>5, <5>3, <5>4 DEF InSync
      <4>3. QED
        BY <4>1, <4>2
    <3>4. \E old : file[i] = <<old[Base + i], p>>
      BY <1>11, <3>3 DEF p
    <3>5. file[i][2] = p /\ y[2] = p
      BY <2>4, <3>4
    <3>6. file[i][1] = y[1]
      <4>1. file[i][1] <= y[1]
        BY <1>1, <3>1, <3>2, <3>5 DEF ListedRules, NoNewer
      <4>2. RecordRules(Record, Session)
        BY <1>1 DEF SessionData, Record
      <4>3. y[1] <= file[i][1]
        BY <3>1, <3>2, <3>5, <4>2 DEF RecordRules, NoNewer
      <4>4. file[i] \in Nat \X Nat /\ y \in Nat \X Nat
        <5>1. c.data \in Seq(Nat \X Nat)
          BY <2>3, WellFormedIs
        <5> HIDE DEF j
        <5>2. c.data[j] \in Nat \X Nat
          BY <2>4, <5>1
        <5>3. QED
          BY <1>3, <5>2
      <4>5. file[i][1] \in Nat /\ y[1] \in Nat
        BY <4>4
      <4>6. QED
        BY <4>1, <4>3, <4>5
    <3>7. file[i] = <<d[p + 1], p>>
      BY <2>4, <3>4, <3>6
    <3>8. QED
      BY <2>1, <3>7 DEF p
  <2>7. QED
    BY <1>5, <2>5, <2>6
<1>13. QED
  BY <1>9, <1>10, <1>12 DEF FileOf

(* Whatever Compare leaves can be extended by what is listed.                *)
LEMMA LeftStands ==
  ASSUME Basics, DataRules, pc = "compare", ~Misplaced, NEW d \in past[Session],
         \A c \in run.listed : OfDocument(c, d)
  PROVE  /\ FileOf(Left, Base, d) /\ Covered(run.listed, Base, Base + Len(Left))
         /\ Left \in Seq(Nat \X Nat) /\ (Left = <<>> \/ Left = mirror[Session])
<1>1. Working /\ ListedRules
  <2>1. Working
    BY DEF Working
  <2>2. QED
    BY <2>1 DEF DataRules
<1>2. /\ Base \in Nat /\ (\A c \in run.listed : Base <= c.off)
      /\ \E c \in run.listed : c.off = Base
      /\ mirror[Session] \in Seq(Nat \X Nat)
  BY <1>1, BaseIs
<1>3. CASE Left = <<>>
  <2>1. PICK c \in run.listed : c.off = Base
    BY <1>2
  <2>2. c.end <= MaxLength /\ c.off < c.end /\ c.end \in Nat /\ MaxLength \in Nat
    BY <1>1, WellFormedIs DEF ListedRules, FromStore
  <2>3. Base <= MaxLength
    BY <1>2, <2>1, <2>2
  <2>4. Len(Left) = 0
    BY <1>3
  <2>5. Base + 0 = Base /\ Base .. Base - 1 = {}
    BY <1>2
  <2>6. FileOf(Left, Base, d)
    BY <2>3, <2>4, <2>5 DEF FileOf
  <2>7. Covered(run.listed, Base, Base + Len(Left))
    BY <1>2, <2>4, <2>5 DEF Covered
  <2>8. QED
    BY <1>3, <2>6, <2>7
<1>4. CASE Left # <<>>
  <2>1. /\ Left = mirror[Session]
        /\ ~(Len(mirror[Session]) > 0 /\ Stale(mirror[Session], Base))
    BY <1>4 DEF Left
  <2>2. Len(mirror[Session]) > 0
    BY <1>2, <1>4, <2>1
  <2>3. QED
    BY <1>2, <2>1, <2>2, FileStands
<1>5. QED
  BY <1>3, <1>4

-----------------------------------------------------------------------------
(* A record that is true of the mirror stays so while only that is cut off.  *)
StillRecorded(record, s) ==
    /\ \A c \in record.generation : FromStore(c, s)'
    /\ record.enc => record.generation # {}
    /\ NoNewer(Content(record.generation), Transcript(doc'[s]))
    /\ NoNewer(Content(record.generation), File(mirror'[s]))

Kept(s) == mirror'[s] = mirror[s] \/ mirror'[s] = <<>>

LEMMA MirrorKept ==
  ASSUME DataRules, UNCHANGED store, mishaps \subseteq mishaps', NEW s \in Sessions, Kept(s)
  PROVE  MirrorRules(s)'
<1>1. MirrorRules(s)
  BY DEF DataRules, SessionData
<1>2. UNCHANGED <<doc, past, start>>
  BY DEF store
<1>3. CASE mirror'[s] = mirror[s]
  BY <1>1, <1>2, <1>3 DEF MirrorRules
<1>4. CASE mirror'[s] = <<>>
  <2>1. File(<<>>) = {}
    BY DEF File
  <2>2. QED
    BY <1>2, <1>4, <2>1 DEF MirrorRules, NoNewer
<1>5. QED
  BY <1>3, <1>4 DEF Kept

LEMMA RecordKept ==
  ASSUME UNCHANGED store, NEW s \in Sessions, NEW record, RecordRules(record, s), Kept(s)
  PROVE  StillRecorded(record, s)
<1>1. UNCHANGED <<doc, row, chunks>>
  BY DEF store
<1>2. \A c \in record.generation : FromStore(c, s)'
  BY <1>1 DEF RecordRules, FromStore, Live
<1>3. NoNewer(Content(record.generation), File(mirror'[s]))
  <2>1. CASE mirror'[s] = mirror[s]
    BY <2>1 DEF RecordRules
  <2>2. CASE mirror'[s] = <<>>
    <3>1. File(<<>>) = {}
      BY DEF File
    <3>2. QED
      BY <2>2, <3>1 DEF NoNewer
  <2>3. QED
    BY <2>1, <2>2 DEF Kept
<1>4. QED
  BY <1>1, <1>2, <1>3 DEF RecordRules, StillRecorded

LEMMA EmptyRecord ==
  ASSUME NEW s \in Sessions
  PROVE  /\ RecordRules(NoRecord, s) /\ InSync(NoRecord, s) /\ NoRecord \in RecordType
         /\ StillRecorded(NoRecord, s)
<1>1. NoRecord.generation = {} /\ NoRecord.enc = FALSE
  BY DEF NoRecord
<1>2. Content({}) = {}
  BY DEF Content
<1>3. NoRecord \in RecordType
  BY DEF NoRecord, RecordType
<1>4. QED
  BY <1>1, <1>2, <1>3 DEF RecordRules, InSync, NoNewer, StillRecorded

(* Both records of a session after a step, and the mirror.                   *)
LEMMA SessionAfter ==
  ASSUME NEW s \in Sessions, MirrorRules(s)', StillRecorded(saved'.records[s], s),
         StillRecorded(run'.records[s], s), SyncRules(s)'
  PROVE  SessionData(s)'
BY DEF SessionData, RecordRules, StillRecorded

(* A session whose records are what they were.                               *)
LEMMA SessionKept ==
  ASSUME Basics, DataRules, UNCHANGED <<store, saved>>, mishaps \subseteq mishaps',
         pc # "idle", pc' # "idle",
         NEW s \in Sessions, Kept(s), run'.records[s] = run.records[s],
         \/ run.written /\ s = Session => run'.written /\ s = Session'
         \/ "alarmed" \in mishaps'
  PROVE  SessionData(s)'
<1>1. SessionData(s)
  BY DEF DataRules
<1>2. MirrorRules(s)'
  BY MirrorKept
<1>3. RecordRules(saved.records[s], s) /\ RecordRules(run.records[s], s)
  BY <1>1 DEF SessionData
<1>4. StillRecorded(saved.records[s], s) /\ StillRecorded(run.records[s], s)
  BY <1>3, RecordKept
<1>5. SyncRules(s)'
  <2>1. SUFFICES ASSUME mishaps' \cap {"ended", "alarmed"} = {}
                 PROVE  InSync(run.records[s], s)' \/ (run'.written /\ s = Session')
    BY DEF SyncRules
  <2>2. InSync(run.records[s], s) \/ (run.written /\ s = Session)
    BY <1>1, <2>1 DEF SessionData, SyncRules
  <2>3. InSync(run.records[s], s) => InSync(run.records[s], s)'
    BY DEF InSync, Kept
  <2>4. QED
    BY <2>1, <2>2, <2>3
<1>6. QED
  BY <1>2, <1>4, <1>5, SessionAfter

(* A row that is concluded with a record that is true of the mirror.         *)
LEMMA ConcludeData ==
  ASSUME Basics, DataRules, Working \/ pc = "session", UNCHANGED <<store, saved>>,
         mishaps \subseteq mishaps', \A s \in Sessions : Kept(s),
         NEW outcome, NEW record \in RecordType, Conclude(outcome, record),
         RecordRules(record, Session),
         mishaps' \cap {"ended", "alarmed"} = {} => InSync(record, Session)
  PROVE  DataRules'
<1>1. Session \in Sessions /\ run \in RunType
  BY RowIsListed DEF Basics, PullTypes
<1>2. /\ run'.records = [run.records EXCEPT ![Session] = record] /\ ~run'.written
      /\ pc' \in {"save", "session"} /\ pc # "idle"
  BY Concluded DEF Working
<1>3. ~Working' /\ ~Writing'
  BY <1>2 DEF Working, Writing
<1>4. \A s \in Sessions : run'.records[s] = IF s = Session THEN record ELSE run.records[s]
  BY <1>1, <1>2 DEF RunType
<1>5. ASSUME NEW s \in Sessions
      PROVE  SessionData(s)'
  <2>1. CASE s # Session
    BY <1>2, <1>4, <2>1, SessionKept
  <2>2. CASE s = Session
    <3>1. MirrorRules(s)'
      BY MirrorKept
    <3>2. StillRecorded(saved.records[s], s)
      BY RecordKept DEF DataRules, SessionData
    <3>3. StillRecorded(record, s)
      BY <2>2, RecordKept
    <3>4. SyncRules(s)'
      <4>1. mishaps' \cap {"ended", "alarmed"} = {} => InSync(record, s)'
        BY <2>2 DEF InSync, Kept
      <4>2. run'.records[s] = record /\ pc' # "idle"
        BY <1>2, <1>4, <2>2
      <4>3. QED
        BY <4>1, <4>2 DEF SyncRules, InSync
    <3>5. run'.records[s] = record
      BY <1>4, <2>2
    <3>6. QED
      BY <3>1, <3>2, <3>3, <3>4, <3>5, SessionAfter
  <2>3. QED
    BY <2>1, <2>2
<1>6. QED
  BY <1>3, <1>5 DEF DataRules

(* One that is concluded with the record there was.                          *)
LEMMA ConcludeSame ==
  ASSUME Basics, DataRules, Working \/ pc = "session", UNCHANGED <<store, saved>>,
         mishaps \subseteq mishaps', \A s \in Sessions : Kept(s),
         NEW outcome, Conclude(outcome, Record), ~run.written \/ "alarmed" \in mishaps'
  PROVE  DataRules'
<1>1. Session \in Sessions /\ Record \in RecordType /\ pc # "idle"
  BY RowIsListed DEF Working
<1>2. RecordRules(Record, Session)
  BY <1>1 DEF DataRules, SessionData, Record
<1>3. mishaps' \cap {"ended", "alarmed"} = {} => InSync(Record, Session)
  <2>1. SUFFICES ASSUME mishaps' \cap {"ended", "alarmed"} = {}
                 PROVE  InSync(Record, Session)
    OBVIOUS
  <2>2. mishaps \cap {"ended", "alarmed"} = {} /\ ~run.written
    BY <2>1
  <2>3. SyncRules(Session)
    BY <1>1 DEF DataRules, SessionData
  <2>4. QED
    BY <1>1, <2>2, <2>3 DEF SyncRules, Record
<1>4. QED
  BY <1>1, <1>2, <1>3, ConcludeData

(* A step within a row.                                                      *)
LEMMA WithinData ==
  ASSUME Basics, DataRules, Working \/ pc = "session", SameRow, pc' # "idle",
         UNCHANGED <<store, saved>>, mishaps \subseteq mishaps',
         \A s \in Sessions : Kept(s), run.written => run'.written
  PROVE  \A s \in Sessions : SessionData(s)'
<1>1. Session' = Session /\ pc # "idle"
  BY RowStays DEF Working
<1>2. run'.records = run.records
  BY DEF SameRow
<1>3. QED
  BY <1>1, <1>2, SessionKept

(* What is listed stays so while the file is not extended.                   *)
LEMMA ListedKept ==
  ASSUME Basics, DataRules, Working, SameRow, UNCHANGED <<store, saved>>,
         mishaps \subseteq mishaps', Kept(Session), run'.listed = run.listed,
         Writing' => \E d \in past[Session] :
                       (\A c \in run.listed : OfDocument(c, d)) /\ FileOf(mirror'[Session], Base, d)
  PROVE  ListedRules' /\ Base' = Base /\ Session' = Session
<1>1. Session' = Session /\ Record' = Record /\ Base' = Base
  BY RowStays DEF Base
<1>2. UNCHANGED <<doc, past, start, row, chunks>>
  BY DEF store
<1>3. ListedRules
  BY DEF DataRules
<1>4. \A c \in run.listed : FromStore(c, Session)'
  BY <1>1, <1>2, <1>3 DEF ListedRules, FromStore, Live
<1>5. NoNewer(File(mirror'[Session]), Content(run.listed))
  <2>1. CASE mirror'[Session] = mirror[Session]
    BY <1>3, <2>1 DEF ListedRules
  <2>2. CASE mirror'[Session] = <<>>
    <3>1. File(<<>>) = {}
      BY DEF File
    <3>2. QED
      BY <2>2, <3>1 DEF NoNewer
  <2>3. QED
    BY <2>1, <2>2 DEF Kept
<1>6. \E d \in past[Session] : /\ \A c \in run.listed : OfDocument(c, d)
                               /\ Writing' => FileOf(mirror'[Session], Base, d)
  BY <1>3 DEF ListedRules
<1>7. /\ \A c, d \in run.listed : Apart(c, d)
      /\ NoNewer(Content(run.listed), Transcript(doc[Session]))
      /\ NoNewer(Content(saved.records[Session].generation), Content(run.listed))
      /\ NoNewer(Content(Record.generation), Content(run.listed))
      /\ "moved" \notin mishaps => Base = start[Session]
      /\ \A c \in Record.generation, d \in run.listed : (c.gen = d.gen /\ c.gen # 0) => Apart(c, d)
  BY <1>3 DEF ListedRules
<1>8. ListedRules'
  BY <1>1, <1>2, <1>4, <1>5, <1>6, <1>7 DEF ListedRules
<1>9. QED
  BY <1>1, <1>8

(* _session_record: a record of a file that is tiled by what is listed.      *)
LEMMA RecordOfIs ==
  ASSUME Basics, DataRules, Working, NEW d \in past[Session],
         \A c \in run.listed : OfDocument(c, d),
         NEW f, f = mirror[Session], f # <<>>, FileOf(f, Base, d),
         Covered(run.listed, Base, Base + Len(f))
  PROVE  /\ RecordOf(f) \in RecordType
         /\ RecordRules(RecordOf(f), Session) /\ InSync(RecordOf(f), Session)
<1>1. ListedRules /\ Session \in Sessions /\ f \in Seq(Nat \X Nat) /\ Base \in Nat
  BY BaseIs DEF DataRules
<1>2. d \in Transcripts
  BY <1>1 DEF Basics, StoreTypes
<1>3. /\ OnDisk(f) # {} /\ OnDisk(f) \subseteq run.listed
      /\ Content(OnDisk(f)) = File(f) /\ f[1][2] = Base
  BY <1>1, <1>2, RecordOfFile
<1>4. /\ RecordOf(f) = [base |-> Base, generation |-> OnDisk(f), enc |-> Row.enc, gen |-> run.gen]
      /\ RecordOf(f).base = Base /\ RecordOf(f).generation = OnDisk(f)
  BY DEF RecordOf, SessionRecord
<1>5. RecordOf(f) \in RecordType
  <2>1. Row \in RowRead /\ run \in RunType
    BY RowIsListed DEF Basics, PullTypes
  <2>2. Row.enc \in BOOLEAN /\ run.gen \in Nat /\ \A c \in run.listed : c \in Chunk
    BY <2>1 DEF RowRead, RunType, ChunkInStore
  <2>3. QED
    BY <1>1, <1>3, <1>4, <2>2 DEF RecordType
<1>6. MirrorRules(Session)
  BY <1>1 DEF DataRules, SessionData
<1>7. NoNewer(File(f), File(f))
  <2>1. File(f) \subseteq Transcript(d)
    BY <1>1, FileOfDocument
  <2>2. QED
    BY <1>2, <2>1, SameDocument
<1>8. RecordRules(RecordOf(f), Session)
  <2>1. \A c \in OnDisk(f) : FromStore(c, Session)
    BY <1>1, <1>3 DEF ListedRules
  <2>2. NoNewer(File(f), Transcript(doc[Session]))
    BY <1>6 DEF MirrorRules
  <2>3. QED
    BY <1>3, <1>4, <1>7, <2>1, <2>2 DEF RecordRules
<1>9. InSync(RecordOf(f), Session)
  BY <1>3, <1>4 DEF InSync
<1>10. QED
  BY <1>5, <1>8, <1>9

LEMMA SkipData ==
  ASSUME Basics, DataRules, Skip
  PROVE  DataRules'
<1>1. /\ pc = "session" /\ Conclude("skipped", Record)
      /\ mishaps \subseteq mishaps' /\ UNCHANGED <<store, mirror, saved>>
  BY DEF Skip, Suffers
<1>2. ~run.written /\ \A s \in Sessions : Kept(s)
  BY <1>1 DEF Basics, RunRules, Writing, Kept
<1>3. QED
  BY <1>1, <1>2, ConcludeSame

LEMMA ListChunksData ==
  ASSUME Basics, AllStored, DataRules, ListChunks
  PROVE  DataRules'
<1>1. /\ pc = "session" /\ UNCHANGED <<store, mirror, saved>>
      /\ mishaps \subseteq mishaps'
  BY ListChunksIs
<1>2. ~run.written /\ \A s \in Sessions : Kept(s)
  BY <1>1 DEF Basics, RunRules, Writing, Kept
<1>3. CASE Conclude("failed", Record)
  BY <1>1, <1>2, <1>3, ConcludeSame
<1>4. CASE Conclude("ok", NoRecord)
  <2>1. Session \in Sessions
    BY <1>1, RowIsListed
  <2>2. RecordRules(NoRecord, Session) /\ InSync(NoRecord, Session) /\ NoRecord \in RecordType
    BY <2>1, EmptyRecord
  <2>3. QED
    BY <1>1, <1>2, <1>4, <2>2, ConcludeData
<1>5. ASSUME chunks[Session] # {}, Live(Session), SameRow, run'.listed = chunks[Session],
             pc' \in {"probe", "compare"}
      PROVE  DataRules'
  <2>1. \A s \in Sessions : SessionData(s)'
    BY <1>1, <1>2, <1>5, WithinData
  <2>2. Session' = Session /\ Record' = Record /\ Session \in Sessions
    BY <1>1, <1>5, RowStays, RowIsListed
  <2> DEFINE L == chunks[Session]
  <2>3. Stored(Session) /\ SessionData(Session)
    BY <2>2 DEF AllStored, DataRules
  <2>4. UNCHANGED <<doc, past, start, row, chunks, mirror, saved>> /\ ~Writing'
    BY <1>1, <1>5 DEF store, Writing
  <2>5. \A c \in L : WellFormed(c) /\ OfDocument(c, doc[Session])
    BY <2>3 DEF Stored
  <2>6. doc[Session] \in past[Session] /\ doc[Session] \in Transcripts
    BY <2>2 DEF Basics, SessionRules, StoreTypes
  <2>7. Content(L) \subseteq Transcript(doc[Session])
    BY <2>5, ContentOfDocument
  <2>8. /\ NoNewer(Content(L), Transcript(doc[Session]))
        /\ NoNewer(File(mirror[Session]), Content(L))
        /\ NoNewer(Content(saved.records[Session].generation), Content(L))
        /\ NoNewer(Content(Record.generation), Content(L))
    <3>1. NoNewer(Content(L), Transcript(doc[Session]))
      BY <2>6, <2>7, SameDocument
    <3>2. /\ NoNewer(File(mirror[Session]), Transcript(doc[Session]))
          /\ NoNewer(Content(saved.records[Session].generation), Transcript(doc[Session]))
          /\ NoNewer(Content(Record.generation), Transcript(doc[Session]))
      BY <2>3 DEF SessionData, MirrorRules, RecordRules, Record
    <3>3. QED
      BY <2>6, <2>7, <3>1, <3>2, WithinDocument
  <2>9. \A c \in L : FromStore(c, Session)'
    <3>1. \A c \in L : c.gen = row[Session].gen /\ c.gen \in Nat
      BY <2>3, <2>5, WellFormedIs DEF Stored
    <3>2. \A c \in L : c.gen <= row[Session].gen
      BY <3>1
    <3>3. QED
      BY <2>2, <2>4, <2>5, <3>2 DEF FromStore
  <2>10. Base' = start[Session]
    <3>1. \A c \in L : c.off \in Nat /\ start[Session] <= c.off
      BY <2>3, <2>5, WellFormedIs DEF Stored
    <3>2. PICK c0 \in L : c0.off = start[Session]
      BY <1>5, <2>3 DEF Stored
    <3> DEFINE first == CHOOSE c \in L : \A d \in L : c.off <= d.off
    <3>3. \A d \in L : c0.off <= d.off
      BY <3>1, <3>2
    <3>4. first \in L /\ \A d \in L : first.off <= d.off
      BY <3>3
    <3>5. Base' = first.off
      BY <1>5 DEF Base
    <3> HIDE DEF first
    <3>6. first.off <= c0.off /\ c0.off <= first.off /\ first.off \in Nat /\ c0.off \in Nat
      BY <3>1, <3>3, <3>4
    <3>7. QED
      BY <3>2, <3>5, <3>6
  <2>11. \A c \in Record.generation, d \in L : (c.gen = d.gen /\ c.gen # 0) => Apart(c, d)
    <3>1. ASSUME NEW c \in Record.generation, NEW d \in L, c.gen = d.gen, c.gen # 0
          PROVE  Apart(c, d)
      <4>1. FromStore(c, Session)
        BY <2>3 DEF SessionData, RecordRules, Record
      <4>2. c \in L
        BY <1>5, <2>3, <3>1, <4>1 DEF FromStore, Stored
      <4>3. QED
        BY <2>3, <4>2 DEF Stored
    <3>2. QED
      BY <3>1
  <2>12. \A c, d \in L : Apart(c, d)
    BY <2>3 DEF Stored
  <2>13. ListedRules'
    <3>1. \E d \in past'[Session] : /\ \A c \in L : OfDocument(c, d)
                                    /\ Writing' => FileOf(mirror[Session], Base', d)
      BY <2>4, <2>5, <2>6
    <3>2. QED
      BY <1>5, <2>2, <2>4, <2>8, <2>9, <2>10, <2>11, <2>12, <3>1 DEF ListedRules
  <2>14. QED
    BY <2>1, <2>4, <2>13 DEF DataRules
<1>6. QED
  BY <1>3, <1>4, <1>5, ListChunksIs

(* Steps within a row that leave the file alone.                             *)
LEMMA ProbeData ==
  ASSUME Basics, DataRules, ProbeGeneration
  PROVE  DataRules'
<1>1. /\ pc = "probe" /\ pc' = "key" /\ UNCHANGED <<store, mirror, saved, mishaps>>
      /\ SameRow /\ run'.listed = run.listed /\ run'.written = run.written
  BY ProbeGenerationIs
<1>2. Working /\ ~Writing' /\ \A s \in Sessions : Kept(s)
  BY <1>1 DEF Working, Writing, Kept
<1>3. Session \in Sessions
  BY <1>2, RowIsListed
<1>4. QED
  BY <1>1, <1>2, <1>3, WithinData, ListedKept DEF DataRules

LEMMA ResolveKeyData ==
  ASSUME Basics, DataRules, ResolveKey
  PROVE  DataRules'
<1>1. pc = "key" /\ UNCHANGED <<store, mirror, saved, mishaps>>
  BY ResolveKeyIs
<1>2. Working /\ ~run.written /\ \A s \in Sessions : Kept(s)
  BY <1>1 DEF Working, Writing, Kept, Basics, RunRules
<1>3. CASE Conclude("failed", Record)
  BY <1>1, <1>2, <1>3, ConcludeSame
<1>4. CASE pc' = "compare" /\ SameRow /\ UNCHANGED run
  <2>1. Session \in Sessions /\ ~Writing' /\ run'.listed = run.listed
    BY <1>2, <1>4, RowIsListed DEF Writing
  <2>2. QED
    BY <1>1, <1>2, <1>4, <2>1, WithinData, ListedKept DEF DataRules
<1>5. QED
  BY <1>3, <1>4, ResolveKeyIs

LEMMA CompareData ==
  ASSUME Basics, DataRules, ~Misplaced, Compare
  PROVE  DataRules'
<1>1. /\ pc = "compare" /\ UNCHANGED <<store, saved, mishaps>>
      /\ mirror' = [mirror EXCEPT ![Session] = Left]
  BY CompareIs
<1>2. Working /\ ~run.written /\ Session \in Sessions /\ ListedRules
  <2>1. Working /\ ~Writing
    BY <1>1 DEF Working, Writing
  <2>2. QED
    BY <2>1, RowIsListed DEF DataRules, Basics, RunRules
<1>3. \A s \in Sessions : Kept(s)
  BY <1>1 DEF Left, Kept, Basics, PullTypes
<1>4. mirror'[Session] = Left
  BY <1>1, <1>2 DEF Basics, PullTypes
<1>5. PICK d \in past[Session] : \A c \in run.listed : OfDocument(c, d)
  BY <1>2 DEF ListedRules
<1>6. /\ FileOf(Left, Base, d) /\ Covered(run.listed, Base, Base + Len(Left))
      /\ Left \in Seq(Nat \X Nat) /\ (Left = <<>> \/ Left = mirror[Session])
  BY <1>1, <1>5, LeftStands
<1>7. /\ Base \in Nat /\ (\A c \in run.listed : Base <= c.off)
      /\ \E c \in run.listed : c.off = Base
  BY <1>2, BaseIs
<1>8. /\ \A c \in run.listed : WellFormed(c)
      /\ \A c, e \in run.listed : Apart(c, e)
  BY <1>2 DEF ListedRules, FromStore
<1> DEFINE have == Base + Len(Left)
<1>9. /\ PlanOf(have) = {c \in run.listed : have < c.end}
      /\ Contiguous(have) => \A c \in PlanOf(have) :
                               c.off = have \/ \E e \in PlanOf(have) : e.end = c.off
  <2>1. have \in Nat
    BY <1>6, <1>7
  <2> HIDE DEF have
  <2>2. QED
    BY <1>8, <2>1, PlanIs
<1>10. CASE Conclude("failed", Record)
  BY <1>1, <1>2, <1>3, <1>10, ConcludeSame
<1>11. CASE PlanOf(have) = {} /\ Conclude("ok", RecordOf(Left))
  <2>1. Left # <<>>
    <3>1. PICK c \in run.listed : c.off = Base
      BY <1>7
    <3>2. c.off < c.end /\ c.end \in Nat
      BY <1>8, WellFormedIs
    <3>3. ~(have < c.end)
      BY <1>9, <1>11
    <3>4. Len(Left) # 0
      BY <1>7, <3>1, <3>2, <3>3
    <3>5. QED
      BY <3>4
  <2>2. Left = mirror[Session]
    BY <1>6, <2>1
  <2>3. /\ RecordOf(Left) \in RecordType
        /\ RecordRules(RecordOf(Left), Session) /\ InSync(RecordOf(Left), Session)
    BY <1>2, <1>5, <1>6, <2>1, <2>2, RecordOfIs
  <2>4. QED
    BY <1>1, <1>2, <1>3, <1>11, <2>3, ConcludeData
<1>12. CASE /\ Contiguous(have) /\ SameRow
            /\ run'.listed = run.listed /\ run'.todo = PlanOf(have)
            /\ run'.written = run.written /\ pc' = "fetch"
  <2>1. \A s \in Sessions : SessionData(s)'
    BY <1>1, <1>2, <1>3, <1>12, WithinData
  <2>2. ListedRules' /\ Base' = Base /\ Session' = Session
    <3>1. Writing' => \E e \in past[Session] :
                        (\A c \in run.listed : OfDocument(c, e)) /\ FileOf(mirror'[Session], Base, e)
      BY <1>4, <1>5, <1>6
    <3>2. Kept(Session)
      BY <1>2, <1>3
    <3>3. QED
      BY <1>1, <1>2, <1>12, <3>1, <3>2, ListedKept
  <2>3. Have' = have
    BY <1>4, <2>2 DEF Have
  <2>4. WritingRules'
    BY <1>2, <1>6, <1>9, <1>12, <2>2, <2>3 DEF WritingRules
  <2>5. QED
    BY <2>1, <2>2, <2>4 DEF DataRules
<1>13. QED
  BY <1>10, <1>11, <1>12, CompareIs

(* The next chunk to fetch begins where the file ends.                       *)
LEMMA Next1Is ==
  ASSUME Basics, DataRules, pc = "fetch"
  PROVE  /\ Next1 \in run.todo /\ Next1 \in run.listed /\ Next1.off = Have
         /\ WellFormed(Next1)
<1>1. Working /\ Writing
  BY DEF Working, Writing
<1>2. run.todo # {} /\ run.todo \subseteq run.listed /\ ListedRules /\ WritingRules
  BY <1>1 DEF Basics, RunRules, DataRules
<1>3. \A c \in run.listed : WellFormed(c)
  BY <1>2 DEF ListedRules, FromStore
<1>4. \A c \in run.todo : c.off \in Nat /\ c.end \in Nat /\ c.off < c.end
  BY <1>2, <1>3, WellFormedIs
<1>5. \E c \in run.todo : \A d \in run.todo : c.off <= d.off
  BY <1>2, <1>4, FirstChunk
<1>6. Next1 \in run.todo /\ \A d \in run.todo : Next1.off <= d.off
  BY <1>5 DEF Next1
<1>7. Next1.off = Have
  <2>1. ASSUME NEW d \in run.todo, d.end = Next1.off
        PROVE  FALSE
    <3>1. Next1.off <= d.off /\ d.off < d.end /\ d.off \in Nat /\ d.end \in Nat
      BY <1>4, <1>6
    <3>2. QED
      BY <2>1, <3>1
  <2>2. QED
    BY <1>2, <1>6, <2>1 DEF WritingRules
<1>8. QED
  BY <1>2, <1>3, <1>6, <1>7

(* A file with one more chunk of the same transcript.                        *)
Appends(f, c, g, base, d) ==
    /\ f \in Seq(Nat \X Nat) /\ base \in Nat /\ FileOf(f, base, d)
    /\ WellFormed(c) /\ OfDocument(c, d) /\ c.off = base + Len(f)
    /\ g = f \o c.data

Appended(f, c, g, base, d) ==
    /\ FileOf(g, base, d) /\ base + Len(g) = c.end
    /\ File(g) = File(f) \cup Content({c})
    /\ g # <<>> /\ g \in Seq(Nat \X Nat) /\ g[1][2] = base

LEMMA Extended ==
  ASSUME NEW f, NEW c, NEW g, NEW base, NEW d, Appends(f, c, g, base, d)
  PROVE  Appended(f, c, g, base, d)
<1> USE DEF Appends
<1>1. /\ c.off \in Nat /\ c.end \in Nat /\ c.off < c.end /\ c.end <= MaxLength
      /\ c.data \in Seq(Nat \X Nat) /\ Len(c.data) = c.end - c.off
  BY WellFormedIs
<1>2. /\ g \in Seq(Nat \X Nat) /\ Len(g) = Len(f) + Len(c.data)
      /\ \A i \in 1 .. Len(g) : g[i] = IF i <= Len(f) THEN f[i] ELSE c.data[i - Len(f)]
  BY <1>1
<1>3. Len(f) \in Nat
  OBVIOUS
<1>4. base + Len(g) = c.end /\ Len(g) > 0
  BY <1>1, <1>2, <1>3
<1>5. ASSUME NEW i \in 1 .. Len(g)
      PROVE  g[i] = <<d[base + i], base + i - 1>>
  <2>1. CASE i <= Len(f)
    <3>1. i \in 1 .. Len(f)
      BY <1>3, <2>1
    <3>2. QED
      BY <1>2, <2>1, <3>1 DEF FileOf
  <2>2. CASE ~(i <= Len(f))
    <3> DEFINE j == i - Len(f)
    <3>1. i \in Nat /\ i <= Len(f) + Len(c.data)
      BY <1>1, <1>2, <1>3
    <3>2. j \in 1 .. Len(c.data) /\ c.off + j = base + i
      <4>1. PICK n \in Nat, m \in Nat, off \in Nat :
              n = Len(f) /\ m = Len(c.data) /\ off = c.off
        BY <1>1, <1>3
      <4>2. off = base + n /\ i > n /\ i <= n + m
        BY <2>2, <3>1, <4>1
      <4>3. i - n \in 1 .. m /\ off + (i - n) = base + i
        BY <3>1, <4>2
      <4>4. QED
        BY <4>1, <4>3
    <3>3. g[i] = c.data[j]
      BY <1>2, <2>2
    <3> HIDE DEF j
    <3>4. c.data[j] = <<d[c.off + j], c.off + j - 1>>
      BY <3>2 DEF OfDocument
    <3>5. QED
      BY <3>2, <3>3, <3>4
  <2>3. QED
    BY <2>1, <2>2
<1>6. FileOf(g, base, d)
  BY <1>1, <1>4, <1>5 DEF FileOf
<1>7. File(g) = File(f) \cup Content({c})
  <2>1. ASSUME NEW i \in 1 .. Len(g)
        PROVE  g[i] \in File(f) \cup Content({c})
    <3>1. CASE i <= Len(f)
      <4>1. i \in 1 .. Len(f) /\ g[i] = f[i]
        BY <1>2, <1>3, <3>1
      <4>2. QED
        BY <4>1 DEF File
    <3>2. CASE ~(i <= Len(f))
      <4>1. PICK n \in Nat, m \in Nat : n = Len(f) /\ m = Len(c.data)
        BY <1>1, <1>3
      <4>2. i \in Nat /\ i <= n + m /\ i > n
        BY <1>2, <3>2, <4>1
      <4>3. i - n \in 1 .. m
        BY <4>1, <4>2
      <4>4. g[i] = c.data[i - n]
        BY <1>2, <3>2, <4>1
      <4>5. c \in {c}
        OBVIOUS
      <4>6. QED
        BY <4>1, <4>3, <4>4, <4>5, ContentIs
    <3>3. QED
      BY <3>1, <3>2
  <2>2. ASSUME NEW i \in 1 .. Len(f)
        PROVE  f[i] \in File(g)
    <3>1. PICK n \in Nat, m \in Nat : n = Len(f) /\ m = Len(c.data)
      BY <1>1, <1>3
    <3>2. Len(g) = n + m /\ i \in 1 .. n
      BY <1>2, <3>1
    <3>3. i \in 1 .. Len(g) /\ i <= n
      BY <3>2
    <3>4. g[i] = f[i]
      BY <1>2, <3>1, <3>3
    <3>5. QED
      BY <3>3, <3>4 DEF File
  <2>3. ASSUME NEW i \in 1 .. Len(c.data)
        PROVE  c.data[i] \in File(g)
    <3>1. PICK n \in Nat, m \in Nat : n = Len(f) /\ m = Len(c.data)
      BY <1>1, <1>3
    <3>2. i \in Nat /\ 1 <= i /\ i <= m /\ Len(g) = n + m
      BY <1>2, <3>1
    <3>3. n + i \in 1 .. Len(g) /\ ~(n + i <= n) /\ n + i - n = i
      BY <3>1, <3>2
    <3>4. g[n + i] = c.data[i]
      BY <1>2, <3>1, <3>3
    <3>5. QED
      BY <3>3, <3>4 DEF File
  <2>4. \A b : b \in Content({c}) <=> \E i \in 1 .. Len(c.data) : b = c.data[i]
    BY ContentIs
  <2>5. File(g) \subseteq File(f) \cup Content({c})
    BY <2>1 DEF File
  <2>6. File(f) \subseteq File(g)
    BY <2>2 DEF File
  <2>7. Content({c}) \subseteq File(g)
    <3>1. ASSUME NEW b \in Content({c})
          PROVE  b \in File(g)
      <4>1. PICK i \in 1 .. Len(c.data) : b = c.data[i]
        BY <2>4
      <4>2. QED
        BY <2>3, <4>1
    <3>2. QED
      BY <3>1
  <2>8. QED
    BY <2>5, <2>6, <2>7
<1>8. g # <<>> /\ g[1][2] = base
  <2>1. 1 \in 1 .. Len(g)
    BY <1>2, <1>4
  <2>2. g[1] = <<d[base + 1], base + 1 - 1>>
    BY <1>5, <2>1
  <2>3. QED
    BY <1>4, <2>2
<1>9. QED
  BY <1>2, <1>4, <1>6, <1>7, <1>8 DEF Appended

(* What a pull's step makes of a session's mirror and records when a chunk   *)
(* is appended to the file.                                                  *)
LEMMA GoodFetchData ==
  ASSUME Basics, DataRules, pc = "fetch", pc' \in {"fetch", "finish"},
         UNCHANGED <<store, saved, mishaps>>, SameRow, run'.listed = run.listed,
         mirror' = [mirror EXCEPT ![Session] = @ \o Next1.data],
         run'.todo = run.todo \ {Next1}, run'.written,
         pc' = "finish" => run.todo = {Next1}
  PROVE  DataRules'
<1> DEFINE c == Next1
           f == mirror[Session]
           g == f \o c.data
           L == run.listed
<1>1. /\ Working /\ Writing /\ Working' /\ Writing' /\ pc # "idle" /\ pc' # "idle"
      /\ ListedRules /\ WritingRules
  <2>1. /\ Working /\ Writing /\ Working' /\ Writing' /\ pc # "idle" /\ pc' # "idle"
    BY DEF Working, Writing
  <2>2. QED
    BY <2>1 DEF DataRules
<1>2. /\ Base \in Nat /\ (\A e \in L : Base <= e.off)
      /\ f \in Seq(Nat \X Nat) /\ Session \in Sessions
  BY <1>1, BaseIs
<1>3. Session' = Session /\ Record' = Record /\ Base' = Base
  BY <1>1, RowStays DEF Base
<1>4. c \in run.todo /\ c \in L /\ c.off = Base + Len(f) /\ WellFormed(c)
  BY Next1Is DEF Have
<1>5. PICK d \in past[Session] : (\A e \in L : OfDocument(e, d)) /\ FileOf(f, Base, d)
  BY <1>1 DEF ListedRules
<1>6. d \in Transcripts
  BY <1>2 DEF Basics, StoreTypes
<1> HIDE DEF c, f
<1>7. /\ FileOf(g, Base, d) /\ Base + Len(g) = c.end
      /\ File(g) = File(f) \cup Content({c})
      /\ g # <<>> /\ g \in Seq(Nat \X Nat) /\ g[1][2] = Base
  <2>1. Appends(f, c, g, Base, d)
    BY <1>2, <1>4, <1>5 DEF Appends
  <2> HIDE DEF g
  <2>2. Appended(f, c, g, Base, d)
    BY <2>1, Extended
  <2>3. QED
    BY <2>2 DEF Appended
<1> HIDE DEF g
<1>8. \A s \in Sessions : mirror'[s] = IF s = Session THEN g ELSE mirror[s]
  BY DEF f, c, g, Basics, PullTypes
<1>9. Content({c}) \subseteq Content(L)
  BY <1>4, ContentGrows
<1>10. UNCHANGED <<doc, past, start, row, chunks>>
  BY DEF store
<1>11. \A X : NoNewer(X, File(f)) /\ NoNewer(X, Content(L)) => NoNewer(X, File(g))
  BY <1>7, <1>9 DEF NoNewer
<1>12. SessionData(Session)
  BY <1>2 DEF DataRules
<1>13. MirrorRules(Session)'
  <2>1. NoNewer(File(g), Transcript(doc[Session]))
    BY <1>1, <1>7, <1>9, <1>12 DEF SessionData, MirrorRules, ListedRules, NoNewer, f
  <2>2. "moved" \notin mishaps => g[1][2] = start[Session]
    BY <1>1, <1>7 DEF ListedRules
  <2>3. \E e \in past[Session] : FileOf(g, g[1][2], e)
    BY <1>7
  <2>4. QED
    BY <1>2, <1>3, <1>8, <1>10, <2>1, <2>2, <2>3 DEF MirrorRules
<1>14. \A record \in {saved.records[Session], run.records[Session]} : StillRecorded(record, Session)
  <2>1. SUFFICES ASSUME NEW record \in {saved.records[Session], run.records[Session]}
                 PROVE  StillRecorded(record, Session)
    OBVIOUS
  <2>2. RecordRules(record, Session)
    BY <1>12 DEF SessionData
  <2>3. NoNewer(Content(record.generation), Content(L))
    BY <1>1 DEF ListedRules, Record
  <2>4. NoNewer(Content(record.generation), File(g))
    BY <1>11, <2>2, <2>3 DEF RecordRules, f
  <2>5. \A e \in record.generation : FromStore(e, Session)'
    BY <1>3, <1>10, <2>2 DEF RecordRules, FromStore, Live
  <2>6. mirror'[Session] = g
    BY <1>2, <1>8
  <2>7. QED
    BY <1>10, <2>2, <2>4, <2>5, <2>6 DEF StillRecorded, RecordRules
<1>15. ASSUME NEW s \in Sessions
       PROVE  SessionData(s)'
  <2>1. CASE s # Session
    <3>1. Kept(s) /\ run'.records[s] = run.records[s]
      BY <1>8, <2>1 DEF Kept, SameRow
    <3>2. QED
      BY <1>1, <2>1, <3>1, SessionKept
  <2>2. CASE s = Session
    <3>1. SyncRules(s)'
      BY <1>1, <1>3, <2>2 DEF SyncRules
    <3>2. run'.records = run.records /\ saved' = saved
      BY DEF SameRow
    <3>3. MirrorRules(s)'
      BY <1>3, <1>13, <2>2 DEF MirrorRules
    <3>4. StillRecorded(saved'.records[s], s) /\ StillRecorded(run'.records[s], s)
      BY <1>14, <2>2, <3>2
    <3>5. QED
      BY <3>1, <3>3, <3>4, SessionAfter
  <2>3. QED
    BY <2>1, <2>2
<1>16. ListedRules'
  <2>1. mirror'[Session] = g
    BY <1>2, <1>8
  <2>2. NoNewer(File(g), Content(L))
    <3>1. File(g) \subseteq Transcript(d)
      BY <1>2, <1>7, FileOfDocument
    <3>2. \A e \in L : WellFormed(e) /\ OfDocument(e, d)
      BY <1>1, <1>5 DEF ListedRules, FromStore
    <3>3. Content(L) \subseteq Transcript(d)
      BY <3>2, ContentOfDocument
    <3>4. QED
      BY <1>6, <3>1, <3>3, SameDocument
  <2>3. \A e \in L : FromStore(e, Session)'
    BY <1>1, <1>3, <1>10 DEF ListedRules, FromStore, Live
  <2>4. \E e \in past[Session] : (\A b \in L : OfDocument(b, e)) /\ FileOf(g, Base, e)
    BY <1>5, <1>7
  <2>5. /\ \A b, e \in L : Apart(b, e)
        /\ NoNewer(Content(L), Transcript(doc[Session]))
        /\ NoNewer(Content(saved.records[Session].generation), Content(L))
        /\ NoNewer(Content(Record.generation), Content(L))
        /\ "moved" \notin mishaps => Base = start[Session]
        /\ \A b \in Record.generation, e \in L : (b.gen = e.gen /\ b.gen # 0) => Apart(b, e)
    BY <1>1 DEF ListedRules
  <2>6. QED
    BY <1>3, <1>10, <2>1, <2>2, <2>3, <2>4, <2>5 DEF ListedRules
<1>17. WritingRules'
  <2>1. mirror'[Session] = g
    BY <1>2, <1>8
  <2>2. Have' = c.end /\ Have = c.off
    BY <1>3, <1>4, <1>7, <2>1 DEF Have, f
  <2>3. \A e \in L : e.off \in Nat /\ e.end \in Nat /\ e.off < e.end
    BY <1>1, WellFormedIs DEF ListedRules, FromStore
  <2>4. \A e \in L : e = c \/ e.end <= c.off \/ c.end <= e.off
    BY <1>1, <1>4 DEF ListedRules, Apart
  <2>5. Covered(L, Base, c.end)
    <3>1. Covered(L, Base, c.off)
      BY <1>1, <2>2 DEF WritingRules
    <3>2. ASSUME NEW p \in Base .. c.end - 1
          PROVE  \E e \in L : e.off <= p /\ p < e.end
      <4>1. p \in Int /\ Base <= p /\ p < c.end /\ c.off \in Nat /\ c.end \in Nat
        BY <1>2, <1>4, <2>3
      <4>2. CASE p < c.off
        <5>1. p \in Base .. c.off - 1
          BY <1>2, <4>1, <4>2
        <5>2. QED
          BY <3>1, <5>1 DEF Covered
      <4>3. CASE ~(p < c.off)
        BY <1>4, <4>1, <4>3
      <4>4. QED
        BY <4>2, <4>3
    <3>3. \A e \in L : e.end <= c.end \/ c.end <= e.off
      BY <1>4, <2>3, <2>4
    <3>4. QED
      BY <3>2, <3>3 DEF Covered
  <2>6. run.todo = {e \in L : c.off < e.end}
    BY <1>1, <2>2 DEF WritingRules
  <2>7. run.todo \ {c} = {e \in L : c.end < e.end}
    <3>1. \A e \in L : c.end < e.end <=> c.off < e.end /\ e # c
      BY <1>4, <2>3, <2>4
    <3>2. QED
      BY <2>6, <3>1
  <2>8. ASSUME NEW e \in run.todo \ {c}
        PROVE  e.off = c.end \/ \E b \in run.todo \ {c} : b.end = e.off
    <3>1. e \in L /\ c.end < e.end
      BY <2>7
    <3>2. e.off = c.off \/ \E b \in run.todo : b.end = e.off
      BY <1>1, <2>2 DEF WritingRules
    <3>3. e.off # c.off
      BY <1>4, <2>3, <2>4, <3>1
    <3>4. PICK b \in run.todo : b.end = e.off
      BY <3>2, <3>3
    <3>5. QED
      BY <3>4
  <2>9. run'.todo = run.todo \ {c}
    BY DEF c
  <2>10. pc' = "finish" => run'.todo = {}
    OBVIOUS
  <2>11. QED
    BY <1>3, <1>7, <2>1, <2>2, <2>5, <2>7, <2>8, <2>9, <2>10 DEF WritingRules
<1>18. QED
  BY <1>15, <1>16, <1>17 DEF DataRules

(* A fetch that fails, for whatever reason.                                  *)
LEMMA BrokenData ==
  ASSUME Basics, DataRules, pc = "fetch", pc' = "finish",
         UNCHANGED <<store, mirror, saved, mishaps>>, SameRow, run'.listed = run.listed,
         run'.todo = run.todo, run'.written = run.written, run'.broken
  PROVE  DataRules'
<1>1. /\ Working /\ Writing /\ \A s \in Sessions : Kept(s)
  BY DEF Working, Writing, Kept
<1>2. Session \in Sessions /\ ListedRules /\ WritingRules
  BY <1>1, RowIsListed DEF DataRules
<1>3. \A s \in Sessions : SessionData(s)'
  BY <1>1, WithinData
<1>4. ListedRules' /\ Base' = Base /\ Session' = Session
  <2>1. \E d \in past[Session] :
          (\A c \in run.listed : OfDocument(c, d)) /\ FileOf(mirror'[Session], Base, d)
    BY <1>1, <1>2 DEF ListedRules
  <2>2. QED
    BY <1>1, <1>2, <2>1, ListedKept
<1>5. Have' = Have
  BY <1>4 DEF Have
<1>6. WritingRules'
  BY <1>2, <1>4, <1>5 DEF WritingRules
<1>7. QED
  BY <1>3, <1>4, <1>6 DEF DataRules

LEMMA FetchData ==
  ASSUME Basics, DataRules, Fetch
  PROVE  DataRules'
<1>1. CASE run'.written /\ Good /\ mirror' = [mirror EXCEPT ![Session] = @ \o Next1.data]
           /\ run'.todo = run.todo \ {Next1}
           /\ pc' = IF run.todo = {Next1} THEN "finish" ELSE "fetch"
  BY <1>1, FetchDoes, GoodFetchData
<1>2. CASE UNCHANGED mirror /\ run'.todo = run.todo /\ run'.written = run.written
           /\ run'.broken /\ pc' = "finish"
  BY <1>2, FetchDoes, BrokenData
<1>3. QED
  BY <1>1, <1>2, FetchDoes

LEMMA RequestFailsData ==
  ASSUME Basics, DataRules, RequestFails
  PROVE  DataRules'
<1>1. UNCHANGED <<store, mirror, saved, mishaps>> /\ \A s \in Sessions : Kept(s)
  BY RequestFailsIs DEF Kept
<1>2. CASE pc \in {"session", "probe", "key"} /\ Conclude("failed", Record)
  <2>1. (Working \/ pc = "session") /\ ~run.written
    BY <1>2 DEF Working, Writing, Basics, RunRules
  <2>2. QED
    BY <1>1, <1>2, <2>1, ConcludeSame
<1>3. CASE /\ pc = "fetch" /\ pc' = "finish" /\ SameRow /\ run'.listed = run.listed
           /\ run'.todo = run.todo /\ run'.written = run.written /\ run'.broken
  BY <1>1, <1>3, BrokenData
<1>4. QED
  BY <1>2, <1>3, RequestFailsIs

LEMMA FinishData ==
  ASSUME Basics, DataRules, Finish
  PROVE  DataRules'
<1>1. pc = "finish" /\ UNCHANGED <<store, mirror, saved>>
  BY FinishIs
<1>2. Working /\ Writing /\ \A s \in Sessions : Kept(s)
  BY <1>1 DEF Working, Writing, Kept
<1>3. ListedRules /\ WritingRules /\ Session \in Sessions
  BY <1>2, RowIsListed DEF DataRules
<1>4. CASE Conclude("failed", Record) /\ (~run.written \/ "alarmed" \in mishaps')
           /\ mishaps \subseteq mishaps'
  BY <1>1, <1>2, <1>4, ConcludeSame
<1>5. CASE /\ run.written /\ UNCHANGED mishaps
           /\ Conclude(IF run.broken THEN "failed" ELSE "ok", RecordOf(mirror[Session]))
  <2>1. PICK d \in past[Session] : (\A c \in run.listed : OfDocument(c, d))
                                   /\ FileOf(mirror[Session], Base, d)
    BY <1>2, <1>3 DEF ListedRules
  <2>2. mirror[Session] # <<>> /\ Covered(run.listed, Base, Base + Len(mirror[Session]))
    BY <1>3, <1>5 DEF WritingRules, Have
  <2>3. /\ RecordOf(mirror[Session]) \in RecordType
        /\ RecordRules(RecordOf(mirror[Session]), Session)
        /\ InSync(RecordOf(mirror[Session]), Session)
    BY <1>2, <2>1, <2>2, RecordOfIs
  <2>4. QED
    BY <1>1, <1>2, <1>5, <2>3, ConcludeData
<1>6. QED
  BY <1>4, <1>5, FinishIs

(* Steps between rows only move records from one place to another.           *)
LEMMA BetweenData ==
  ASSUME Basics, DataRules, UNCHANGED <<store, mirror>>, mishaps \subseteq mishaps', ~Working',
         \A s \in Sessions : saved'.records[s] \in {saved.records[s], run.records[s], NoRecord},
         \A s \in Sessions : run'.records[s] \in {saved.records[s], run.records[s], NoRecord},
         \A s \in Sessions : SyncRules(s)'
  PROVE  DataRules'
<1>1. ~Writing'
  BY DEF Working, Writing
<1>2. ASSUME NEW s \in Sessions
      PROVE  SessionData(s)'
  <2>1. SessionData(s) /\ Kept(s)
    BY DEF DataRules, Kept
  <2>2. MirrorRules(s)'
    BY <2>1, MirrorKept
  <2>3. ASSUME NEW record \in {saved.records[s], run.records[s], NoRecord}
        PROVE  StillRecorded(record, s)
    BY <2>1, EmptyRecord, RecordKept DEF SessionData
  <2>4. QED
    BY <2>2, <2>3, SessionAfter
<1>3. QED
  BY <1>1, <1>2 DEF DataRules

LEMMA ListData ==
  ASSUME Basics, DataRules, NEW legacy, List(legacy)
  PROVE  DataRules'
<1>1. /\ pc = "idle" /\ pc' = "wraps" /\ UNCHANGED <<store, mirror, saved, mishaps>>
      /\ run' = [NoRun EXCEPT !.rows = Listing(saved.cursor), !.legacy = legacy,
                              !.records = saved.records]
  BY DEF List, Goto
<1>2. run'.records = saved.records
  BY <1>1, NoRunTyped DEF RunType
<1>3. \A s \in Sessions : SyncRules(s)'
  BY <1>1, <1>2 DEF DataRules, SessionData, SyncRules, InSync
<1>4. ~Working'
  BY <1>1 DEF Working
<1>5. QED
  BY <1>1, <1>2, <1>3, <1>4, BetweenData

LEMMA FetchWrapsData ==
  ASSUME Basics, DataRules, FetchWraps
  PROVE  DataRules'
<1>1. /\ pc = "wraps" /\ pc' \in {"save", "session"} /\ UNCHANGED <<store, mirror, saved, mishaps>>
      /\ run' = [run EXCEPT !.held = {s \in Sessions : Live(s) /\ wrap[s] # 0}]
  BY DEF FetchWraps, FetchWrapsThen, Goto
<1>2. run'.records = run.records /\ ~run.written
  BY <1>1 DEF Basics, PullTypes, RunType, RunRules, Writing
<1>3. \A s \in Sessions : SyncRules(s)'
  BY <1>1, <1>2 DEF DataRules, SessionData, SyncRules, InSync
<1>4. ~Working'
  BY <1>1 DEF Working
<1>5. QED
  BY <1>1, <1>2, <1>3, <1>4, BetweenData

LEMMA SaveData ==
  ASSUME Basics, DataRules, Save
  PROVE  DataRules'
<1>1. /\ pc = "save" /\ pc' = "idle" /\ UNCHANGED <<store, mirror, mishaps>>
      /\ run' = NoRun /\ saved'.records = run.records
  BY DEF Save, Goto
<1>2. ~run.written /\ \A s \in Sessions : run'.records[s] = NoRecord
  BY <1>1, NoRunTyped DEF Basics, RunRules, Writing
<1>3. \A s \in Sessions : SyncRules(s)'
  BY <1>1, <1>2 DEF DataRules, SessionData, SyncRules, InSync
<1>4. ~Working'
  BY <1>1 DEF Working
<1>5. QED
  BY <1>1, <1>2, <1>3, <1>4, BetweenData

LEMMA EndEarlyData ==
  ASSUME Basics, DataRules, EndEarly
  PROVE  DataRules'
<1>1. /\ pc' = "idle" /\ UNCHANGED <<store, mirror, saved>> /\ run' = NoRun
      /\ mishaps' = mishaps \cup {"ended"}
  BY DEF EndEarly, Goto, Suffers
<1>2. \A s \in Sessions : run'.records[s] = NoRecord
  BY <1>1, NoRunTyped
<1>3. \A s \in Sessions : SyncRules(s)'
  BY <1>1 DEF SyncRules
<1>4. ~Working'
  BY <1>1 DEF Working
<1>5. QED
  BY <1>1, <1>2, <1>3, <1>4, BetweenData

LEMMA LoseStateData ==
  ASSUME Basics, DataRules, LoseState
  PROVE  DataRules'
<1>1. /\ pc = "idle" /\ UNCHANGED <<store, mirror, pc, run>> /\ saved' = NoState
      /\ mishaps' = mishaps \cup {"lost"}
  BY DEF LoseState, Suffers
<1>2. \A s \in Sessions : saved'.records[s] = NoRecord
  BY <1>1, NoRunTyped
<1>3. \A s \in Sessions : SyncRules(s)'
  BY <1>1, <1>2, EmptyRecord DEF SyncRules, InSync, NoRecord
<1>4. ~Working'
  BY <1>1 DEF Working
<1>5. QED
  BY <1>1, <1>2, <1>3, <1>4, BetweenData

LEMMA InitData ==
  ASSUME Init
  PROVE  DataRules
<1>1. /\ \A s \in Sessions : mirror[s] = <<>> /\ saved.records[s] = NoRecord
                             /\ run.records[s] = NoRecord
      /\ pc = "idle"
  BY NoRunTyped DEF Init
<1>2. ~Working /\ ~Writing
  BY <1>1 DEF Working, Writing
<1>3. File(<<>>) = {}
  BY DEF File
<1>4. ASSUME NEW s \in Sessions
      PROVE  SessionData(s)
  <2>1. MirrorRules(s)
    BY <1>1, <1>3 DEF MirrorRules, NoNewer
  <2>2. QED
    BY <1>1, <2>1, EmptyRecord DEF SessionData, SyncRules
<1>5. QED
  BY <1>2, <1>4 DEF DataRules

(* What happened once has happened.                                          *)
LEMMA MishapsStay ==
  ASSUME [Next]_vars
  PROVE  mishaps \subseteq mishaps'
<1>1. CASE StoreStep \/ \E s \in Sessions : Upload(s)
  BY <1>1 DEF StoreStep, Upload, Suffers
<1>2. CASE PullStep
  BY <1>2 DEF PullStep, FetchWraps, FetchWrapsThen, Skip, ListChunks, ProbeGeneration,
     ResolveKey, Compare, Fetch, Finish, Save, Suffers
<1>3. CASE ~PullStep /\ ~StoreStep /\ ~\E s \in Sessions : Upload(s)
  BY <1>3 DEF Next, List, RequestFails, EndEarly, LoseState, Suffers, vars
<1>4. QED
  BY <1>1, <1>2, <1>3

LEMMA NextData ==
  ASSUME Basics, Basics', AllStored, Misplaced \/ DataRules, [Next]_vars
  PROVE  (Misplaced \/ DataRules)'
<1>1. CASE Misplaced
  BY <1>1, MishapsStay DEF Misplaced
<1>2. CASE ~Misplaced
  <2>1. DataRules
    BY <1>2
  <2>2. CASE StoreStep \/ \E s \in Sessions : Upload(s)
    BY <2>1, <2>2, StoreData
  <2>3. CASE PullStep
    BY <1>2, <2>1, <2>3, FetchWrapsData, SkipData, ListChunksData, ProbeData, ResolveKeyData,
       CompareData, FetchData, FinishData, SaveData DEF PullStep
  <2>4. CASE \E legacy \in Legacy : List(legacy)
    BY <2>1, <2>4, ListData
  <2>5. CASE RequestFails \/ EndEarly \/ LoseState
    BY <2>1, <2>5, RequestFailsData, EndEarlyData, LoseStateData
  <2>6. CASE UNCHANGED vars
    <3>1. /\ UNCHANGED <<store, mirror, saved, pc, run, mishaps>>
          /\ UNCHANGED <<doc, past, start, row, chunks>>
      BY <2>6 DEF vars, store, puller
    <3>2. Session' = Session /\ Record' = Record /\ Base' = Base /\ Have' = Have
      BY <3>1 DEF Session, Record, Row, Base, Have
    <3>3. (Working' <=> Working) /\ (Writing' <=> Writing)
      BY <3>1 DEF Working, Writing
    <3>4. ASSUME NEW s \in Sessions
          PROVE  SessionData(s)'
      <4>1. SessionData(s)
        BY <2>1 DEF DataRules
      <4>2. MirrorRules(s)' /\ SyncRules(s)'
        BY <3>1, <3>2, <4>1 DEF SessionData, MirrorRules, SyncRules, InSync
      <4>3. RecordRules(saved.records[s], s)' /\ RecordRules(run.records[s], s)'
        BY <3>1, <4>1 DEF SessionData, RecordRules, FromStore, Live
      <4>4. QED
        BY <4>2, <4>3 DEF SessionData
    <3>5. ListedRules => ListedRules'
      BY <3>1, <3>2, <3>3 DEF ListedRules, FromStore, Live
    <3>6. WritingRules => WritingRules'
      BY <3>1, <3>2 DEF WritingRules
    <3>7. QED
      BY <2>1, <3>3, <3>4, <3>5, <3>6 DEF DataRules
  <2>7. QED
    BY <2>2, <2>3, <2>4, <2>5, <2>6 DEF Next
<1>3. QED
  BY <1>1, <1>2

(* The rules above hold in every state, until a session that started over    *)
(* from another watermark meets a pull that left a file without a record.    *)
THEOREM DataAlways == Spec => [](AllStored /\ (Misplaced \/ DataRules))
<1>1. Init => AllStored /\ (Misplaced \/ DataRules)
  BY InitStored, InitData
<1>2. Basics /\ Basics' /\ (AllStored /\ (Misplaced \/ DataRules)) /\ [Next]_vars
        => (AllStored /\ (Misplaced \/ DataRules))'
  BY NextStored, NextData
<1>3. QED
  BY <1>1, <1>2, BasicsAlways, PTL DEF Spec

LEMMA DataIsOneDocument ==
  ASSUME Basics, Misplaced \/ DataRules
  PROVE  MirrorIsOneDocument
<1>1. SUFFICES ASSUME DataRules, NEW s \in Sessions, mirror[s] # <<>>
               PROVE  \E d \in past[s] : \A i \in DOMAIN mirror[s] :
                        LET at == mirror[s][1][2] + i
                        IN  at \in DOMAIN d /\ mirror[s][i] = <<d[at], at - 1>>
  BY DEF MirrorIsOneDocument
<1> DEFINE f == mirror[s]
<1>2. f \in Seq(Nat \X Nat) /\ Len(f) \in Nat
  BY DEF Basics, PullTypes
<1>3. PICK base \in Nat : base = f[1][2]
  <2>1. Len(f) > 0
    BY <1>1, <1>2
  <2>2. f[1] \in Nat \X Nat
    BY <1>2, <2>1
  <2>3. QED
    BY <2>2
<1>4. PICK d \in past[s] : FileOf(f, base, d)
  BY <1>1, <1>3 DEF DataRules, SessionData, MirrorRules
<1>5. d \in Transcripts
  BY DEF Basics, StoreTypes
<1>6. ASSUME NEW i \in 1 .. Len(f)
      PROVE  base + i \in DOMAIN d /\ f[i] = <<d[base + i], base + i - 1>>
  <2>1. i \in Nat
    BY <1>2
  <2>2. f[i] = <<d[base + i], base + i - 1>> /\ base + Len(f) <= MaxLength
    BY <1>4 DEF FileOf
  <2>3. MaxLength \in Nat /\ DOMAIN d = 1 .. MaxLength
    BY <1>5, PullConstants DEF Transcripts
  <2> HIDE DEF f
  <2>4. base + i \in 1 .. MaxLength
    <3>1. PICK n \in Nat : n = Len(f)
      BY <1>2
    <3>2. i \in 1 .. n /\ base + n <= MaxLength
      BY <2>1, <2>2, <3>1
    <3>3. QED
      BY <2>3, <3>2
  <2>5. QED
    BY <2>2, <2>3, <2>4
<1>7. ASSUME NEW i \in DOMAIN mirror[s]
      PROVE  LET at == mirror[s][1][2] + i
             IN  at \in DOMAIN d /\ mirror[s][i] = <<d[at], at - 1>>
  <2> DEFINE at == mirror[s][1][2] + i
  <2>1. i \in 1 .. Len(f) /\ i \in Nat
    BY <1>2
  <2>2. mirror[s][i] = f[i] /\ at = base + i
    BY <1>3, <2>1
  <2> HIDE DEF at, f
  <2>3. at \in DOMAIN d /\ mirror[s][i] = <<d[at], at - 1>>
    BY <1>6, <2>1, <2>2
  <2>4. QED
    BY <2>3 DEF at
<1>8. QED
  BY <1>7

(* pull.py: a file "that is the right length and a document that never       *)
(* existed" is what must not be.  However the steps of publishers, pulls and *)
(* troubles mix, the bytes on disk are consecutive bytes of one transcript   *)
(* the session had, until a file is misplaced.                               *)
THEOREM MirrorAlways == Spec => []MirrorIsOneDocument
  BY DataIsOneDocument, DataAlways, BasicsAlways, PTL

-----------------------------------------------------------------------------
(* A file that is the store's is extended                                    *)

(* The first byte of a chunk that is on disk.                                *)
LEMMA FirstOnDisk ==
  ASSUME NEW f \in Seq(Nat \X Nat), NEW base \in Nat, NEW off \in Nat, NEW end \in Nat, NEW data,
         base <= off, off < end, end <= base + Len(f), data = SubSeq(f, off - base + 1, end - base)
  PROVE  /\ off - base + 1 \in 1 .. Len(f) /\ data[1] = f[off - base + 1]
<1>1. PICK n \in Nat : n = Len(f)
  OBVIOUS
<1> DEFINE from == off - base + 1
           to == end - base
<1>2. from \in 1 .. n /\ to \in 1 .. n /\ from <= to
  BY <1>1
<1>3. from \in Nat /\ to \in Nat /\ 1 \in 1 .. to - from + 1
  BY <1>2
<1> HIDE DEF from, to
<1>4. \A k \in 1 .. to - from + 1 : SubSeq(f, from, to)[k] = f[from + k - 1]
  <2>1. \A a, b \in Int : \A k \in 1 .. b - a + 1 : SubSeq(f, a, b)[k] = f[a + k - 1]
    OBVIOUS
  <2>2. QED
    BY <1>3, <2>1
<1>5. SubSeq(f, from, to)[1] = f[from + 1 - 1]
  BY <1>3, <1>4
<1>6. from + 1 - 1 = from
  BY <1>3
<1>7. QED
  BY <1>1, <1>2, <1>5, <1>6 DEF from, to

LEMMA StillCorrectIsNotStale ==
  ASSUME Basics, DataRules, PinRules, pc = "compare", mishaps \cap {"ended", "alarmed"} = {},
         StillCorrect, Len(mirror[Session]) > 0
  PROVE  ~Stale(mirror[Session], Base)
<1> DEFINE L == run.listed
           f == mirror[Session]
           old == Record.generation
           end == Base + Len(f)
           prefix == PrefixFor(L, Base, end)
<1>1. Working /\ ListedRules /\ ~run.written
  <2>1. Working /\ ~Writing
    BY DEF Working, Writing
  <2>2. QED
    BY <2>1 DEF DataRules, Basics, RunRules
<1>2. /\ Base \in Nat /\ \A c \in L : Base <= c.off
      /\ f \in Seq(Nat \X Nat) /\ Len(f) \in Nat /\ Session \in Sessions
  BY <1>1, BaseIs
<1>3. SessionData(Session)
  BY <1>2 DEF DataRules
<1>4. end \in Nat
  BY <1>2
<1>5. /\ Record.enc /\ (\A c \in old : c.gen = run.gen)
      /\ prefix # {} /\ VerifyLocal(f, Base, prefix)
  BY DEF StillCorrect, OnDisk
<1>6. prefix = PrefixFor(L, Base, end)
  OBVIOUS
<1> HIDE DEF prefix
<1>7. \A c \in L : WellFormed(c) /\ c.off \in Nat /\ c.end \in Nat /\ c.off < c.end
  BY <1>1, WellFormedIs DEF ListedRules, FromStore
<1>8. /\ prefix \subseteq L
      /\ \A c \in prefix : Base <= c.off /\ c.end <= end
      /\ \A p \in Base .. end - 1 : \E c \in prefix : c.off <= p /\ p < c.end
  <2>1. (\A c \in L : WellFormed(c)) /\ prefix # {} /\ Base \in Nat
    BY <1>2, <1>5, <1>7
  <2> HIDE DEF end
  <2>2. QED
    BY <1>4, <1>6, <2>1, PrefixCovers
<1>9. old # {} /\ InSync(Record, Session)
  BY <1>1, <1>2, <1>3, <1>5 DEF SessionData, SyncRules, RecordRules, Record
<1>10. f[1][2] = Record.base /\ File(f) = Content(old)
  <2>1. f # <<>>
    BY <1>2
  <2>2. QED
    BY <1>9, <2>1 DEF InSync
<1>11. ASSUME NEW c \in prefix
       PROVE  /\ c.off - Base + 1 \in 1 .. Len(f) /\ c.data[1] = f[c.off - Base + 1]
              /\ c.data[1][2] = c.off /\ c.gen = run.gen
  <2>1. c.data = SubSeq(f, c.off - Base + 1, c.end - Base) /\ c.gen = run.gen
    BY <1>5 DEF VerifyLocal
  <2>2. PICK base \in Nat, off \in Nat, stop \in Nat :
          base = Base /\ off = c.off /\ stop = c.end
    BY <1>2, <1>7, <1>8
  <2>3. base <= off /\ off < stop /\ stop <= base + Len(f)
    BY <1>7, <1>8, <2>2
  <2>4. c.data = SubSeq(f, off - base + 1, stop - base)
    BY <2>1, <2>2
  <2> HIDE DEF f
  <2>5. off - base + 1 \in 1 .. Len(f) /\ c.data[1] = f[off - base + 1]
    BY <1>2, <2>3, <2>4, FirstOnDisk
  <2>6. c.data[1][2] = c.off + 1 - 1
    BY <1>7, <1>8 DEF WellFormed
  <2>7. c.off + 1 - 1 = c.off
    BY <1>7, <1>8
  <2>8. QED
    BY <2>1, <2>2, <2>5, <2>6, <2>7
<1>12. Record.base = Base
  <2>1. Base \in Base .. end - 1
    BY <1>2, <1>4
  <2>2. PICK c \in prefix : c.off <= Base /\ Base < c.end
    BY <1>8, <2>1
  <2>3. c.off = Base
    BY <1>2, <1>7, <1>8, <2>2
  <2>4. c.off - Base + 1 = 1
    BY <1>2, <2>3
  <2>5. QED
    BY <1>10, <1>11, <2>3, <2>4
<1>13. run.gen # 0
  BY <1>1, <1>5 DEF PinRules, KeyIsNoOlder
<1>14. ASSUME NEW e \in old, NEW c \in prefix
       PROVE  /\ Apart(e, c) /\ WellFormed(e)
              /\ e.off \in Nat /\ e.end \in Nat /\ e.off < e.end
              /\ c.off \in Nat /\ c.end \in Nat /\ c.off < c.end
  <2>1. FromStore(e, Session)
    BY <1>2, <1>3 DEF SessionData, RecordRules, Record
  <2>2. WellFormed(e)
    BY <2>1 DEF FromStore
  <2>3. Apart(e, c)
    BY <1>1, <1>5, <1>8, <1>11, <1>13 DEF ListedRules
  <2>4. QED
    BY <1>7, <1>8, <2>2, <2>3, WellFormedIs
<1>15. ASSUME NEW c \in prefix
       PROVE  c \in old
  <2>1. c.data[1] \in File(f) /\ c.data[1][2] = c.off
    BY <1>11 DEF File
  <2>2. PICK e \in old : \E k \in 1 .. Len(e.data) : c.data[1] = e.data[k]
    BY <1>10, <2>1, ContentIs
  <2>3. PICK k \in 1 .. Len(e.data) : c.data[1] = e.data[k]
    BY <2>2
  <2>4. /\ Apart(e, c) /\ WellFormed(e)
        /\ e.off \in Nat /\ e.end \in Nat /\ e.off < e.end
        /\ c.off \in Nat /\ c.end \in Nat /\ c.off < c.end
    BY <1>14
  <2>5. c.off = e.off + k - 1 /\ Len(e.data) = e.end - e.off
    BY <2>1, <2>3, <2>4 DEF WellFormed
  <2>6. e.off <= c.off /\ c.off < e.end
    <3>1. PICK off \in Nat, stop \in Nat : off = e.off /\ stop = e.end
      BY <2>4
    <3>2. k \in 1 .. stop - off /\ c.off = off + k - 1
      BY <2>5, <3>1
    <3>3. off <= c.off /\ c.off < stop
      BY <3>2
    <3>4. QED
      BY <3>1, <3>3
  <2>7. e = c
    BY <2>4, <2>6 DEF Apart
  <2>8. QED
    BY <2>7
<1>16. ASSUME NEW e \in old
       PROVE  e \in prefix
  <2>1. WellFormed(e) /\ e.off \in Nat /\ e.end \in Nat /\ e.off < e.end /\ Len(e.data) = e.end - e.off
    <3>1. FromStore(e, Session)
      BY <1>2, <1>3 DEF SessionData, RecordRules, Record
    <3>2. QED
      BY <3>1, WellFormedIs DEF FromStore
  <2>2. 1 \in 1 .. Len(e.data)
    BY <2>1
  <2>3. e.data[1] \in File(f)
    BY <1>10, <2>2, ContentIs
  <2>4. PICK i \in 1 .. Len(f) : e.data[1] = f[i]
    BY <2>3 DEF File
  <2>5. \E d : f[i] = <<d[Base + i], Base + i - 1>>
    <3>1. f # <<>>
      BY <1>2
    <3>2. QED
      BY <1>3, <1>10, <1>12, <3>1 DEF SessionData, MirrorRules, FileOf
  <2>6. e.data[1][2] = e.off + 1 - 1
    BY <2>1, <2>2 DEF WellFormed
  <2>7. e.off = Base + i - 1
    BY <2>1, <2>4, <2>5, <2>6
  <2>8. e.off \in Base .. end - 1
    BY <1>2, <2>7
  <2>9. PICK c \in prefix : c.off <= e.off /\ e.off < c.end
    BY <1>8, <2>8
  <2>10. /\ Apart(e, c) /\ c.off \in Nat /\ c.end \in Nat /\ c.off < c.end
    BY <1>14
  <2>11. e = c
    BY <2>1, <2>9, <2>10 DEF Apart
  <2>12. QED
    BY <2>11
<1>17. prefix = old
  BY <1>15, <1>16
<1>18. QED
  BY <1>5, <1>6, <1>9, <1>12, <1>17 DEF Stale

LEMMA StepResumes ==
  ASSUME Basics, Misplaced \/ DataRules, PinRules, [Next]_vars,
         mishaps \cap {"ended", "alarmed"} = {}
  PROVE  Resumes
<1>1. SUFFICES ASSUME pc = "compare", StillCorrect
               PROVE  mirror'[Session] = mirror[Session]
  BY DEF Resumes
<1>2. DataRules
  BY DEF Misplaced
<1>3. CASE Compare
  <2>1. mirror' = [mirror EXCEPT ![Session] = Left] /\ Session \in Sessions /\ Working
    <3>1. Working
      BY <1>1 DEF Working
    <3>2. QED
      BY <1>3, <3>1, CompareIs, RowIsListed
  <2>2. Left = mirror[Session]
    BY <1>1, <1>2, StillCorrectIsNotStale DEF Left
  <2>3. QED
    BY <2>1, <2>2 DEF Basics, PullTypes
<1>4. CASE ~Compare
  <2>1. mirror' = mirror
    BY <1>1, <1>4 DEF Next, PullStep, StoreStep, Upload, puller, vars, List, FetchWraps,
       FetchWrapsThen, Skip, ListChunks, ProbeGeneration, ResolveKey, Fetch, Finish, Save,
       RequestFails, EndEarly, LoseState
  <2>2. QED
    BY <2>1
<1>5. QED
  BY <1>3, <1>4

(* pull.py, _pull_one: a file whose bytes are those of the generation in the *)
(* store is extended and not deleted, whatever requests failed before; a     *)
(* pull that died, or that took growth for duplicated bytes, is excused.     *)
THEOREM ResumesAlways == Spec => ResumesUnlessEnded
<1>1. Basics /\ (Misplaced \/ DataRules) /\ PinRules /\ [Next]_vars
        => [Unless({"ended", "alarmed"}, Resumes)]_vars
  BY StepResumes DEF Unless
<1>2. Init => PinRules
  BY InitPin
<1>3. Basics /\ PinRules /\ [Next]_vars => PinRules'
  BY NextPin
<1>4. QED
  BY <1>1, <1>2, <1>3, BasicsAlways, DataAlways, PTL DEF Spec, ResumesUnlessEnded

-----------------------------------------------------------------------------
(* Sessions that are listed and sessions that will be                        *)

(* The next listing will hold it, wherever this pull leaves the cursor;      *)
Later(s) ==
    /\ \A r \in run.rows : r.updated <= row[s].updated
    /\ run.ok <= row[s].updated /\ run.failed <= row[s].updated
(* or this one does; or a failure holds the cursor back for it.              *)
Listed(s) == \E r \in run.rows : r.session = s
HeldBack(s) == run.failed # 0 /\ run.failed <= row[s].updated

SkipRules ==
    /\ NothingSkipped
    /\ \A r \in run.rows : r.updated <= row[r.session].updated
    /\ pc # "idle" => \A s \in Sessions : Behind(s) => Later(s) \/ Listed(s) \/ HeldBack(s)
    /\ Working => chunks[Session] \subseteq run.listed \/ Session \in claimed \/ Later(Session)

(* A page is the head of what there is: whatever is not on it comes after    *)
(* what is.                                                                  *)
LEMMA PageIsHead ==
  ASSUME NEW found, IsFiniteSet(found),
         \A q \in found : q.updated \in Nat /\ q.session \in Nat,
         NEW r \in found, Cardinality({q \in found : Before(q, r)}) < Page,
         NEW p \in found, ~(Cardinality({q \in found : Before(q, p)}) < Page)
  PROVE  r.updated <= p.updated
<1>1. SUFFICES ASSUME p.updated < r.updated
               PROVE  FALSE
  OBVIOUS
<1> DEFINE BeforeR == {q \in found : Before(q, r)}
           BeforeP == {q \in found : Before(q, p)}
<1>2. BeforeP \subseteq BeforeR
  BY <1>1 DEF Before
<1>3. BeforeR \subseteq found
  OBVIOUS
<1>4. Cardinality(BeforeR) < Page /\ ~(Cardinality(BeforeP) < Page)
  OBVIOUS
<1> HIDE DEF BeforeR, BeforeP
<1>5. IsFiniteSet(BeforeR)
  BY <1>3, FS_Subset
<1>6. IsFiniteSet(BeforeP) /\ Cardinality(BeforeP) <= Cardinality(BeforeR)
  BY <1>2, <1>5, FS_Subset
<1>7. Cardinality(BeforeP) \in Nat /\ Cardinality(BeforeR) \in Nat
  BY <1>5, <1>6, FS_CardinalityType
<1>8. Page \in Nat
  BY PullConstants
<1>9. QED
  BY <1>4, <1>6, <1>7, <1>8

(* listSessions: a session that is not listed changed no earlier than those  *)
(* that are.                                                                 *)
LEMMA ListingIsHead ==
  ASSUME StoreTypes, NEW cursor, NEW s \in Sessions, Live(s), row[s].updated >= cursor,
         \A r \in Listing(cursor) : r.session # s
  PROVE  \A r \in Listing(cursor) : r.updated <= row[s].updated
<1> DEFINE some == {t \in Sessions : Live(t) /\ row[t].updated >= cursor}
           read(t) == [session |-> t, enc |-> row[t].enc, gen |-> row[t].gen,
                       size |-> row[t].size, updated |-> row[t].updated]
           found == {read(t) : t \in some}
<1>1. Listing(cursor) = {r \in found : Cardinality({q \in found : Before(q, r)}) < Page}
  BY DEF Listing, PageOf
<1>2. IsFiniteSet(some)
  <2>1. IsFiniteSet(Sessions) /\ some \subseteq Sessions
    BY PullConstants
  <2>2. QED
    BY <2>1, FS_Subset
<1>3. IsFiniteSet(found)
  <2> DEFINE f == [t \in some |-> read(t)]
  <2>1. f \in Surjection(some, found)
    BY DEF Surjection
  <2> HIDE DEF f, found, some
  <2>2. QED
    BY <1>2, <2>1, FS_Surjection
<1>4. \A q \in found : q.updated \in Nat /\ q.session \in Nat
  <2>1. \A t \in some : read(t).updated = row[t].updated /\ read(t).session = t
    OBVIOUS
  <2>2. \A t \in some : row[t].updated \in Nat /\ t \in Nat
    BY PullConstants DEF StoreTypes, RowInStore
  <2> HIDE DEF read
  <2>3. QED
    BY <2>1, <2>2
<1>5. read(s) \in found /\ read(s).updated = row[s].updated /\ read(s).session = s
  OBVIOUS
<1>6. read(s) \notin Listing(cursor)
  BY <1>5
<1> DEFINE p == read(s)
<1>7. p \in found /\ p.updated = row[s].updated /\ p \notin Listing(cursor)
  BY <1>5, <1>6
<1> HIDE DEF p, read, found, some
<1>8. ~(Cardinality({q \in found : Before(q, p)}) < Page)
  BY <1>1, <1>7
<1>9. ASSUME NEW r \in Listing(cursor)
      PROVE  r.updated <= row[s].updated
  <2>1. r \in found /\ Cardinality({q \in found : Before(q, r)}) < Page
    BY <1>1
  <2>2. r.updated <= p.updated
    BY <1>3, <1>4, <1>7, <1>8, <2>1, PageIsHead
  <2>3. QED
    BY <1>7, <2>2
<1>10. QED
  BY <1>9

(* What a step of the store may do to a session, as long as no time it       *)
(* writes is old.                                                            *)
Untouched(s) ==
    /\ row'[s].updated = row[s].updated
    /\ (Live(s)' <=> Live(s)) /\ chunks'[s] = chunks[s] /\ (s \in claimed' <=> s \in claimed)

LEMMA StoreTouches ==
  ASSUME Basics, StoreStep \/ \E t \in Sessions : Upload(t), "late" \notin mishaps',
         NEW s \in Sessions
  PROVE  \/ Untouched(s)
         \/ row'[s].updated = now
         \/ s \in claimed' /\ row'[s].updated = row[s].updated
<1>1. CASE Tick \/ \E t \in Sessions : PutWraps(t) \/ ReadTime(t)
  <2>1. UNCHANGED <<row, chunks, claimed>>
    BY <1>1 DEF Tick, PutWraps, ReadTime
  <2>2. QED
    BY <2>1 DEF Untouched, Live
<1>2. ASSUME NEW t \in Sessions, NEW scheme \in Schemes, Register(t, scheme)
      PROVE  Untouched(s) \/ row'[s].updated = now
  <2>1. UNCHANGED <<chunks, claimed>>
    BY <1>2 DEF Register
  <2>2. (s # t => row'[s] = row[s]) /\ row'[t].updated = now
    BY <1>2, RegisterIs
  <2>3. QED
    BY <2>1, <2>2 DEF Untouched, Live
<1>3. ASSUME NEW t \in Sessions, NEW kept \in 0 .. MaxLength, NEW from \in {0, 1},
             DeleteSession(t, kept, from)
      PROVE  Untouched(s) \/ row'[s].updated = now
  <2>1. /\ claimed' = claimed /\ (s # t => row'[s] = row[s] /\ chunks'[s] = chunks[s])
    BY <1>3, DeletedIs
  <2>2. row'[t].updated = now
    BY <1>3 DEF DeleteSession, Basics, StoreTypes, RowInStore
  <2>3. QED
    BY <2>1, <2>2 DEF Untouched, Live
<1>4. ASSUME NEW t \in Sessions, PutChunk(t)
      PROVE  Untouched(s) \/ (s \in claimed' /\ row'[s].updated = row[s].updated)
  <2>1. /\ row' = row /\ claimed' = claimed \cup {t}
        /\ s # t => chunks'[s] = chunks[s]
    BY <1>4 DEF PutChunk, Basics, StoreTypes
  <2>2. QED
    BY <2>1 DEF Untouched, Live
<1>5. ASSUME NEW t \in Sessions, TouchSession(t), Suffers(IF stamp[t] < now THEN {"late"} ELSE {})
      PROVE  Untouched(s) \/ row'[s].updated = now
  <2>1. ~(stamp[t] < now)
    BY <1>5 DEF Suffers
  <2>2. stamp[t] \in Nat /\ stamp[t] <= now /\ now \in Nat
    BY DEF Basics, SessionRules, StoreTypes
  <2>3. stamp[t] = now
    BY <2>1, <2>2
  <2>4. /\ row'[t].updated = now /\ claimed' = claimed \ {t} /\ chunks' = chunks
        /\ s # t => row'[s] = row[s]
    BY <1>5, <2>3, TouchedIs
  <2>5. QED
    BY <2>4 DEF Untouched, Live
<1>6. QED
  BY <1>1, <1>2, <1>3, <1>4, <1>5 DEF StoreStep, Upload

LEMMA StoreSkips ==
  ASSUME Basics, SkipRules, StoreStep \/ \E t \in Sessions : Upload(t), "late" \notin mishaps'
  PROVE  SkipRules'
<1>1. UNCHANGED <<mirror, saved, pc, run>>
  BY DEF StoreStep, Upload, puller
<1>2. /\ now \in Nat /\ saved.cursor \in Nat /\ saved.cursor <= now /\ run.ok <= now
      /\ run.failed <= now /\ \A r \in run.rows : r.updated <= now /\ r.session \in Sessions
  BY DEF Basics, StoreTypes, PullTypes, RunRules
<1>3. \A s \in Sessions : \/ Untouched(s)
                          \/ row'[s].updated = now
                          \/ s \in claimed' /\ row'[s].updated = row[s].updated
  BY StoreTouches
<1>4. ASSUME NEW s \in Sessions, row'[s].updated = now
      PROVE  Later(s)'
  BY <1>1, <1>2, <1>4 DEF Later
<1>5. ASSUME NEW s \in Sessions, row'[s].updated = row[s].updated
      PROVE  /\ Later(s) => Later(s)'
             /\ Listed(s) => Listed(s)'
             /\ HeldBack(s) => HeldBack(s)'
  BY <1>1, <1>5 DEF Later, Listed, HeldBack
<1>6. ASSUME NEW s \in Sessions, Untouched(s)
      PROVE  Behind(s)' => Behind(s)
  BY <1>1, <1>6 DEF Untouched, Behind
<1>7. NothingSkipped'
  <2>1. SUFFICES ASSUME NEW s \in Sessions, Behind(s)'
                 PROVE  row'[s].updated >= saved.cursor
    BY <1>1 DEF NothingSkipped
  <2>2. s \notin claimed'
    BY <2>1 DEF Behind
  <2>3. CASE Untouched(s)
    BY <1>6, <2>1, <2>3 DEF SkipRules, NothingSkipped, Untouched
  <2>4. CASE row'[s].updated = now
    BY <1>2, <2>4
  <2>5. QED
    BY <1>3, <2>2, <2>3, <2>4
<1>8. \A r \in run'.rows : r.updated <= row'[r.session].updated
  BY <1>1, <1>2, <1>3 DEF SkipRules, Untouched
<1>9. ASSUME pc' # "idle", NEW s \in Sessions, Behind(s)'
      PROVE  (Later(s) \/ Listed(s) \/ HeldBack(s))'
  <2>1. s \notin claimed'
    BY <1>9 DEF Behind
  <2>2. CASE Untouched(s)
    <3>1. Later(s) \/ Listed(s) \/ HeldBack(s)
      BY <1>1, <1>6, <1>9, <2>2 DEF SkipRules
    <3>2. row'[s].updated = row[s].updated
      BY <2>2 DEF Untouched
    <3>3. QED
      BY <1>5, <3>1, <3>2
  <2>3. CASE row'[s].updated = now
    BY <1>4, <2>3
  <2>4. QED
    BY <1>3, <2>1, <2>2, <2>3
<1>10. ASSUME Working'
       PROVE  (chunks[Session] \subseteq run.listed \/ Session \in claimed \/ Later(Session))'
  <2>1. Working /\ Session' = Session
    BY <1>1, <1>10 DEF Working, Session, Row
  <2>2. Session \in Sessions
    BY <2>1, RowIsListed
  <2>3. PICK s \in Sessions : s = Session
    BY <2>2
  <2>4. chunks[s] \subseteq run.listed \/ s \in claimed \/ Later(s)
    BY <2>1, <2>3 DEF SkipRules
  <2>5. chunks'[s] \subseteq run'.listed \/ s \in claimed' \/ Later(s)'
    <3>1. CASE Untouched(s)
      <4>1. row'[s].updated = row[s].updated
        BY <3>1 DEF Untouched
      <4>2. Later(s) => Later(s)'
        BY <1>5, <4>1
      <4>3. QED
        BY <1>1, <2>4, <3>1, <4>2 DEF Untouched
    <3>2. CASE row'[s].updated = now
      BY <1>4, <3>2
    <3>3. QED
      BY <1>3, <3>1, <3>2
  <2>6. QED
    BY <2>1, <2>3, <2>5 DEF Later
<1>11. QED
  BY <1>7, <1>8, <1>9, <1>10 DEF SkipRules

LEMMA ListSkips ==
  ASSUME Basics, SkipRules, NEW legacy, List(legacy)
  PROVE  SkipRules'
<1>1. /\ pc = "idle" /\ pc' = "wraps" /\ UNCHANGED <<store, mirror, saved, mishaps>>
      /\ run' = [NoRun EXCEPT !.rows = Listing(saved.cursor), !.legacy = legacy,
                              !.records = saved.records]
      /\ UNCHANGED <<row, chunks, claimed>>
  BY DEF List, Goto, store
<1>2. run'.rows = Listing(saved.cursor) /\ run'.ok = 0 /\ run'.failed = 0
  BY <1>1, NoRunTyped DEF RunType
<1>3. ~Working'
  BY <1>1 DEF Working
<1>4. \A s \in Sessions : Behind(s)' <=> Behind(s)
  BY <1>1 DEF Behind, Live
<1>5. NothingSkipped'
  BY <1>1, <1>4 DEF SkipRules, NothingSkipped
<1>6. StoreTypes /\ \A s \in Sessions : row[s].updated \in Nat
  BY DEF Basics, StoreTypes, RowInStore
<1>7. \A r \in Listing(saved.cursor) : r.updated <= row[r.session].updated
  <2>1. \A r \in Listing(saved.cursor) : r.session \in Sessions /\ r.updated = row[r.session].updated
    BY <1>6, ListingIs
  <2>2. QED
    BY <1>6, <2>1
<1>8. ASSUME NEW s \in Sessions, Behind(s)
      PROVE  (Later(s) \/ Listed(s))'
  <2>1. Live(s) /\ row[s].updated >= saved.cursor
    BY <1>8 DEF Behind, SkipRules, NothingSkipped
  <2>2. CASE \E r \in Listing(saved.cursor) : r.session = s
    BY <1>2, <2>2 DEF Listed
  <2>3. CASE \A r \in Listing(saved.cursor) : r.session # s
    <3>1. \A r \in Listing(saved.cursor) : r.updated <= row[s].updated
      BY <1>6, <2>1, <2>3, ListingIsHead
    <3>2. QED
      BY <1>1, <1>2, <1>6, <3>1 DEF Later
  <2>4. QED
    BY <2>2, <2>3
<1>9. QED
  BY <1>1, <1>2, <1>3, <1>4, <1>5, <1>7, <1>8 DEF SkipRules

(* A step within a row: that session is listed.                              *)
LEMMA WithinSkips ==
  ASSUME Basics, SkipRules, Working \/ pc = "session", UNCHANGED <<store, saved>>, SameRow,
         \A s \in Sessions : s # Session => mirror'[s] = mirror[s],
         Working' => chunks[Session] \subseteq run'.listed \/ Session \in claimed \/ Later(Session)
  PROVE  SkipRules'
<1>1. Session' = Session /\ Row \in run.rows /\ Session \in Sessions /\ pc # "idle"
  BY RowStays, RowIsListed DEF Working
<1>2. UNCHANGED <<row, chunks, claimed>>
  BY DEF store
<1>3. run'.rows = run.rows /\ run'.ok = run.ok /\ run'.failed = run.failed
  BY DEF SameRow
<1>4. \A s \in Sessions : s # Session => (Behind(s)' => Behind(s))
  BY <1>2 DEF Behind, Live
<1>5. row[Session].updated >= saved.cursor
  <2>1. Row.updated <= row[Session].updated /\ saved.cursor <= Row.updated
    BY <1>1 DEF SkipRules, Session, Basics, RunRules
  <2>2. Row.updated \in Nat /\ row[Session].updated \in Nat /\ saved.cursor \in Nat
    BY <1>1 DEF Basics, PullTypes, RunType, RowRead, StoreTypes, RowInStore
  <2>3. QED
    BY <2>1, <2>2
<1>6. NothingSkipped'
  <2>1. ASSUME NEW s \in Sessions, Behind(s)'
        PROVE  row[s].updated >= saved.cursor
    <3>1. CASE s = Session
      BY <1>5, <3>1
    <3>2. CASE s # Session
      BY <1>4, <2>1, <3>2 DEF SkipRules, NothingSkipped
    <3>3. QED
      BY <3>1, <3>2
  <2>2. QED
    BY <1>2, <2>1 DEF NothingSkipped
<1>7. ASSUME NEW s \in Sessions
      PROVE  /\ Later(s)' <=> Later(s)
             /\ Listed(s)' <=> Listed(s)
             /\ HeldBack(s)' <=> HeldBack(s)
  BY <1>2, <1>3 DEF Later, Listed, HeldBack
<1>8. ASSUME NEW s \in Sessions, Behind(s)'
      PROVE  (Later(s) \/ Listed(s) \/ HeldBack(s))'
  <2>1. CASE s = Session
    <3>1. Listed(s)
      BY <1>1, <2>1 DEF Listed, Session
    <3>2. QED
      BY <1>7, <3>1
  <2>2. CASE s # Session
    BY <1>1, <1>4, <1>7, <1>8, <2>2 DEF SkipRules
  <2>3. QED
    BY <2>1, <2>2
<1>9. \A r \in run'.rows : r.updated <= row'[r.session].updated
  BY <1>2, <1>3 DEF SkipRules
<1>10. Later(Session) => Later(Session)'
  BY <1>1, <1>2, <1>3 DEF Later
<1>11. Working' => (chunks[Session] \subseteq run.listed \/ Session \in claimed \/ Later(Session))'
  BY <1>1, <1>2, <1>10
<1>12. QED
  BY <1>6, <1>8, <1>9, <1>11 DEF SkipRules

(* A row that is concluded: its session is not lacking anything, or it will  *)
(* be listed again, or it holds back the cursor.                             *)
LEMMA ConcludeSkips ==
  ASSUME Basics, SkipRules, Working \/ pc = "session", UNCHANGED <<store, saved>>,
         NEW s0 \in Sessions, s0 = Session,
         \A s \in Sessions : s # s0 => mirror'[s] = mirror[s],
         NEW outcome \in {"ok", "failed"}, NEW record \in RecordType, Conclude(outcome, record),
         outcome = "ok" => ~Behind(s0)' \/ Later(s0)
  PROVE  SkipRules'
<1>1. /\ Row \in run.rows /\ Row.session = s0 /\ pc # "idle"
      /\ run'.rows = run.rows \ {Row} /\ ~Working'
  BY RowIsListed, Concluded DEF Working, Session
<1>2. UNCHANGED <<row, chunks, claimed>>
  BY DEF store
<1>3. /\ run'.ok = (IF outcome = "ok" THEN Most(run.ok, Row.updated) ELSE run.ok)
      /\ run'.failed = IF outcome # "failed" THEN run.failed
                       ELSE IF run.failed = 0 THEN Row.updated
                            ELSE Least(run.failed, Row.updated)
  BY Concluded
<1>4. /\ Row.updated \in Nat /\ 1 <= Row.updated /\ Row.updated <= row[s0].updated
      /\ saved.cursor <= Row.updated /\ saved.cursor \in Nat
      /\ run.ok \in Nat /\ run.failed \in Nat
      /\ \A s \in Sessions : row[s].updated \in Nat
  BY <1>1 DEF SkipRules, Basics, RunRules, PullTypes, RunType, RowRead, StoreTypes, RowInStore
<1>5. \A s \in Sessions : s # s0 => (Behind(s)' => Behind(s))
  BY <1>2 DEF Behind, Live
<1>6. NothingSkipped'
  <2>1. ASSUME NEW s \in Sessions, Behind(s)'
        PROVE  row[s].updated >= saved.cursor
    <3>1. CASE s = s0
      BY <1>4, <3>1
    <3>2. CASE s # s0
      BY <1>5, <2>1, <3>2 DEF SkipRules, NothingSkipped
    <3>3. QED
      BY <3>1, <3>2
  <2>2. QED
    BY <1>2, <2>1 DEF NothingSkipped
<1>7. ASSUME NEW s \in Sessions, Later(s)
      PROVE  Later(s)'
  <2>1. Row.updated <= row[s].updated /\ run.ok <= row[s].updated /\ run.failed <= row[s].updated
    BY <1>1, <1>7 DEF Later
  <2>2. run'.ok <= row[s].updated /\ run'.failed <= row[s].updated
    BY <1>3, <2>1 DEF Most, Least
  <2>3. QED
    BY <1>1, <1>2, <1>7, <2>2 DEF Later
<1>8. ASSUME NEW s \in Sessions, HeldBack(s)
      PROVE  HeldBack(s)'
  <2>1. run.failed # 0 /\ run.failed <= row[s].updated
    BY <1>8 DEF HeldBack
  <2>2. run'.failed # 0 /\ run'.failed <= row[s].updated
    BY <1>3, <1>4, <2>1 DEF Least
  <2>3. QED
    BY <1>2, <2>2 DEF HeldBack
<1>9. outcome = "failed" => HeldBack(s0)'
  BY <1>2, <1>3, <1>4 DEF HeldBack, Least
<1>10. ASSUME NEW s \in Sessions, s # s0, Listed(s)
       PROVE  Listed(s)'
  BY <1>1, <1>10 DEF Listed
<1>11. ASSUME NEW s \in Sessions, Behind(s)'
       PROVE  (Later(s) \/ Listed(s) \/ HeldBack(s))'
  <2>1. CASE s = s0
    BY <1>7, <1>9, <1>11, <2>1
  <2>2. CASE s # s0
    <3>1. Later(s) \/ Listed(s) \/ HeldBack(s)
      BY <1>1, <1>5, <1>11, <2>2 DEF SkipRules
    <3>2. QED
      BY <1>7, <1>8, <1>10, <2>2, <3>1
  <2>3. QED
    BY <2>1, <2>2
<1>12. \A r \in run'.rows : r.updated <= row'[r.session].updated
  BY <1>1, <1>2 DEF SkipRules
<1>13. QED
  BY <1>1, <1>6, <1>11, <1>12 DEF SkipRules

(* A file that holds all that was listed lacks nothing of a session that has *)
(* not moved on since.                                                       *)
LEMMA NothingLacking ==
  ASSUME Basics, SkipRules, ListedRules, Working, UNCHANGED store,
         NEW s0 \in Sessions, s0 = Session, NEW d, \A c \in run.listed : OfDocument(c, d),
         NEW f \in Seq(Nat \X Nat), FileOf(f, Base, d), mirror'[s0] = f,
         \A c \in run.listed : c.end <= Base + Len(f)
  PROVE  ~Behind(s0)' \/ Later(s0)
<1>1. UNCHANGED <<row, chunks, claimed>>
  BY DEF store
<1>2. CASE s0 \in claimed
  BY <1>1, <1>2 DEF Behind
<1>3. CASE Later(s0)
  BY <1>3
<1>4. CASE chunks[s0] \subseteq run.listed
  <2>1. SUFFICES ASSUME NEW c \in chunks[s0]
                 PROVE  \E i \in DOMAIN f : f[i] = c.data[Len(c.data)]
    BY <1>1 DEF Behind
  <2>2. c \in run.listed /\ WellFormed(c) /\ OfDocument(c, d)
    BY <1>4 DEF ListedRules, FromStore
  <2>3. /\ c.off \in Nat /\ c.end \in Nat /\ c.off < c.end /\ Len(c.data) = c.end - c.off
        /\ Base \in Nat /\ Base <= c.off /\ c.end <= Base + Len(f) /\ Len(f) \in Nat
    BY <2>2, WellFormedIs, BaseIs
  <2>4. PICK base \in Nat, off \in Nat, stop \in Nat, n \in Nat :
          base = Base /\ off = c.off /\ stop = c.end /\ n = Len(f)
    BY <2>3
  <2>5. /\ off < stop /\ base <= off /\ stop <= base + n /\ Len(c.data) = stop - off
    BY <2>3, <2>4
  <2>6. PICK i \in Nat, j \in Nat : i = stop - base /\ j = stop - off
    <3>1. stop - base \in Nat /\ stop - off \in Nat
      BY <2>5
    <3>2. QED
      BY <3>1
  <2>7. /\ i \in 1 .. n /\ j \in 1 .. stop - off /\ base + i = stop /\ off + j = stop
        /\ Len(c.data) = j
    BY <2>5, <2>6
  <2>8. f[i] = <<d[stop], stop - 1>>
    <3>1. f[i] = <<d[base + i], base + i - 1>>
      BY <2>4, <2>7 DEF FileOf
    <3>2. QED
      BY <2>7, <3>1
  <2>9. c.data[j] = <<d[stop], stop - 1>>
    <3>1. c.data[j] = <<d[off + j], off + j - 1>>
      BY <2>2, <2>4, <2>5, <2>7 DEF OfDocument
    <3>2. QED
      BY <2>7, <3>1
  <2>10. i \in DOMAIN f /\ f[i] = c.data[Len(c.data)]
    BY <2>4, <2>7, <2>8, <2>9
  <2>11. QED
    BY <2>10
<1>5. QED
  BY <1>2, <1>3, <1>4 DEF SkipRules
(* The steps of a pull, one by one.                                          *)
LEMMA FetchWrapsSkips ==
  ASSUME Basics, SkipRules, FetchWraps
  PROVE  SkipRules'
<1>1. /\ pc = "wraps" /\ pc' \in {"save", "session"} /\ UNCHANGED <<store, mirror, saved>>
      /\ run' = [run EXCEPT !.held = {s \in Sessions : Live(s) /\ wrap[s] # 0}]
  BY DEF FetchWraps, FetchWrapsThen, Goto
<1>2. run'.rows = run.rows /\ run'.ok = run.ok /\ run'.failed = run.failed
  BY <1>1 DEF Basics, PullTypes, RunType
<1>3. UNCHANGED <<row, chunks, claimed>> /\ ~Working' /\ pc # "idle"
  BY <1>1 DEF store, Working
<1>4. NothingSkipped'
  BY <1>1, <1>3 DEF SkipRules, NothingSkipped, Behind, Live
<1>5. \A r \in run'.rows : r.updated <= row'[r.session].updated
  BY <1>2, <1>3 DEF SkipRules
<1>6. ASSUME NEW s \in Sessions, Behind(s)'
      PROVE  (Later(s) \/ Listed(s) \/ HeldBack(s))'
  <2>1. Behind(s)
    BY <1>1, <1>3, <1>6 DEF Behind, Live
  <2>2. Later(s) \/ Listed(s) \/ HeldBack(s)
    BY <1>3, <2>1 DEF SkipRules
  <2>3. QED
    BY <1>2, <1>3, <2>2 DEF Later, Listed, HeldBack
<1>7. QED
  BY <1>3, <1>4, <1>5, <1>6 DEF SkipRules

LEMMA ListChunksSkips ==
  ASSUME Basics, SkipRules, ListChunks
  PROVE  SkipRules'
<1>1. /\ pc = "session" /\ UNCHANGED <<store, mirror, saved>>
      /\ Session \in Sessions /\ Record \in RecordType
  <2>1. pc = "session" /\ UNCHANGED <<store, mirror, saved>>
    BY ListChunksIs
  <2>2. QED
    BY <2>1, RowIsListed
<1>2. PICK s0 \in Sessions : s0 = Session
  BY <1>1
<1>3. \A s \in Sessions : mirror'[s] = mirror[s]
  BY <1>1
<1>4. CASE Conclude("failed", Record)
  BY <1>1, <1>2, <1>3, <1>4, ConcludeSkips
<1>5. CASE chunks[Session] = {} /\ Conclude("ok", NoRecord)
  <2>1. NoRecord \in RecordType
    BY DEF NoRecord, RecordType
  <2>2. chunks'[s0] = {}
    BY <1>1, <1>2, <1>5 DEF store
  <2>3. ~Behind(s0)'
    BY <2>2 DEF Behind
  <2>4. QED
    BY <1>1, <1>2, <1>3, <1>5, <2>1, <2>3, ConcludeSkips
<1>6. CASE SameRow /\ run'.listed = chunks[Session]
  <2>1. chunks[Session] \subseteq run'.listed
    BY <1>6
  <2>2. QED
    BY <1>1, <1>3, <1>6, <2>1, WithinSkips
<1>7. QED
  BY <1>4, <1>5, <1>6, ListChunksIs

(* What was listed stays what was listed.                                    *)
LEMMA ListedSkips ==
  ASSUME Basics, SkipRules, Working, UNCHANGED <<store, saved>>, SameRow, run'.listed = run.listed,
         \A s \in Sessions : s # Session => mirror'[s] = mirror[s]
  PROVE  SkipRules'
<1>1. chunks[Session] \subseteq run'.listed \/ Session \in claimed \/ Later(Session)
  BY DEF SkipRules
<1>2. QED
  BY <1>1, WithinSkips

LEMMA KeySkips ==
  ASSUME Basics, SkipRules, ProbeGeneration \/ ResolveKey
  PROVE  SkipRules'
<1>1. /\ Working /\ UNCHANGED <<store, mirror, saved>>
  BY ProbeGenerationIs, ResolveKeyIs DEF Working
<1>2. Session \in Sessions /\ Record \in RecordType /\ \A s \in Sessions : mirror'[s] = mirror[s]
  BY <1>1, RowIsListed
<1>3. CASE Conclude("failed", Record)
  <2>1. PICK s0 \in Sessions : s0 = Session
    BY <1>2
  <2>2. QED
    BY <1>1, <1>2, <1>3, <2>1, ConcludeSkips
<1>4. CASE SameRow /\ run'.listed = run.listed
  BY <1>1, <1>2, <1>4, ListedSkips
<1>5. QED
  BY <1>3, <1>4, ProbeGenerationIs, ResolveKeyIs

LEMMA CompareSkips ==
  ASSUME Basics, DataRules, ~Misplaced, SkipRules, Compare
  PROVE  SkipRules'
<1>1. /\ pc = "compare" /\ UNCHANGED <<store, saved>>
      /\ mirror' = [mirror EXCEPT ![Session] = Left]
  BY CompareIs
<1>2. Working /\ ListedRules /\ Session \in Sessions /\ Record \in RecordType
  <2>1. Working
    BY <1>1 DEF Working
  <2>2. QED
    BY <2>1, RowIsListed DEF DataRules
<1>3. PICK s0 \in Sessions : s0 = Session
  BY <1>2
<1>4. mirror'[s0] = Left /\ \A s \in Sessions : s # s0 => mirror'[s] = mirror[s]
  BY <1>1, <1>3 DEF Basics, PullTypes
<1>5. CASE Conclude("failed", Record)
  BY <1>1, <1>2, <1>3, <1>4, <1>5, ConcludeSkips
<1>6. CASE SameRow /\ run'.listed = run.listed
  BY <1>1, <1>2, <1>3, <1>4, <1>6, ListedSkips
<1>7. CASE PlanOf(Base + Len(Left)) = {} /\ Conclude("ok", RecordOf(Left))
  <2>1. PICK d \in past[Session] : \A c \in run.listed : OfDocument(c, d)
    BY <1>2 DEF ListedRules
  <2>2. FileOf(Left, Base, d) /\ Left \in Seq(Nat \X Nat)
    BY <1>1, <2>1, LeftStands
  <2>3. Base \in Nat /\ Len(Left) \in Nat
    BY <1>2, <2>2, BaseIs
  <2>4. PICK have \in Nat : have = Base + Len(Left)
    BY <2>3
  <2>5. /\ \A c \in run.listed : WellFormed(c)
        /\ \A c, e \in run.listed : Apart(c, e)
    BY <1>2 DEF ListedRules, FromStore
  <2>6. PlanOf(have) = {c \in run.listed : have < c.end}
    BY <2>5, PlanIs
  <2>7. \A c \in run.listed : ~(have < c.end) /\ c.end \in Nat
    BY <1>7, <2>4, <2>5, <2>6, WellFormedIs
  <2>8. \A c \in run.listed : c.end <= have
    BY <2>7
  <2>9. \A c \in run.listed : c.end <= Base + Len(Left)
    BY <2>4, <2>8
  <2>10. ~Behind(s0)' \/ Later(s0)
    BY <1>1, <1>2, <1>3, <1>4, <2>1, <2>2, <2>9, NothingLacking
  <2>11. RecordOf(Left) \in RecordType
    BY <1>2, RecordTyped
  <2>12. QED
    BY <1>1, <1>2, <1>3, <1>4, <1>7, <2>10, <2>11, ConcludeSkips
<1>8. QED
  BY <1>5, <1>6, <1>7, CompareIs

LEMMA FetchSkips ==
  ASSUME Basics, SkipRules, Fetch
  PROVE  SkipRules'
<1>1. /\ Working /\ UNCHANGED <<store, saved>> /\ SameRow /\ run'.listed = run.listed
      /\ mirror' = mirror \/ mirror' = [mirror EXCEPT ![Session] = @ \o Next1.data]
  BY FetchDoes DEF Working
<1>2. Session \in Sessions
  BY <1>1, RowIsListed
<1>3. \A s \in Sessions : s # Session => mirror'[s] = mirror[s]
  BY <1>1, <1>2 DEF Basics, PullTypes
<1>4. QED
  BY <1>1, <1>3, ListedSkips

LEMMA FinishSkips ==
  ASSUME Basics, DataRules, SkipRules, Finish
  PROVE  SkipRules'
<1>1. pc = "finish" /\ UNCHANGED <<store, mirror, saved>>
  BY FinishIs
<1>2. Working /\ Writing
  BY <1>1 DEF Working, Writing
<1>3. ListedRules /\ WritingRules /\ Session \in Sessions /\ Record \in RecordType
  BY <1>2, RowIsListed DEF DataRules
<1>4. PICK s0 \in Sessions : s0 = Session
  BY <1>3
<1>5. \A s \in Sessions : mirror'[s] = mirror[s]
  BY <1>1
<1>6. CASE Conclude("failed", Record)
  BY <1>1, <1>2, <1>3, <1>4, <1>5, <1>6, ConcludeSkips
<1> DEFINE f == mirror[Session]
<1>7. RecordOf(f) \in RecordType
  BY <1>2, RecordTyped
<1>8. CASE run.broken /\ Conclude("failed", RecordOf(f))
  BY <1>1, <1>2, <1>4, <1>5, <1>7, <1>8, ConcludeSkips
<1>9. CASE ~run.broken /\ Conclude("ok", RecordOf(f))
  <2>1. PICK d \in past[Session] : (\A c \in run.listed : OfDocument(c, d)) /\ FileOf(f, Base, d)
    BY <1>2, <1>3 DEF ListedRules
  <2>2. f \in Seq(Nat \X Nat) /\ mirror'[s0] = f
    BY <1>2, <1>3, <1>4, <1>5, BaseIs
  <2>3. \A c \in run.listed : ~(Have < c.end)
    BY <1>1, <1>3, <1>9 DEF WritingRules
  <2>4. Base \in Nat /\ Len(f) \in Nat /\ \A c \in run.listed : c.end \in Nat
    BY <1>2, <1>3, <2>2, BaseIs, WellFormedIs DEF ListedRules, FromStore
  <2>5. PICK have \in Nat : have = Base + Len(f)
    BY <2>4
  <2>6. \A c \in run.listed : c.end <= have
    <3>1. Have = have
      BY <2>5 DEF Have
    <3> HIDE DEF f
    <3>2. QED
      BY <2>3, <2>4, <3>1
  <2>7. \A c \in run.listed : c.end <= Base + Len(f)
    BY <2>5, <2>6
  <2> HIDE DEF f
  <2>8. ~Behind(s0)' \/ Later(s0)
    BY <1>1, <1>2, <1>3, <1>4, <2>1, <2>2, <2>7, NothingLacking
  <2>9. QED
    BY <1>1, <1>2, <1>4, <1>5, <1>7, <1>9, <2>8, ConcludeSkips
<1>10. QED
  BY <1>6, <1>8, <1>9, FinishIs

LEMMA RequestFailsSkips ==
  ASSUME Basics, SkipRules, RequestFails
  PROVE  SkipRules'
<1>1. /\ Working \/ pc = "session"
      /\ UNCHANGED <<store, mirror, saved>>
  BY RequestFailsIs DEF Working
<1>2. Session \in Sessions /\ Record \in RecordType /\ \A s \in Sessions : mirror'[s] = mirror[s]
  BY <1>1, RowIsListed
<1>3. CASE Conclude("failed", Record)
  <2>1. PICK s0 \in Sessions : s0 = Session
    BY <1>2
  <2>2. QED
    BY <1>1, <1>2, <1>3, <2>1, ConcludeSkips
<1>4. CASE pc = "fetch" /\ SameRow /\ run'.listed = run.listed
  <2>1. Working
    BY <1>4 DEF Working
  <2>2. QED
    BY <1>1, <1>2, <1>4, <2>1, ListedSkips
<1>5. QED
  BY <1>3, <1>4, RequestFailsIs

(* The cursor that is saved is not beyond what will be listed again.         *)
LEMMA SaveSkips ==
  ASSUME Basics, SkipRules, Save
  PROVE  SkipRules'
<1>1. /\ pc = "save" /\ pc' = "idle" /\ UNCHANGED <<store, mirror>>
      /\ run' = NoRun /\ saved'.cursor = Cursor
  BY DEF Save, Goto
<1>2. run.rows = {}
  BY <1>1 DEF Basics, RunRules
<1>3. UNCHANGED <<row, chunks, claimed>> /\ ~Working'
  BY <1>1 DEF store, Working
<1>4. ASSUME NEW s \in Sessions, Behind(s)
      PROVE  Cursor <= row[s].updated
  <2>1. Later(s) \/ HeldBack(s)
    BY <1>1, <1>2, <1>4 DEF SkipRules, Listed
  <2>2. row[s].updated >= saved.cursor
    BY <1>4 DEF SkipRules, NothingSkipped
  <2>3. /\ row[s].updated \in Nat /\ saved.cursor \in Nat
        /\ run.ok \in Nat /\ run.failed \in Nat
    BY DEF Basics, StoreTypes, RowInStore, PullTypes, RunType
  <2>4. QED
    BY <2>1, <2>2, <2>3 DEF Cursor, Later, HeldBack
<1>5. NothingSkipped'
  <2>1. ASSUME NEW s \in Sessions, Behind(s)'
        PROVE  row'[s].updated >= saved'.cursor
    <3>1. Behind(s)
      BY <1>1, <1>3, <2>1 DEF Behind, Live
    <3>2. Cursor <= row[s].updated
      BY <1>4, <3>1
    <3>3. QED
      BY <1>1, <1>3, <3>2
  <2>2. QED
    BY <2>1 DEF NothingSkipped
<1>6. run'.rows = {}
  BY <1>1, NoRunTyped
<1>7. QED
  BY <1>1, <1>3, <1>5, <1>6 DEF SkipRules

LEMMA EndsSkips ==
  ASSUME Basics, SkipRules, EndEarly \/ LoseState
  PROVE  SkipRules'
<1>1. /\ pc' = "idle" /\ UNCHANGED <<store, mirror>>
      /\ \/ run' = NoRun /\ saved' = saved
         \/ run' = run /\ saved' = NoState
  BY DEF EndEarly, LoseState, Goto
<1>2. UNCHANGED <<row, chunks, claimed>> /\ ~Working'
  BY <1>1 DEF store, Working
<1>3. saved'.cursor \in {saved.cursor, 0} /\ run'.rows \in {run.rows, {}}
  BY <1>1, NoRunTyped
<1>4. \A s \in Sessions : row[s].updated \in Nat
  BY DEF Basics, StoreTypes, RowInStore
<1>5. NothingSkipped'
  BY <1>1, <1>2, <1>3, <1>4 DEF SkipRules, NothingSkipped, Behind, Live
<1>6. \A r \in run'.rows : r.updated <= row'[r.session].updated
  BY <1>2, <1>3 DEF SkipRules
<1>7. QED
  BY <1>1, <1>2, <1>5, <1>6 DEF SkipRules

(* What excuses a session that is skipped.                                   *)
Excused == Misplaced \/ mishaps \cap {"late", "skipped"} # {}

LEMMA NextSkips ==
  ASSUME Basics, Misplaced \/ DataRules, Excused \/ SkipRules, [Next]_vars
  PROVE  (Excused \/ SkipRules)'
<1>1. Excused => Excused'
  BY MishapsStay DEF Excused, Misplaced
<1>2. SUFFICES ASSUME ~Excused, ~Excused', DataRules, SkipRules
               PROVE  SkipRules'
  BY <1>1 DEF Excused
<1>3. ~Misplaced /\ "late" \notin mishaps' /\ "skipped" \notin mishaps'
  BY <1>2 DEF Excused
<1>4. CASE StoreStep \/ \E s \in Sessions : Upload(s)
  BY <1>2, <1>3, <1>4, StoreSkips
<1>5. CASE PullStep
  <2>1. ~Skip
    BY <1>3 DEF Skip, Suffers
  <2>2. QED
    BY <1>2, <1>3, <1>5, <2>1, FetchWrapsSkips, ListChunksSkips, KeySkips, CompareSkips,
       FetchSkips, FinishSkips, SaveSkips DEF PullStep
<1>6. CASE \E legacy \in Legacy : List(legacy)
  BY <1>2, <1>6, ListSkips
<1>7. CASE RequestFails \/ EndEarly \/ LoseState
  BY <1>2, <1>7, RequestFailsSkips, EndsSkips
<1>8. CASE UNCHANGED vars
  <2>1. UNCHANGED <<mirror, saved, pc, run, row, chunks, claimed>>
    BY <1>8 DEF vars, store, puller
  <2>2. Session' = Session /\ (Working' <=> Working)
    BY <2>1 DEF Session, Row, Working
  <2>3. NothingSkipped'
    BY <1>2, <2>1 DEF SkipRules, NothingSkipped, Behind, Live
  <2>4. ASSUME NEW s \in Sessions
        PROVE  /\ Behind(s)' <=> Behind(s)
               /\ Later(s)' <=> Later(s)
               /\ Listed(s)' <=> Listed(s)
               /\ HeldBack(s)' <=> HeldBack(s)
    BY <2>1 DEF Behind, Live, Later, Listed, HeldBack
  <2>5. Later(Session) => Later(Session)'
    BY <2>1, <2>2 DEF Later
  <2>6. Working' => (chunks[Session] \subseteq run.listed \/ Session \in claimed \/ Later(Session))'
    BY <1>2, <2>1, <2>2, <2>5 DEF SkipRules
  <2>7. \A r \in run'.rows : r.updated <= row'[r.session].updated
    BY <1>2, <2>1 DEF SkipRules
  <2>8. pc' # "idle" => \A s \in Sessions : (Behind(s) => Later(s) \/ Listed(s) \/ HeldBack(s))'
    BY <1>2, <2>1, <2>4 DEF SkipRules
  <2>9. QED
    BY <2>3, <2>6, <2>7, <2>8 DEF SkipRules
<1>9. QED
  BY <1>4, <1>5, <1>6, <1>7, <1>8 DEF Next

LEMMA InitSkips ==
  ASSUME Init
  PROVE  SkipRules
<1>1. /\ pc = "idle" /\ run.rows = {}
      /\ \A s \in Sessions : row[s].status = "absent"
  BY NoRunTyped DEF Init
<1>2. \A s \in Sessions : ~Behind(s)
  BY <1>1 DEF Behind, Live
<1>3. ~Working
  BY <1>1 DEF Working
<1>4. QED
  BY <1>1, <1>2, <1>3 DEF SkipRules, NothingSkipped

(* index.ts, listSessions: "skipping one loses it forever".  Whatever fails, *)
(* is paged, rotated or deleted meanwhile, a session the mirror is behind of *)
(* is listed by the next pull, unless the Worker wrote an old time or a pull *)
(* skipped a legacy session it was not asked to allow.                       *)
THEOREM SkippedAlways == Spec => []NothingSkippedUnlessLate
<1>1. Init => Excused \/ SkipRules
  BY InitSkips
<1>2. Basics /\ (Misplaced \/ DataRules) /\ (Excused \/ SkipRules) /\ [Next]_vars
        => (Excused \/ SkipRules)'
  BY NextSkips
<1>3. Excused \/ SkipRules => NothingSkippedUnlessLate
  BY DEF Excused, SkipRules, NothingSkippedUnlessLate, Unless
<1>4. QED
  BY <1>1, <1>2, <1>3, BasicsAlways, DataAlways, PTL DEF Spec

=============================================================================
