---------------------------- MODULE PublishProofs ----------------------------
(***************************************************************************)
(* Proofs about the publisher, for every chunk size, prefix length, number *)
(* of recoveries, set of keys, set of troubles and bound on the            *)
(* environment.                                                            *)
(*                                                                         *)
(* Part one: its variables are well typed, and no byte from below the      *)
(* consent watermark enters the store.                                     *)
(*                                                                         *)
(* Part two has no theorem and is what the others rest on: bytes that were *)
(* once read from the file are either still there or gone for good, since  *)
(* a rewrite writes bytes of a new epoch, and bytes that no longer fit     *)
(* never fit again.                                                        *)
(*                                                                         *)
(* Part three is about what the store holds of a session.  Of its keys: a  *)
(* run mints a generation that nothing was ever encrypted under, the store *)
(* never refuses it unless a tombstone hid the generation it kept, no      *)
(* address is sealed twice with different bytes, and the wrap in the store *)
(* is of the key its chunks are sealed with.  Of its chunks: no plaintext  *)
(* beside an encrypted copy, every byte the state file calls published,    *)
(* and one run of chunks without a hole or an overlap.                     *)
(***************************************************************************)
EXTENDS Publish, TLAPS

-----------------------------------------------------------------------------
(* Lemmas about the operators                                               *)

LEMMA RangeType ==
  ASSUME NEW bytes \in Seq(Nat), NEW from \in Nat, NEW to \in Nat
  PROVE  Range(bytes, from, to) \in Seq(Nat)
<1> DEFINE n == Least(to, Len(bytes))
<1>1. n \in Nat /\ n <= Len(bytes)
  BY DEF Least
<1> QED
  BY <1>1 DEF Range

(* Piece i of the pieces of size m that make up a starts before the end of a. *)
LEMMA PieceStarts ==
  ASSUME NEW a \in Nat, NEW m \in Nat \ {0}, NEW i \in 1 .. ((a + m - 1) \div m)
  PROVE  0 <= (i - 1) * m /\ (i - 1) * m < a
<1> DEFINE q == (a + m - 1) \div m
<1>1. q \in Int /\ q * m <= a + m - 1
  OBVIOUS
<1>2. i \in Int /\ 1 <= i /\ i <= q
  BY <1>1
<1>3. (i - 1) * m <= (q - 1) * m
  BY <1>1, <1>2
<1>4. (q - 1) * m = q * m - m
  BY <1>1
<1>5. 0 <= (i - 1) * m
  BY <1>2
<1> QED
  BY <1>1, <1>2, <1>3, <1>4, <1>5

LEMMA NoBytes == <<>> \in Seq(Nat)
OBVIOUS

LEMMA StateFields ==
  ASSUME NEW s \in PublishState
  PROVE  /\ s.start \in Nat /\ s.offset \in Nat
         /\ s.digest \in Seq(Nat) /\ s.prefix \in Seq(Nat)
         /\ s.enc \in BOOLEAN /\ s.gen \in Nat /\ s.dk \in Keys \cup {NoKey, Unreadable}
BY DEF PublishState

LEMMA FreshType == Fresh \in PublishState
BY NoBytes DEF Fresh, PublishState

(* A reset keeps the watermark and forgets everything published. *)
LEMMA ResetFacts ==
  ASSUME NEW s \in PublishState
  PROVE  /\ Reset(s) \in PublishState
         /\ Reset(s).start = s.start /\ Reset(s).offset = 0
<1> DEFINE e == <<>>
           g == IF s.enc THEN s.gen + 1 ELSE s.gen
           k == IF s.enc THEN NoKey ELSE s.dk
<1>1. Reset(s) = [s EXCEPT !.offset = 0, !.digest = e, !.prefix = e,
                           !.gen = IF s.enc THEN @ + 1 ELSE @,
                           !.dk = IF s.enc THEN NoKey ELSE @]
  BY Zenon DEF Reset
<1>2. Reset(s) = [start |-> s.start, offset |-> 0, digest |-> e, prefix |-> e,
                  enc |-> s.enc, gen |-> g, dk |-> k]
  BY <1>1 DEF PublishState
<1>3. g \in Nat /\ k \in Keys \cup {NoKey, Unreadable}
  BY StateFields
<1>4. e \in Seq(Nat)
  BY NoBytes
<1> HIDE DEF e, g, k
<1> QED
  BY <1>2, <1>3, <1>4, StateFields DEF PublishState

(* Minting a key keeps the watermark, too. *)
LEMMA MintedFacts ==
  ASSUME NEW s \in PublishState, NEW dk \in Keys, row.gen \in Nat
  PROVE  /\ Minted(s, dk) \in PublishState
         /\ Minted(s, dk).start = s.start
         /\ Minted(s, dk).offset \in {0, s.offset}
         /\ Minted(s, dk).dk = dk
<1> DEFINE kept == IF s.dk = Unreadable THEN Reset(s) ELSE s
           g == Most(kept.gen, ServerGen) + 1
<1>1. kept \in PublishState /\ kept.start = s.start /\ kept.offset \in {0, s.offset}
  BY ResetFacts
<1>2. g \in Nat
  BY <1>1, StateFields DEF Most, ServerGen
<1>3. Minted(s, dk) = [kept EXCEPT !.enc = TRUE, !.gen = g, !.dk = dk]
  BY DEF Minted
<1> HIDE DEF kept, g
<1>4. Minted(s, dk) = [start |-> kept.start, offset |-> kept.offset, digest |-> kept.digest,
                       prefix |-> kept.prefix, enc |-> TRUE, gen |-> g, dk |-> dk]
  BY <1>1, <1>3 DEF PublishState
<1> QED
  BY <1>1, <1>2, <1>4, StateFields DEF PublishState

LEMMA SetupCipherFacts ==
  ASSUME NEW s \in PublishState, row.gen \in Nat, NEW t \in SetupCipher(s)
  PROVE  /\ t \in PublishState /\ t.dk \in Keys
         /\ t.start = s.start /\ t.offset \in {0, s.offset}
<1>1. CASE Opens(s) /\ t = s
  BY <1>1 DEF Opens
<1>2. CASE \E dk \in NewKey : t = Minted(s, dk)
  BY <1>2, MintedFacts DEF NewKey
<1> QED
  BY <1>1, <1>2 DEF SetupCipher

PieceType == [off : Nat, end : Nat, data : Seq(Nat)]

(* What a plan can be relied on for: no piece starts before the watermark of *)
(* the state it was made from, and none is empty.                            *)
LEMMA PlanFacts ==
  ASSUME NEW s \in PublishState, NEW size \in Nat, transcript \in Seq(Nat),
         PublishConstants
  PROVE  /\ PlanChunks(s, size) \in Seq(PieceType)
         /\ \A i \in 1 .. Len(PlanChunks(s, size)) :
              /\ s.start <= PlanChunks(s, size)[i].off
              /\ PlanChunks(s, size)[i].off < PlanChunks(s, size)[i].end
<1> DEFINE first == IF Verified(s, size) THEN PlanStart(s) ELSE s.start
           limit == Least(size, Len(transcript))
           count == IF first >= limit THEN 0
                    ELSE ((limit - first) + MaxChunk - 1) \div MaxChunk
           off(i) == first + (i - 1) * MaxChunk
           end(i) == Least(off(i) + MaxChunk, limit)
           todo == [i \in 1 .. count |->
                      [off |-> off(i), end |-> end(i), data |-> Range(transcript, off(i), end(i))]]
<1>1. first \in Nat /\ s.start \in Nat /\ s.start <= first
  BY DEF PlanStart, Most, PublishState
<1>2. limit \in Nat
  BY DEF Least
<1>3. MaxChunk \in Nat \ {0}
  BY DEF PublishConstants
<1>4. count \in Nat
  <2>1. CASE first >= limit
    BY <2>1
  <2>2. CASE ~(first >= limit)
    <3>1. (limit - first) + MaxChunk - 1 \in Nat
      BY <1>1, <1>2, <1>3, <2>2
    <3> QED
      BY <1>3, <2>2, <3>1
  <2> QED
    BY <2>1, <2>2
<1>5. ASSUME NEW i \in 1 .. count
      PROVE  off(i) \in Nat /\ end(i) \in Nat /\ first <= off(i) /\ off(i) < end(i)
  <2>1. limit - first \in Nat /\ count = ((limit - first) + MaxChunk - 1) \div MaxChunk
    BY <1>1, <1>2, <1>4, <1>5
  <2>2. 0 <= (i - 1) * MaxChunk /\ (i - 1) * MaxChunk < limit - first
    BY <1>3, <2>1, PieceStarts
  <2>3. (i - 1) * MaxChunk \in Int
    BY <1>3, <1>4
  <2> DEFINE k == (i - 1) * MaxChunk
  <2>4. k \in Int /\ 0 <= k /\ k < limit - first
    BY <2>2, <2>3
  <2>5. off(i) = first + k /\ end(i) = Least(first + k + MaxChunk, limit)
    OBVIOUS
  <2> HIDE DEF k, off, end, first, limit
  <2> QED
    BY <1>1, <1>2, <1>3, <2>4, <2>5 DEF Least
<1>6. ASSUME NEW i \in 1 .. count
      PROVE  [off |-> off(i), end |-> end(i), data |-> Range(transcript, off(i), end(i))] \in PieceType
  BY <1>5, RangeType DEF PieceType
<1>7. PlanChunks(s, size) = todo
  BY DEF PlanChunks
<1>8. todo \in Seq(PieceType) /\ Len(todo) = count
  <2> HIDE DEF count, off, end
  <2> QED
    BY <1>4, <1>6
<1> QED
  <2>1. \A i \in 1 .. count : todo[i].off = off(i) /\ todo[i].end = end(i)
    OBVIOUS
  <2>2. \A i \in 1 .. count : s.start <= off(i) /\ off(i) < end(i)
    <3> HIDE DEF count, off, end, first
    <3> QED
      BY <1>1, <1>5
  <2> HIDE DEF count, off, end, first, todo
  <2> QED
    BY <1>7, <1>8, <2>1, <2>2
-----------------------------------------------------------------------------
(* Type correctness                                                         *)

LEMMA NoLookType == NoLook \in Looks
BY NoBytes DEF NoLook, Looks, NoKey

LEMMA InitType == PublishConstants /\ Init => TypeOK
<1> SUFFICES ASSUME PublishConstants, Init
             PROVE  TypeOK
  OBVIOUS
<1>1. FileTypeOK
  <2>1. transcript \in Seq(Nat) /\ mark \in Nat
    BY DEF Init, PublishConstants
  <2>2. saved \in PublishState
    <3>1. PICK n \in Nat : saved = Fresh \/ saved = [Fresh EXCEPT !.start = n]
      BY DEF Init, PublishConstants
    <3> QED
      BY <3>1, FreshType DEF PublishState
  <2>3. epoch \in Nat /\ sharing \in BOOLEAN
    BY Zenon DEF Init
  <2> QED
    BY <2>1, <2>2, <2>3 DEF FileTypeOK
<1>2. StoreTypeOK
  BY DEF Init, StoreTypeOK, NoKey
<1>3. RunTypeOK
  <2>1. run \in [mode : Modes \cup {"none"}, size : Nat, deleting : BOOLEAN, recoveries : Nat,
                prefix : Seq(Nat), wraps : BOOLEAN, data : Seq(Nat), look : Looks]
    BY NoBytes, NoLookType DEF Init, NoRun
  <2> QED
    BY <2>1, FreshType DEF Init, RunTypeOK
<1>4. HistoryTypeOK
  BY DEF Init, HistoryTypeOK
<1> QED
  BY <1>1, <1>2, <1>3, <1>4 DEF TypeOK

LEMMA EndType == End => RunTypeOK'
<1>1. NoRun \in [mode : Modes \cup {"none"}, size : Nat, deleting : BOOLEAN, recoveries : Nat,
                prefix : Seq(Nat), wraps : BOOLEAN, data : Seq(Nat), look : Looks]
  BY NoBytes, NoLookType DEF NoRun
<1> QED
  BY <1>1, FreshType DEF End, RunTypeOK

LEMMA DeleteType == StoreTypeOK /\ DeleteSession => StoreTypeOK'
BY DEF StoreTypeOK, DeleteSession, NoKey

(* A run that is about to send has a chunk to send. *)
Sending == {"delete", "register", "wrap", "send", "save"}
PlanInv == pc \in Sending => plan # <<>>

(* A run that encrypts holds a key from the moment its cipher is set up, and *)
(* only such a run has wraps to upload.                                      *)
KeyInv ==
    /\ Aead /\ pc \in {"plan"} \cup Sending => state.dk \in Keys
    /\ run.wraps => Aead
    /\ pc = "wrap" => Aead

LEMMA EndPlan == End => PlanInv' /\ KeyInv'
BY DEF End, PlanInv, KeyInv, Sending, NoRun, Aead

RunRecord == [mode : Modes \cup {"none"}, size : Nat, deleting : BOOLEAN, recoveries : Nat,
              prefix : Seq(Nat), wraps : BOOLEAN, data : Seq(Nat), look : Looks]

(* Where a run reconciles: before it publishes, and after a conflict.        *)
Reading == {"reconcile", "recover"}

(* What a read of a reconciliation makes of its locals, one field at a time. *)
SameKey(l) == l.enc = run.look.enc /\ l.gen = run.look.gen /\ l.dk = run.look.dk
SameRange(l) == l.base = run.look.base /\ l.cursor = run.look.cursor

Listed(l) ==
    /\ run.look.at = "list" /\ l.at = "scheme" /\ Live /\ l.left = chunks
    /\ \E first \in chunks : /\ l.base = first.off /\ l.cursor = first.off
                            /\ \A c \in chunks : first.off <= c.off
    /\ SameKey(l) /\ l.prefix = run.look.prefix

Asked(l) ==
    /\ run.look.at \in {"scheme", "key"} /\ l.at \in {"key", "compare"}
    /\ SameRange(l) /\ l.left = run.look.left /\ l.prefix = run.look.prefix
    /\ \/ run.look.at = "scheme" /\ ~ServerEnc /\ l.at = "compare" /\ SameKey(l)
       \/ /\ run.look.at = "scheme" /\ ServerEnc /\ Aead /\ l.enc /\ l.gen = row.gen
          /\ l.at = "compare" => l.dk \in Keys
       \/ /\ run.look.at = "key" /\ l.at = "compare" /\ l.dk \in Keys
          /\ l.enc = run.look.enc /\ l.gen = run.look.gen

Compared(l) ==
    /\ run.look.at = "compare" /\ l.at \in {"compare", "prefix"}
    /\ SameKey(l) /\ l.base = run.look.base /\ l.prefix = run.look.prefix
    /\ \/ \E c \in run.look.left : /\ c.off = run.look.cursor /\ Matches(c)
                                  /\ l.left = run.look.left \ {c} /\ l.cursor = c.end
       \/ /\ l.at = "prefix" /\ run.look.base < run.look.cursor
          /\ l.left = {} /\ l.cursor = run.look.cursor

HeadRead(l) ==
    /\ run.look.at = "prefix" /\ l.at = "digest"
    /\ SameKey(l) /\ SameRange(l) /\ l.left = run.look.left
    /\ l.prefix = Range(transcript, 0, Least(run.look.cursor, PrefixBytes))

Found(l) == Listed(l) \/ Asked(l) \/ Compared(l) \/ HeadRead(l)

(* A step of it that reads, and nothing more.                                *)
Reads == /\ UNCHANGED <<pc, state, plan>>
         /\ \E l \in Looks : Found(l) /\ run' = [run EXCEPT !.look = l]

(* Its last step, when the file is still as long as the range found equal.    *)
Adopts == /\ run.look.at = "digest" /\ Len(transcript) >= run.look.cursor
          /\ Settle(Adopt(state))

LEMMA AdoptType ==
  ASSUME PublishConstants, TypeOK
  PROVE  /\ Adopt(state) \in PublishState
         /\ Adopt(state).start = run.look.base /\ Adopt(state).offset = run.look.cursor
         /\ Adopt(state).digest = Range(transcript, run.look.base, run.look.cursor)
         /\ Adopt(state).prefix = run.look.prefix
         /\ Adopt(state).enc = (state.enc \/ run.look.enc)
         /\ Adopt(state).gen = (IF run.look.enc THEN run.look.gen ELSE state.gen)
         /\ Adopt(state).dk = (IF run.look.enc THEN run.look.dk ELSE state.dk)
<1> DEFINE look == run.look
           digest == Range(transcript, look.base, look.cursor)
           enc == state.enc \/ look.enc
           gen == IF look.enc THEN look.gen ELSE state.gen
           dk == IF look.enc THEN look.dk ELSE state.dk
<1>1. /\ look.base \in Nat /\ look.cursor \in Nat /\ look.prefix \in Seq(Nat)
      /\ look.enc \in BOOLEAN /\ look.gen \in Nat /\ look.dk \in Keys \cup {NoKey}
  BY DEF TypeOK, RunTypeOK, Looks
<1>2. state \in PublishState
  BY DEF TypeOK, RunTypeOK
<1>3. digest \in Seq(Nat)
  BY <1>1, RangeType DEF TypeOK, FileTypeOK
<1>4. enc \in BOOLEAN /\ gen \in Nat /\ dk \in Keys \cup {NoKey, Unreadable}
  BY <1>1, <1>2, StateFields
<1>5. Adopt(state) = [start |-> look.base, offset |-> look.cursor, digest |-> digest,
                      prefix |-> look.prefix, enc |-> enc, gen |-> gen, dk |-> dk]
  BY DEF Adopt
<1> HIDE DEF digest, enc, gen, dk
<1>6. /\ Adopt(state) \in PublishState
      /\ Adopt(state).start = look.base /\ Adopt(state).offset = look.cursor
      /\ Adopt(state).digest = digest /\ Adopt(state).prefix = look.prefix
      /\ Adopt(state).enc = enc /\ Adopt(state).gen = gen /\ Adopt(state).dk = dk
  BY <1>1, <1>3, <1>4, <1>5 DEF PublishState
<1> QED
  BY <1>6 DEF digest, enc, gen, dk

(* A step of a reconciliation ends the run, reads, or concludes: with the    *)
(* state as it was, or with one rebuilt from what was read.                  *)
LEMMA ReconcileSteps ==
  ASSUME PublishConstants, TypeOK, Reconcile
  PROVE  /\ pc \in Reading
         /\ UNCHANGED <<transcript, epoch, sharing, mark, mishaps, troubles, saved, row, chunks,
                        wrap, sealed>>
         /\ End \/ Reads \/ Settle(state) \/ Adopts
<1> DEFINE look == run.look
           done == End \/ Reads \/ Settle(state) \/ Adopts
<1>1. pc \in Reading
  BY Zenon DEF Reconcile, List, AskScheme, AskKey, Compare, ReadPrefix, Record, Looking, Reading
<1>2. UNCHANGED <<transcript, epoch, sharing, mark, mishaps, troubles, saved, row, chunks,
                  wrap, sealed>>
  BY DEF Reconcile, Outside, file, store
<1> SUFFICES done
  BY <1>1, <1>2
<1>3. /\ look \in Looks /\ run \in RunRecord /\ row.gen \in Nat /\ transcript \in Seq(Nat)
      /\ state.dk \in Keys \cup {NoKey, Unreadable} /\ wrap.dk \in Keys \cup {NoKey}
      /\ chunks \subseteq Chunk
  BY StateFields DEF TypeOK, FileTypeOK, RunTypeOK, StoreTypeOK, RunRecord
<1>4. \A c \in chunks \cup look.left : c.off \in Nat /\ c.end \in Nat
  BY <1>3 DEF Looks, Chunk
<1>5. ASSUME NEW l \in Looks, Look(l), Found(l)
      PROVE  done
  BY <1>5 DEF Look, Reads
<1>6. ASSUME NEW l \in Looks, NEW dk \in Keys \cup {NoKey}, CompareWith(l, dk),
             dk \in Keys => Found([l EXCEPT !.at = "compare", !.dk = dk])
      PROVE  done
  <2>1. CASE dk \in Keys
    <3>1. [l EXCEPT !.at = "compare", !.dk = dk] \in Looks
      BY <1>6 DEF Looks
    <3> HIDE DEF done
    <3> QED
      BY <1>5, <1>6, <2>1, <3>1 DEF CompareWith
  <2>2. CASE dk \notin Keys
    BY <1>6, <2>2 DEF CompareWith
  <2> QED
    BY <2>1, <2>2
<1>7. CASE List
  <2>1. CASE Settle(state)
    BY <2>1
  <2>2. CASE \E first \in Remote :
               /\ \A c \in Remote : first.off <= c.off
               /\ Look([look EXCEPT !.at = "scheme", !.left = Remote,
                                    !.base = first.off, !.cursor = first.off])
    <3>1. PICK first \in Remote :
            /\ \A c \in Remote : first.off <= c.off
            /\ Look([look EXCEPT !.at = "scheme", !.left = Remote,
                                 !.base = first.off, !.cursor = first.off])
      BY <2>2
    <3>2. Remote \subseteq Chunk /\ first.off \in Nat /\ Live /\ Remote = chunks
      BY <1>3, <1>4, <3>1 DEF Remote
    <3>3. look.at = "list"
      BY <1>7 DEF List, Looking
    <3> DEFINE l == [look EXCEPT !.at = "scheme", !.left = Remote,
                                 !.base = first.off, !.cursor = first.off]
    <3>4. /\ l \in Looks /\ l.at = "scheme" /\ l.left = chunks /\ l.base = first.off
          /\ l.cursor = first.off /\ l.enc = look.enc /\ l.gen = look.gen /\ l.dk = look.dk
          /\ l.prefix = look.prefix
      BY <1>3, <3>2 DEF Looks
    <3>5. Look(l) /\ \A c \in chunks : first.off <= c.off
      BY <3>1, <3>2
    <3> HIDE DEF l, done
    <3>6. Found(l)
      BY <3>2, <3>3, <3>4, <3>5 DEF Found, Listed, SameKey
    <3> QED
      BY <1>5, <3>4, <3>5, <3>6
  <2> QED
    BY <1>7, <2>1, <2>2, Zenon DEF List
<1>8. CASE AskScheme
  <2> DEFINE known == [look EXCEPT !.enc = TRUE, !.gen = row.gen]
             plain == [look EXCEPT !.at = "compare"]
             asks == [known EXCEPT !.at = "key"]
             knows == [known EXCEPT !.at = "compare", !.dk = state.dk]
  <2>1. /\ known \in Looks /\ known.enc /\ known.gen = row.gen /\ known.left = look.left
        /\ known.base = look.base /\ known.cursor = look.cursor /\ known.prefix = look.prefix
    BY <1>3 DEF Looks
  <2>2. /\ plain \in Looks /\ plain.at = "compare" /\ plain.left = look.left
        /\ plain.base = look.base /\ plain.cursor = look.cursor /\ plain.prefix = look.prefix
        /\ plain.enc = look.enc /\ plain.gen = look.gen /\ plain.dk = look.dk
    BY <1>3 DEF Looks
  <2>3. /\ asks \in Looks /\ asks.at = "key" /\ asks.left = known.left
        /\ asks.base = known.base /\ asks.cursor = known.cursor /\ asks.prefix = known.prefix
        /\ asks.enc = known.enc /\ asks.gen = known.gen
    <3> HIDE DEF known
    <3> QED
      BY <2>1 DEF Looks
  <2>4. state.dk \in Keys =>
          /\ knows \in Looks /\ knows.at = "compare" /\ knows.left = known.left
          /\ knows.base = known.base /\ knows.cursor = known.cursor
          /\ knows.prefix = known.prefix /\ knows.dk = state.dk
          /\ knows.enc = known.enc /\ knows.gen = known.gen
    <3> HIDE DEF known
    <3> QED
      BY <2>1 DEF Looks
  <2>5. /\ look.at = "scheme"
        /\ \/ Look(plain) /\ ~ServerEnc
           \/ End
           \/ CompareWith(known, state.dk) /\ state.dk # NoKey /\ ServerEnc /\ Aead
           \/ Look(asks) /\ ServerEnc /\ Aead
    BY <1>8, Zenon DEF AskScheme, Looking, Aead
  <2> HIDE DEF known, plain, asks, knows, done
  <2>6. ~ServerEnc => Found(plain)
    BY <2>2, <2>5 DEF Found, Asked, SameKey, SameRange
  <2>7. ServerEnc /\ Aead => Found(asks)
    BY <2>1, <2>3, <2>5 DEF Found, Asked, SameRange
  <2>8. ServerEnc /\ Aead /\ state.dk \in Keys => Found(knows)
    BY <2>1, <2>4, <2>5 DEF Found, Asked, SameRange
  <2>9. End => done
    BY DEF done
  <2>10. ASSUME CompareWith(known, state.dk), ServerEnc, Aead
         PROVE  done
    <3>1. CASE state.dk \in Keys
      BY <1>6, <2>1, <2>8, <2>10, <3>1 DEF knows
    <3>2. CASE state.dk \notin Keys
      BY <2>10, <3>2, Zenon DEF CompareWith, done
    <3> QED
      BY <3>1, <3>2
  <2> QED
    BY <1>5, <2>2, <2>3, <2>5, <2>6, <2>7, <2>9, <2>10
<1>9. CASE AskKey
  <2> DEFINE dk == IF wrap.gen = look.gen THEN wrap.dk ELSE NoKey
             l == [look EXCEPT !.at = "compare", !.dk = dk]
  <2>1. CompareWith(look, dk) /\ dk \in Keys \cup {NoKey} /\ look.at = "key"
    BY <1>3, <1>9, Zenon DEF AskKey, Looking
  <2> HIDE DEF dk
  <2>2. dk \in Keys =>
          /\ l.at = "compare" /\ l.left = look.left /\ l.base = look.base
          /\ l.cursor = look.cursor /\ l.prefix = look.prefix
          /\ l.enc = look.enc /\ l.gen = look.gen /\ l.dk = dk
    BY <1>3 DEF Looks
  <2> HIDE DEF l, done
  <2>3. dk \in Keys => Found(l)
    BY <2>1, <2>2 DEF Found, Asked, SameRange
  <2> QED
    BY <1>3, <1>6, <2>1, <2>3 DEF l
<1>10. CASE Compare
  <2>1. PICK c \in look.left :
          \/ /\ c.off = look.cursor /\ Matches(c)
             /\ Look([look EXCEPT !.left = look.left \ {c}, !.cursor = c.end,
                        !.at = IF look.left \ {c} = {} THEN "prefix" ELSE "compare"])
          \/ look.base < look.cursor /\ Look([look EXCEPT !.left = {}, !.at = "prefix"])
          \/ Settle(state)
    BY <1>10, Zenon DEF Compare
  <2>2. look.at = "compare"
    BY <1>10 DEF Compare, Looking
  <2> DEFINE at == IF look.left \ {c} = {} THEN "prefix" ELSE "compare"
             rest == look.left \ {c}
             good == [look EXCEPT !.left = rest, !.cursor = c.end, !.at = at]
             ends == [look EXCEPT !.left = {}, !.at = "prefix"]
  <2>3. at \in {"compare", "prefix"} /\ rest \subseteq Chunk /\ c.end \in Nat
    BY <1>3, <1>4 DEF Looks
  <2> HIDE DEF at, rest
  <2>4. /\ good \in Looks /\ good.left = rest /\ good.cursor = c.end /\ good.at = at
        /\ good.enc = look.enc /\ good.gen = look.gen /\ good.dk = look.dk
        /\ good.base = look.base /\ good.prefix = look.prefix
    BY <1>3, <2>3 DEF Looks
  <2>5. /\ ends \in Looks /\ ends.left = {} /\ ends.cursor = look.cursor /\ ends.at = "prefix"
        /\ ends.enc = look.enc /\ ends.gen = look.gen /\ ends.dk = look.dk
        /\ ends.base = look.base /\ ends.prefix = look.prefix
    BY <1>3 DEF Looks
  <2>6. \/ c.off = look.cursor /\ Matches(c) /\ Look(good)
        \/ look.base < look.cursor /\ Look(ends)
        \/ Settle(state)
    BY <2>1, Zenon DEF at, rest
  <2>7. Settle(state) => done
    OBVIOUS
  <2> HIDE DEF good, ends, done
  <2>8. c.off = look.cursor /\ Matches(c) => Found(good)
    BY <2>2, <2>3, <2>4 DEF Found, Compared, SameKey, rest
  <2>9. look.base < look.cursor => Found(ends)
    BY <2>2, <2>5 DEF Found, Compared, SameKey
  <2> QED
    BY <1>5, <2>4, <2>5, <2>6, <2>7, <2>8, <2>9
<1>11. CASE ReadPrefix
  <2> DEFINE head == Range(transcript, 0, Least(look.cursor, PrefixBytes))
             l == [look EXCEPT !.at = "digest", !.prefix = head]
  <2>1. head \in Seq(Nat)
    <3>1. Least(look.cursor, PrefixBytes) \in Nat /\ 0 \in Nat
      BY <1>3 DEF Least, Looks, PublishConstants
    <3> QED
      BY <1>3, <3>1, RangeType
  <2>2. Look(l) /\ look.at = "prefix"
    BY <1>11, Zenon DEF ReadPrefix, Looking
  <2> HIDE DEF head, done
  <2>3. /\ l \in Looks /\ l.at = "digest" /\ l.prefix = head /\ l.left = look.left
        /\ l.enc = look.enc /\ l.gen = look.gen /\ l.dk = look.dk
        /\ l.base = look.base /\ l.cursor = look.cursor
    BY <1>3, <2>1 DEF Looks
  <2> HIDE DEF l
  <2>4. Found(l)
    BY <2>2, <2>3 DEF Found, HeadRead, SameKey, SameRange, head
  <2> QED
    BY <1>5, <2>2, <2>3, <2>4
<1>12. CASE Record
  BY <1>12, Zenon DEF Record, Looking, Adopts
<1> HIDE DEF done
<1> QED
  BY <1>7, <1>8, <1>9, <1>10, <1>11, <1>12 DEF Reconcile

(* What a reconciliation that concludes makes of the run.                    *)
LEMMA SettleRecord ==
  ASSUME TypeOK, NEW s, Settle(s)
  PROVE  /\ run' = [run EXCEPT !.look = NoLook] /\ run' \in RunRecord
         /\ state' = s /\ plan' = plan
         /\ pc' \in {"verify", "replace", "resave"}
BY NoLookType DEF Settle, Goto, TypeOK, RunTypeOK, RunRecord

(* The steps of a run that leave the store alone. *)
LEMMA LocalStepType ==
  ASSUME PublishConstants, TypeOK, PlanInv,
         (\E mode \in Modes : Begin(mode)) \/ Reconcile \/ Verify \/ Plan
           \/ Save \/ Return \/ Conflict \/ Resave \/ Replan
  PROVE  TypeOK'
<1> USE PublishConstants, TypeOK DEF TypeOK
<1>1. CASE \E mode \in Modes : Begin(mode)
  <2>1. PICK mode \in Modes : Begin(mode)
    BY <1>1
  <2>2. run' = [mode |-> mode, size |-> Len(transcript), deleting |-> FALSE, recoveries |-> 0,
                prefix |-> <<>>, wraps |-> FALSE, data |-> <<>>, look |-> NoLook]
    BY <2>1 DEF Begin, NoRun
  <2>3. run' \in RunRecord
    BY <2>2, NoBytes, NoLookType DEF RunRecord, FileTypeOK
  <2>4. state' \in PublishState /\ pc' \in Steps /\ plan' = plan
    BY <2>1 DEF Begin, Goto, FileTypeOK, Steps
  <2>5. RunTypeOK'
    BY <2>3, <2>4 DEF RunTypeOK, RunRecord
  <2> QED
    BY <2>1, <2>5 DEF Begin, Outside, file, store, FileTypeOK, StoreTypeOK, HistoryTypeOK
<1>2. CASE Reconcile
  <2>1. /\ UNCHANGED <<transcript, epoch, sharing, mark, mishaps, troubles, saved, row, chunks,
                       wrap, sealed>>
        /\ End \/ Reads \/ Settle(state) \/ Adopts
    BY <1>2, ReconcileSteps
  <2>2. RunTypeOK'
    <3>1. CASE End
      BY <3>1, EndType
    <3>2. CASE Reads
      BY <3>2 DEF Reads, RunTypeOK
    <3>3. CASE Settle(state)
      BY <3>3, SettleRecord DEF RunTypeOK, RunRecord, Steps
    <3>4. CASE Adopts
      BY <3>4, SettleRecord, AdoptType DEF Adopts, RunTypeOK, RunRecord, Steps
    <3> QED
      BY <2>1, <3>1, <3>2, <3>3, <3>4
  <2> QED
    BY <2>1, <2>2 DEF FileTypeOK, StoreTypeOK, HistoryTypeOK
<1>3. CASE Verify
  <2>1. RunTypeOK'
    <3> DEFINE stale == ~Verified(state, run.size)
               kept == IF stale THEN Reset(state) ELSE state
               base == IF Migrates(state) /\ Published(kept) THEN Reset(kept) ELSE kept
               rotates == Aead /\ base.enc /\ base.dk = Unreadable
    <3>1. base \in PublishState
      BY ResetFacts DEF RunTypeOK
    <3>2. state' \in IF Aead THEN SetupCipher(base) ELSE {base}
      BY <1>3 DEF Verify
    <3>3. state' \in PublishState
      <4> HIDE DEF base
      <4> QED
        BY <3>1, <3>2, SetupCipherFacts DEF StoreTypeOK
    <3>4. \E d, w \in BOOLEAN : run' = [run EXCEPT !.deleting = d, !.wraps = w]
      <4>1. run' = [run EXCEPT !.deleting = stale \/ Migrates(state) \/ rotates,
                               !.wraps = Aead /\ ~Opens(base)]
        BY <1>3, Zenon DEF Verify
      <4>2. /\ (stale \/ Migrates(state) \/ rotates) \in BOOLEAN
            /\ (Aead /\ ~Opens(base)) \in BOOLEAN
        OBVIOUS
      <4> HIDE DEF stale, rotates, base
      <4> QED
        BY <4>1, <4>2, Zenon
    <3>5. pc' \in Steps /\ plan' = plan
      BY <1>3 DEF Verify, Goto, Steps
    <3> QED
      BY <3>3, <3>4, <3>5 DEF RunTypeOK
  <2> QED
    BY <1>3, <2>1 DEF Verify, Outside, file, store, FileTypeOK, StoreTypeOK, HistoryTypeOK
<1>4. CASE Plan
  <2>1. RunTypeOK'
    <3>1. PlanChunks(state, run.size) \in Seq(PieceType)
      BY PlanFacts DEF RunTypeOK, FileTypeOK
    <3>2. CASE PlanChunks(state, run.size) = <<>>
      BY <1>4, <3>2, EndType DEF Plan
    <3>3. CASE PlanChunks(state, run.size) # <<>>
      BY <1>4, <3>1, <3>3 DEF Plan, Goto, RunTypeOK, PieceType, Steps
    <3> QED
      BY <3>2, <3>3
  <2> QED
    BY <1>4, <2>1 DEF Plan, Outside, file, store, FileTypeOK, StoreTypeOK, HistoryTypeOK
<1>5. CASE Save
  <2>1. Checkpoint \in PublishState
    <3> DEFINE c == Head(plan)
               bytes == state.digest \o run.data
    <3>1. c \in PieceType
      <4>1. plan \in Seq(PieceType) /\ plan # <<>>
        BY <1>5 DEF Save, RunTypeOK, PieceType, PlanInv, Sending
      <4> QED
        BY <4>1
    <3>2. bytes \in Seq(Nat)
      BY DEF RunTypeOK, PublishState
    <3>3. Checkpoint = [start |-> state.start, offset |-> c.end,
                        digest |-> bytes, prefix |-> run.prefix,
                        enc |-> state.enc, gen |-> state.gen, dk |-> state.dk]
      <4>1. Checkpoint = [state EXCEPT !.offset = c.end, !.digest = bytes, !.prefix = run.prefix]
        BY Zenon DEF Checkpoint
      <4> HIDE DEF bytes, c
      <4> QED
        BY <4>1 DEF RunTypeOK, PublishState
    <3>4. c.end \in Nat /\ run.prefix \in Seq(Nat)
      BY <3>1 DEF RunTypeOK, PieceType
    <3>5. state \in PublishState
      BY DEF RunTypeOK
    <3> HIDE DEF c, bytes
    <3> QED
      BY <3>2, <3>3, <3>4, <3>5, StateFields DEF PublishState
  <2>2. RunTypeOK'
    <3>1. plan' \in Seq(PieceType)
      BY <1>5 DEF Save, RunTypeOK, PieceType, PlanInv, Sending
    <3>2. run' \in RunRecord
      BY <1>5, NoBytes DEF Save, RunTypeOK, RunRecord
    <3>3. pc' \in Steps /\ state' \in PublishState
      BY <1>5, <2>1 DEF Save, Goto, Steps
    <3> QED
      BY <3>1, <3>2, <3>3 DEF RunTypeOK, RunRecord, PieceType
  <2> QED
    BY <1>5, <2>1, <2>2 DEF Save, Outside, file, store, FileTypeOK, StoreTypeOK, HistoryTypeOK
<1>6. CASE Return
  BY <1>6, EndType DEF Return, Outside, file, store, FileTypeOK, StoreTypeOK, HistoryTypeOK
<1>7. CASE Conflict
  <2>1. RunTypeOK'
    <3>1. CASE run.recoveries < MaxRecoveries
      <4> DEFINE n == run.recoveries + 1
      <4>1. run' = [run EXCEPT !.recoveries = n] /\ n \in Nat
        BY <1>7, <3>1 DEF Conflict, RunTypeOK
      <4>2. UNCHANGED <<state, plan>> /\ pc' = "recover"
        BY <1>7, <3>1 DEF Conflict, Goto
      <4> HIDE DEF n
      <4> QED
        BY <4>1, <4>2 DEF RunTypeOK, Steps
    <3>2. CASE ~(run.recoveries < MaxRecoveries)
      BY <1>7, <3>2, EndType DEF Conflict
    <3> QED
      BY <3>1, <3>2
  <2> QED
    BY <1>7, <2>1 DEF Conflict, Outside, file, store, FileTypeOK, StoreTypeOK, HistoryTypeOK
<1>8. CASE Resave
  BY <1>8 DEF Resave, Goto, Steps, RunTypeOK,
              Outside, file, store, FileTypeOK, StoreTypeOK, HistoryTypeOK
<1>9. CASE Replan
  <2>1. RunTypeOK'
    <3> DEFINE kept == IF Verified(state, run.size) THEN state ELSE Reset(state)
               todo == PlanChunks(kept, run.size)
    <3>1. kept \in PublishState
      BY ResetFacts DEF RunTypeOK
    <3>2. todo \in Seq(PieceType)
      BY <3>1, PlanFacts DEF RunTypeOK, FileTypeOK
    <3>3. CASE todo = <<>>
      BY <1>9, <3>3, EndType DEF Replan
    <3>4. CASE todo # <<>>
      <4>1. /\ plan' = todo /\ pc' = "register"
            /\ state' \in IF Aead THEN SetupCipher(kept) ELSE {kept}
            /\ run' = [run EXCEPT !.wraps = Aead /\ ~Opens(kept)]
        BY <1>9, <3>4 DEF Replan, Goto
      <4>2. state' \in PublishState
        <5> HIDE DEF kept
        <5> QED
          BY <3>1, <4>1, SetupCipherFacts DEF StoreTypeOK
      <4>3. \E w \in BOOLEAN : run' = [run EXCEPT !.wraps = w]
        <5> (Aead /\ ~Opens(kept)) \in BOOLEAN
          OBVIOUS
        <5> HIDE DEF kept
        <5> QED
          BY <4>1, Zenon
      <4> HIDE DEF todo, kept
      <4> QED
        BY <3>2, <4>1, <4>2, <4>3 DEF RunTypeOK, PieceType, Steps
    <3> QED
      BY <3>3, <3>4
  <2> QED
    BY <1>9, <2>1 DEF Replan, Outside, file, store, FileTypeOK, StoreTypeOK, HistoryTypeOK
<1> QED
  BY <1>1, <1>2, <1>3, <1>4, <1>5, <1>6, <1>7, <1>8, <1>9

(* The steps of a run that change the store. *)
LEMMA EnterLoopType ==
  ASSUME PublishConstants, TypeOK, EnterLoop
  PROVE  RunTypeOK'
<1> DEFINE head == IF run.recoveries = 0
                     THEN Range(transcript, 0, Least(run.size, PrefixBytes)) ELSE run.prefix
<1>1. head \in Seq(Nat)
  <2>1. Least(run.size, PrefixBytes) \in Nat /\ 0 \in Nat /\ transcript \in Seq(Nat)
    BY DEF PublishConstants, Least, TypeOK, RunTypeOK, FileTypeOK
  <2>2. run.prefix \in Seq(Nat)
    BY DEF TypeOK, RunTypeOK
  <2> QED
    BY <2>1, <2>2, RangeType
<1>2. run' = [run EXCEPT !.wraps = FALSE, !.prefix = head]
  BY DEF EnterLoop, TypeOK, RunTypeOK
<1> HIDE DEF head
<1> QED
  BY <1>1, <1>2 DEF EnterLoop, Goto, TypeOK, RunTypeOK, Steps

LEMMA StoreStepType ==
  ASSUME PublishConstants, TypeOK, PlanInv, KeyInv,
         Delete \/ Register \/ PutWraps \/ Send \/ Replace
  PROVE  TypeOK'
<1> USE PublishConstants, TypeOK DEF TypeOK
<1>1. CASE Delete
  <2>1. StoreTypeOK'
    BY <1>1, DeleteType DEF Delete
  <2> QED
    BY <1>1, <2>1 DEF Delete, Goto, Steps, Outside, file, FileTypeOK, RunTypeOK, HistoryTypeOK
<1>2. CASE Register
  <2>1. StoreTypeOK'
    <3>1. row' \in {row, Registered(Aead, state.gen)} /\ chunks' = chunks /\ wrap' = wrap
      BY <1>2 DEF Register
    <3>2. Registered(Aead, state.gen) \in
            [status : {"absent", "live", "deleted"}, enc : BOOLEAN, gen : Nat]
      BY StateFields DEF Registered, StoreTypeOK, RunTypeOK
    <3> QED
      BY <3>1, <3>2 DEF StoreTypeOK
  <2>2. RunTypeOK'
    <3>1. CASE Goto("wrap") /\ UNCHANGED <<state, plan, run>>
      BY <3>1 DEF Goto, Steps, RunTypeOK
    <3> QED
      BY <1>2, <3>1, EnterLoopType, EndType DEF Register
  <2> QED
    BY <1>2, <2>1, <2>2 DEF Register, Outside, file, FileTypeOK, HistoryTypeOK
<1>3. CASE PutWraps
  <2>1. StoreTypeOK'
    <3>1. /\ wrap' \in {wrap, [gen |-> state.gen, dk |-> state.dk]}
          /\ chunks' = chunks /\ row' = row
      BY <1>3 DEF PutWraps
    <3>2. CASE wrap' = [gen |-> state.gen, dk |-> state.dk]
      <4>1. state.gen \in Nat /\ state.dk \in Keys
        BY <1>3, StateFields DEF PutWraps, KeyInv, Sending, RunTypeOK
      <4> QED
        BY <3>1, <3>2, <4>1 DEF StoreTypeOK
    <3> QED
      BY <3>1, <3>2 DEF StoreTypeOK
  <2>2. RunTypeOK'
    BY <1>3, EnterLoopType, EndType DEF PutWraps
  <2> QED
    BY <1>3, <2>1, <2>2 DEF PutWraps, Outside, file, FileTypeOK, HistoryTypeOK
<1>4. CASE Replace
  <2>1. StoreTypeOK'
    BY <1>4, DeleteType DEF Replace
  <2>2. state' \in PublishState
    BY <1>4, ResetFacts DEF Replace, RunTypeOK
  <2> QED
    BY <1>4, <2>1, <2>2 DEF Replace, Goto, Steps, Outside, file, FileTypeOK, RunTypeOK, HistoryTypeOK
<1>5. CASE Send
  <2> DEFINE c == Head(plan)
             data == Range(transcript, c.off, c.end)
             body == IF Aead THEN Seal(state.dk, state.gen, c.off, data) ELSE Plain(data)
             chunk == [off |-> c.off, end |-> c.end, body |-> body]
  <2>1. c \in PieceType
    <3>1. plan \in Seq(PieceType) /\ plan # <<>>
      BY <1>5 DEF Send, RunTypeOK, PieceType, PlanInv, Sending
    <3> QED
      BY <3>1
  <2>2. data \in Seq(Nat) /\ c.off \in Nat /\ c.end \in Nat
    BY <2>1, RangeType DEF PieceType, FileTypeOK
  <2>3. body \in Body
    <3>1. CASE Aead
      <4>1. state.dk \in Keys /\ state.gen \in Nat
        BY <1>5, <3>1, StateFields DEF Send, KeyInv, Sending, RunTypeOK
      <4> HIDE DEF c, data
      <4> QED
        BY <2>2, <3>1, <4>1 DEF Seal, Body
    <3>2. CASE ~Aead
      <4> HIDE DEF c, data
      <4> QED
        BY <2>2, <3>2 DEF Plain, Body
    <3> QED
      BY <3>1, <3>2
  <2>4. /\ sealed' \in {sealed, sealed \cup {body}}
        /\ chunks' \in {chunks, chunks \cup {chunk}}
        /\ row' = row /\ wrap' = wrap
    BY <1>5, Zenon DEF Send
  <2>5. chunk \in Chunk
    <3> HIDE DEF c, body
    <3> QED
      BY <2>2, <2>3 DEF Chunk
  <2>6. StoreTypeOK' /\ HistoryTypeOK'
    <3> HIDE DEF chunk, body
    <3> QED
      BY <1>5, <2>3, <2>4, <2>5 DEF Send, Outside, StoreTypeOK, HistoryTypeOK, Chunk
  <2>7. RunTypeOK'
    <3>1. CASE End
      BY <3>1, EndType
    <3>2. CASE Goto("save") /\ run' = [run EXCEPT !.data = data] /\ UNCHANGED <<state, plan>>
      <4> HIDE DEF data
      <4> QED
        BY <2>2, <3>2 DEF Goto, Steps, RunTypeOK
    <3>3. CASE Goto("conflict") /\ UNCHANGED <<state, plan, run>>
      BY <3>3 DEF Goto, Steps, RunTypeOK
    <3> QED
      BY <1>5, <3>1, <3>2, <3>3, Zenon DEF Send
  <2> QED
    BY <1>5, <2>6, <2>7 DEF Send, Outside, file, FileTypeOK
<1> QED
  BY <1>1, <1>2, <1>3, <1>4, <1>5

(* The editor, the user, and what goes wrong around a run. *)
Environment ==
    \/ Grow
    \/ \E head, tail \in 0 .. MaxLength : Rewrite(head, tail)
    \/ EndEarly \/ LoseState \/ SpoilKey \/ Unpublish \/ ShareOff \/ ShareOn

LEMMA AroundType ==
  ASSUME TypeOK, Around' = Around
  PROVE  StoreTypeOK' /\ RunTypeOK' /\ sealed' \subseteq Body
BY DEF TypeOK, Around, store, local, StoreTypeOK, RunTypeOK, HistoryTypeOK

LEMMA EnvironmentType ==
  ASSUME PublishConstants, TypeOK, Environment
  PROVE  TypeOK'
<1> USE PublishConstants, TypeOK DEF TypeOK
<1>1. CASE Grow
  <2>1. transcript' \in Seq(Nat)
    BY <1>1 DEF Grow, FileTypeOK
  <2>2. Around' = Around
    BY <1>1, Zenon DEF Grow
  <2> QED
    BY <1>1, <2>1, <2>2, AroundType DEF Grow, FileTypeOK, HistoryTypeOK
<1>2. CASE \E head, tail \in 0 .. MaxLength : Rewrite(head, tail)
  <2>1. PICK head \in 0 .. MaxLength, tail \in 0 .. MaxLength : Rewrite(head, tail)
    BY <1>2
  <2>2. transcript' \in Seq(Nat)
    <3> DEFINE kept == SubSeq(transcript, 1, head)
               new == [i \in 1 .. tail |-> epoch + 1]
    <3>1. kept \in Seq(Nat)
      BY <2>1 DEF Rewrite, FileTypeOK, PublishConstants
    <3>2. new \in Seq(Nat)
      BY DEF FileTypeOK, PublishConstants
    <3>3. transcript' = kept \o new
      BY <2>1, Zenon DEF Rewrite
    <3> HIDE DEF kept, new
    <3> QED
      BY <3>1, <3>2, <3>3
  <2>3. epoch' \in Nat /\ UNCHANGED <<sharing, mark, saved, troubles>>
    BY <2>1 DEF Rewrite, FileTypeOK
  <2>4. Around' = Around
    BY <2>1, Zenon DEF Rewrite
  <2>5. mishaps' \subseteq Mishaps
    BY <2>1 DEF Rewrite, Suffers, Mishaps, HistoryTypeOK
  <2> QED
    BY <2>2, <2>3, <2>4, <2>5, AroundType DEF FileTypeOK, HistoryTypeOK
<1>3. CASE EndEarly
  <2>1. mishaps' \subseteq Mishaps
    <3>1. \E some \in SUBSET Mishaps : mishaps' = mishaps \cup some
      BY <1>3 DEF EndEarly, Suffers, Mishaps
    <3> QED
      BY <3>1 DEF HistoryTypeOK
  <2> QED
    BY <1>3, <2>1, EndType
       DEF EndEarly, Trouble, file, store, FileTypeOK, StoreTypeOK, HistoryTypeOK
<1>4. CASE LoseState
  <2>1. Around' = Around
    BY <1>4, Zenon DEF LoseState
  <2>2. mishaps' \subseteq Mishaps
    BY <1>4 DEF LoseState, Suffers, Mishaps, HistoryTypeOK
  <2> QED
    BY <1>4, <2>1, <2>2, AroundType, FreshType
       DEF LoseState, Trouble, file, FileTypeOK, HistoryTypeOK
<1>5. CASE SpoilKey
  <2>1. Around' = Around
    BY <1>5, Zenon DEF SpoilKey
  <2>2. saved' \in PublishState
    BY <1>5 DEF SpoilKey, FileTypeOK, PublishState
  <2> QED
    BY <1>5, <2>1, <2>2, AroundType
       DEF SpoilKey, Trouble, file, FileTypeOK, HistoryTypeOK
<1>6. CASE Unpublish
  <2>1. StoreTypeOK'
    BY <1>6, DeleteType DEF Unpublish
  <2>2. mishaps' \subseteq Mishaps
    BY <1>6 DEF Unpublish, Suffers, Crossing, Mishaps, HistoryTypeOK
  <2>3. sharing' \in BOOLEAN
    BY <1>6, Zenon DEF Unpublish
  <2> QED
    BY <1>6, <2>1, <2>2, <2>3, FreshType
       DEF Unpublish, Trouble, file, local, FileTypeOK, RunTypeOK, HistoryTypeOK
<1>7. CASE ShareOff
  <2>1. Around' = Around
    BY <1>7, Zenon DEF ShareOff
  <2>2. mishaps' \subseteq Mishaps
    BY <1>7 DEF ShareOff, Suffers, Crossing, Mishaps, HistoryTypeOK
  <2>3. sharing' \in BOOLEAN
    BY <1>7, Zenon DEF ShareOff
  <2> QED
    BY <1>7, <2>1, <2>2, <2>3, AroundType
       DEF ShareOff, Trouble, file, FileTypeOK, HistoryTypeOK
<1>8. CASE ShareOn
  <2>1. Around' = Around
    BY <1>8, Zenon DEF ShareOn
  <2>2. mishaps' \subseteq Mishaps
    BY <1>8 DEF ShareOn, Suffers, Crossing, Mishaps, HistoryTypeOK
  <2>3. mark' \in Nat /\ saved' \in PublishState
    <3> DEFINE n == Len(transcript)
    <3>1. \/ mark' = mark /\ saved' = saved
          \/ mark' = n /\ saved' = [saved EXCEPT !.start = n]
      BY <1>8, Zenon DEF ShareOn
    <3>2. n \in Nat /\ mark \in Nat /\ saved \in PublishState
      BY DEF FileTypeOK
    <3> HIDE DEF n
    <3>3. [saved EXCEPT !.start = n] \in PublishState
      BY <3>2 DEF PublishState
    <3> QED
      BY <3>1, <3>2, <3>3, Zenon
  <2>4. sharing' \in BOOLEAN
    BY <1>8, Zenon DEF ShareOn
  <2>5. UNCHANGED file /\ troubles' \in Nat
    BY <1>8 DEF ShareOn, Trouble, HistoryTypeOK
  <2> QED
    BY <2>1, <2>2, <2>3, <2>4, <2>5, AroundType DEF file, FileTypeOK, HistoryTypeOK
<1> QED
  BY <1>1, <1>2, <1>3, <1>4, <1>5, <1>6, <1>7, <1>8 DEF Environment

LEMMA NextType ==
  ASSUME PublishConstants, TypeOK, PlanInv, KeyInv, [Next]_vars
  PROVE  TypeOK'
<1>1. CASE UNCHANGED vars
  BY <1>1 DEF vars, file, store, local, history,
              TypeOK, FileTypeOK, StoreTypeOK, RunTypeOK, HistoryTypeOK
<1> QED
  BY <1>1, LocalStepType, StoreStepType, EnvironmentType DEF Next, RunStep, Environment

(* A run keeps its plan and its key until it ends or makes others. *)
LEMMA NextRunInv ==
  ASSUME PublishConstants, TypeOK, PlanInv, KeyInv, [Next]_vars
  PROVE  PlanInv' /\ KeyInv'
<1>1. CASE local' = local
  BY <1>1 DEF local, PlanInv, KeyInv, Sending, Aead
<1>2. CASE \E mode \in Modes : Begin(mode)
  BY <1>2 DEF Begin, Goto, NoRun, PlanInv, KeyInv, Sending, Aead
<1>3. CASE Reconcile
  <2>1. /\ pc \in Reading
        /\ End \/ Reads \/ Settle(state) \/ Adopts
    BY <1>3, ReconcileSteps
  <2>2. CASE End
    BY <2>2, EndPlan
  <2>3. CASE Reads
    BY <2>1, <2>3 DEF Reads, Reading, PlanInv, KeyInv, Sending, Aead, TypeOK, RunTypeOK
  <2>4. CASE \E s : Settle(s)
    <3>1. /\ run' = [run EXCEPT !.look = NoLook] /\ pc' \in {"verify", "replace", "resave"}
      BY <2>4, SettleRecord
    <3> QED
      BY <3>1 DEF PlanInv, KeyInv, Sending, Aead, TypeOK, RunTypeOK
  <2> QED
    BY <2>1, <2>2, <2>3, <2>4 DEF Adopts
<1>4. CASE Verify
  <2> DEFINE kept == IF ~Verified(state, run.size) THEN Reset(state) ELSE state
             base == IF Migrates(state) /\ Published(kept) THEN Reset(kept) ELSE kept
  <2>1. base \in PublishState /\ row.gen \in Nat
    BY ResetFacts DEF TypeOK, RunTypeOK, StoreTypeOK
  <2>2. /\ state' \in IF Aead THEN SetupCipher(base) ELSE {base}
        /\ \E d : run' = [run EXCEPT !.deleting = d, !.wraps = Aead /\ ~Opens(base)]
        /\ pc' = "plan"
    BY <1>4, Zenon DEF Verify, Goto
  <2>3. Aead => state'.dk \in Keys
    <3> HIDE DEF base
    <3> QED
      BY <2>1, <2>2, SetupCipherFacts
  <2>4. run'.mode = run.mode /\ (run'.wraps => Aead)
    <3> HIDE DEF base
    <3> QED
      BY <2>2 DEF TypeOK, RunTypeOK
  <2> QED
    BY <2>2, <2>3, <2>4 DEF PlanInv, KeyInv, Sending, Aead
<1>5. CASE Plan
  BY <1>5, EndPlan DEF Plan, Goto, PlanInv, KeyInv, Sending, Aead
<1>6. CASE Delete
  BY <1>6 DEF Delete, Goto, PlanInv, KeyInv, Sending, Aead
<1>7. ASSUME EnterLoop, pc \in {"register", "wrap"}
      PROVE  PlanInv' /\ KeyInv'
  BY <1>7 DEF EnterLoop, Goto, PlanInv, KeyInv, Sending, Aead, TypeOK, RunTypeOK
<1>8. CASE Register
  <2>1. CASE Goto("wrap") /\ run.wraps /\ UNCHANGED <<state, plan, run>>
    BY <1>8, <2>1 DEF Register, Goto, PlanInv, KeyInv, Sending, Aead
  <2> QED
    BY <1>7, <1>8, <2>1, EndPlan DEF Register
<1>9. CASE PutWraps
  BY <1>7, <1>9, EndPlan DEF PutWraps
<1>10. CASE Send
  <2> DEFINE data == Range(transcript, Head(plan).off, Head(plan).end)
  <2>1. CASE Goto("save") /\ UNCHANGED <<state, plan>> /\ run' = [run EXCEPT !.data = data]
    <3> HIDE DEF data
    <3>1. pc = "send"
      BY <1>10 DEF Send
    <3> QED
      BY <2>1, <3>1 DEF Goto, PlanInv, KeyInv, Sending, Aead, TypeOK, RunTypeOK
  <2>2. CASE Goto("conflict") /\ UNCHANGED <<state, plan, run>>
    BY <2>2 DEF Goto, PlanInv, KeyInv, Sending, Aead
  <2>3. CASE End
    BY <2>3, EndPlan
  <2> QED
    BY <1>10, <2>1, <2>2, <2>3, Zenon DEF Send
<1>11. CASE Save
  <2>1. plan \in Seq(PieceType) /\ plan # <<>>
    BY <1>11 DEF Save, TypeOK, RunTypeOK, PieceType, PlanInv, Sending
  <2>2. PlanInv'
    <3>1. Len(plan) # 1 => Tail(plan) # <<>>
      <4>1. Len(plan) \in Nat /\ Len(plan) # 0
        BY <2>1
      <4>2. Len(Tail(plan)) = Len(plan) - 1
        BY <2>1, <4>1
      <4>3. Len(<<>>) = 0
        OBVIOUS
      <4>4. Tail(plan) = <<>> => Len(Tail(plan)) = 0
        BY <4>3, Zenon
      <4> DEFINE n == Len(plan)
                 m == Len(Tail(plan))
      <4>5. n \in Nat /\ m = n - 1 /\ (Tail(plan) = <<>> => m = 0)
        BY <4>1, <4>2, <4>4
      <4>6. Tail(plan) = <<>> => n = 1
        <5> HIDE DEF n, m
        <5> QED
          BY <4>5
      <4> QED
        BY <4>6
    <3>2. plan' = Tail(plan) /\ pc' = IF Len(plan) = 1 THEN "done" ELSE "send"
      BY <1>11 DEF Save, Goto
    <3> QED
      BY <3>1, <3>2 DEF PlanInv, Sending
  <2>3. run'.mode = run.mode /\ run'.wraps = run.wraps
    BY <1>11 DEF Save, TypeOK, RunTypeOK
  <2>4. state'.dk = state.dk
    BY <1>11 DEF Save, Checkpoint, TypeOK, RunTypeOK, PublishState
  <2>5. pc = "save" /\ pc' \in {"done", "send"}
    BY <1>11 DEF Save, Goto
  <2> QED
    BY <2>2, <2>3, <2>4, <2>5 DEF KeyInv, Sending, Aead
<1>12. CASE Return
  BY <1>12, EndPlan DEF Return
<1>13. CASE Conflict
  <2>1. CASE /\ pc' = "recover"
             /\ run' = [run EXCEPT !.recoveries = @ + 1]
    BY <2>1 DEF PlanInv, KeyInv, Sending, Aead, TypeOK, RunTypeOK
  <2> QED
    BY <1>13, <2>1, EndPlan DEF Conflict, Goto
<1>14. CASE Replace
  BY <1>14 DEF Replace, Goto, PlanInv, KeyInv, Sending, Aead
<1>15. CASE Resave
  BY <1>15 DEF Resave, Goto, PlanInv, KeyInv, Sending, Aead
<1>16. CASE Replan
  <2> DEFINE kept == IF Verified(state, run.size) THEN state ELSE Reset(state)
             todo == PlanChunks(kept, run.size)
  <2>1. CASE todo = <<>>
    BY <1>16, <2>1, EndPlan DEF Replan
  <2>2. CASE todo # <<>>
    <3>1. kept \in PublishState /\ row.gen \in Nat
      BY ResetFacts DEF TypeOK, RunTypeOK, StoreTypeOK
    <3>2. /\ state' \in IF Aead THEN SetupCipher(kept) ELSE {kept}
          /\ run' = [run EXCEPT !.wraps = Aead /\ ~Opens(kept)]
          /\ pc' = "register" /\ plan' = todo
      BY <1>16, <2>2 DEF Replan, Goto
    <3> HIDE DEF kept, todo
    <3>3. Aead => state'.dk \in Keys
      BY <3>1, <3>2, SetupCipherFacts
    <3>4. run'.mode = run.mode /\ (run'.wraps => Aead)
      BY <3>2 DEF TypeOK, RunTypeOK
    <3> QED
      BY <2>2, <3>2, <3>3, <3>4 DEF PlanInv, KeyInv, Sending, Aead
  <2> QED
    BY <2>1, <2>2
<1>17. CASE EndEarly
  BY <1>17, EndPlan DEF EndEarly
<1>18. CASE UNCHANGED vars \/ (Environment /\ ~EndEarly)
  BY <1>1, <1>18 DEF vars, Environment, Around, Grow, Rewrite, LoseState, SpoilKey,
                     Unpublish, ShareOff, ShareOn
<1> QED
  BY <1>2, <1>3, <1>4, <1>5, <1>6, <1>8, <1>9, <1>10, <1>11, <1>12, <1>13, <1>14, <1>15,
     <1>16, <1>17, <1>18 DEF Next, RunStep, Environment

-----------------------------------------------------------------------------
(* What a reconciliation has read so far                                    *)

(* What it was told by the store: nothing but a command of the user changes  *)
(* the store under it, and that one deletes the session.  The range found    *)
(* equal begins where the first chunk does, and ends where one ends.         *)
LookStore ==
    /\ Live
    /\ run.look.left \subseteq chunks
    /\ run.look.at \in {"compare", "prefix", "digest"} => (run.look.enc <=> row.enc)
    /\ \E b \in chunks : b.off = run.look.base
    /\ \A c \in chunks : run.look.base <= c.off
    /\ run.look.cursor = run.look.base \/ \E e \in chunks : run.look.cursor = e.end
    /\ run.look.at \in {"prefix", "digest"} => \E e \in chunks : run.look.cursor = e.end

Undone == {"forgotten", "crossed"}

LookInv ==
    /\ pc \notin Reading \/ run.look.at = "list" => run.look = NoLook
    /\ run.look.enc => Aead /\ row.enc /\ run.look.gen = row.gen
    /\ run.look.at = "scheme" => ~run.look.enc
    /\ run.look.at = "key" => run.look.enc
    /\ run.look.enc /\ run.look.at \in {"compare", "prefix", "digest"} => run.look.dk \in Keys
    /\ run.look.at # "list" => LookStore \/ Undone \subseteq mishaps

LEMMA NoLookInv == run'.look = NoLook => LookInv'
BY DEF LookInv, NoLook

(* A step of a reconciliation that reads.                                    *)
LEMMA ReadsLook ==
  ASSUME PublishConstants, TypeOK, LookInv, pc \in Reading, NEW l \in Looks, Found(l),
         run' = [run EXCEPT !.look = l], UNCHANGED <<pc, row, chunks, mishaps>>
  PROVE  LookInv'
<1>1. /\ run'.look = l /\ run'.mode = run.mode /\ run.look \in Looks
      /\ row.enc \in BOOLEAN /\ row.gen \in Nat
      /\ l.at \in {"list", "scheme", "key", "compare", "prefix", "digest"}
      /\ l.enc \in BOOLEAN /\ run.look.enc \in BOOLEAN
      /\ run.look.base \in Nat /\ run.look.cursor \in Nat
  BY DEF TypeOK, RunTypeOK, StoreTypeOK, Looks
<1> DEFINE told == /\ Live
                   /\ l.left \subseteq chunks
                   /\ l.at \in {"compare", "prefix", "digest"} => (l.enc <=> row.enc)
                   /\ \E b \in chunks : b.off = l.base
                   /\ \A c \in chunks : l.base <= c.off
                   /\ l.cursor = l.base \/ \E e \in chunks : l.cursor = e.end
                   /\ l.at \in {"prefix", "digest"} => \E e \in chunks : l.cursor = e.end
<1>2. told => LookStore'
  BY <1>1 DEF LookStore, Live
<1> DEFINE keyed == /\ l.enc => Aead /\ row.enc /\ l.gen = row.gen
                    /\ l.at = "scheme" => ~l.enc
                    /\ l.at = "key" => l.enc
                    /\ l.enc /\ l.at \in {"compare", "prefix", "digest"} => l.dk \in Keys
                    /\ l.at # "list"
<1>3. SUFFICES keyed /\ (told \/ Undone \subseteq mishaps)
  BY <1>1, <1>2 DEF LookInv, Aead
<1>4. CASE Listed(l)
  <2>1. run.look = NoLook /\ l.at = "scheme" /\ ~l.enc
    BY <1>4 DEF Listed, LookInv, SameKey, NoLook
  <2> QED
    BY <1>4, <2>1 DEF Listed
<1>5. CASE Asked(l)
  <2>1. keyed
    BY <1>1, <1>5, Zenon DEF Asked, LookInv, SameKey, ServerEnc
  <2>2. LookStore => told
    BY <1>1, <1>5 DEF LookStore, Asked, LookInv, SameKey, SameRange, ServerEnc, Looks
  <2> QED
    BY <1>5, <2>1, <2>2 DEF Asked, LookInv
<1>6. CASE Compared(l)
  <2>1. keyed
    BY <1>1, <1>6 DEF Compared, LookInv, SameKey
  <2>2. ASSUME LookStore
        PROVE  told
    <3>1. /\ l.left \subseteq chunks /\ \E e \in chunks : l.cursor = e.end
      <4>1. CASE \E c \in run.look.left : l.left = run.look.left \ {c} /\ l.cursor = c.end
        BY <2>2, <4>1 DEF LookStore
      <4>2. CASE run.look.base < run.look.cursor /\ l.left = {} /\ l.cursor = run.look.cursor
        BY <1>1, <2>2, <4>2 DEF LookStore, Looks
      <4> QED
        BY <1>6, <4>1, <4>2 DEF Compared
    <3> QED
      BY <1>1, <1>6, <2>2, <3>1 DEF Compared, LookStore, SameKey
  <2> QED
    BY <1>6, <2>1, <2>2 DEF Compared, LookInv
<1>7. CASE HeadRead(l)
  <2>1. keyed
    BY <1>1, <1>7 DEF HeadRead, LookInv, SameKey
  <2>2. LookStore => told
    BY <1>1, <1>7 DEF HeadRead, LookStore, SameKey, SameRange
  <2> QED
    BY <1>7, <2>1, <2>2 DEF HeadRead, LookInv
<1> QED
  BY <1>4, <1>5, <1>6, <1>7 DEF Found

LEMMA RunLook ==
  ASSUME PublishConstants, TypeOK, LookInv, RunStep \/ \E mode \in Modes : Begin(mode)
  PROVE  LookInv'
<1>1. run \in RunRecord
  BY DEF TypeOK, RunTypeOK, RunRecord
<1>2. End => LookInv'
  BY NoLookInv DEF End, NoRun
<1>3. CASE \E mode \in Modes : Begin(mode)
  BY <1>3, NoLookInv DEF Begin, NoRun
<1>4. CASE Reconcile
  <2>1. /\ pc \in Reading
        /\ UNCHANGED <<transcript, epoch, sharing, mark, mishaps, troubles, saved, row, chunks,
                       wrap, sealed>>
        /\ End \/ Reads \/ Settle(state) \/ Adopts
    BY <1>4, ReconcileSteps
  <2>2. CASE \E s : Settle(s)
    BY <1>1, <2>2, NoLookInv DEF Settle, RunRecord
  <2>3. CASE Reads
    BY <2>1, <2>3, ReadsLook DEF Reads
  <2> QED
    BY <1>2, <2>1, <2>2, <2>3 DEF Adopts
<1>5. CASE ~Reconcile /\ RunStep
  <2>1. /\ pc \notin Reading
        /\ \/ End \/ UNCHANGED run
           \/ \E d, w : run' = [run EXCEPT !.deleting = d, !.wraps = w]
           \/ \E w, p : run' = [run EXCEPT !.wraps = w, !.prefix = p]
           \/ \E w : run' = [run EXCEPT !.wraps = w]
           \/ \E b : run' = [run EXCEPT !.data = b]
           \/ \E n : run' = [run EXCEPT !.recoveries = n]
    <3>1. CASE Verify
      BY <3>1, Zenon DEF Verify, Reading
    <3>2. CASE Plan \/ Delete \/ Replace \/ Resave \/ Return
      BY <3>2, Zenon DEF Plan, Delete, Replace, Resave, Return, Reading
    <3>3. CASE Register \/ PutWraps
      BY <3>3, Zenon DEF Register, PutWraps, EnterLoop, Reading
    <3>4. CASE Send
      BY <3>4, Zenon DEF Send, Reading
    <3>5. CASE Save \/ Conflict
      BY <3>5, Zenon DEF Save, Conflict, Reading
    <3>6. CASE Replan
      BY <3>6, Zenon DEF Replan, Reading
    <3> QED
      BY <1>5, <3>1, <3>2, <3>3, <3>4, <3>5, <3>6, Zenon DEF RunStep
  <2>2. End \/ run'.look = run.look
    BY <1>1, <2>1 DEF RunRecord
  <2> QED
    BY <1>2, <2>1, <2>2, NoLookInv DEF LookInv
<1> QED
  BY <1>3, <1>4, <1>5

LEMMA EnvironmentLook ==
  ASSUME TypeOK, LookInv, Environment
  PROVE  LookInv'
<1>1. CASE EndEarly
  BY <1>1, NoLookInv DEF EndEarly, End, NoRun
<1>2. CASE Unpublish
  <2>1. /\ UNCHANGED <<pc, run>> /\ row'.enc = row.enc /\ row'.gen = row.gen
        /\ mishaps' = mishaps \cup ({"forgotten"} \cup Crossing)
    BY <1>2 DEF Unpublish, DeleteSession, Suffers, local, TypeOK, StoreTypeOK
  <2>2. run.look.at # "list" => Undone \subseteq mishaps'
    BY <2>1 DEF LookInv, NoLook, Undone, Crossing, InRun, Reading
  <2> QED
    BY <2>1, <2>2 DEF LookInv, Aead
<1>3. CASE ~EndEarly /\ ~Unpublish
  <2>1. UNCHANGED <<pc, run, row, chunks>> /\ mishaps \subseteq mishaps'
    <3>1. CASE Grow
      BY <3>1 DEF Grow, Around, local, store
    <3>2. CASE \E head, tail \in 0 .. MaxLength : Rewrite(head, tail)
      BY <3>2 DEF Rewrite, Suffers, Around, local, store
    <3>3. CASE LoseState \/ SpoilKey
      BY <3>3 DEF LoseState, SpoilKey, Suffers, Around, local, store
    <3>4. CASE ShareOff \/ ShareOn
      BY <3>4 DEF ShareOff, ShareOn, Suffers, Around, local, store
    <3> QED
      BY <1>3, <3>1, <3>2, <3>3, <3>4 DEF Environment
  <2>2. LookStore => LookStore'
    BY <2>1 DEF LookStore, Live
  <2> QED
    BY <2>1, <2>2 DEF LookInv, Aead, Undone
<1> QED
  BY <1>1, <1>2, <1>3

(* The same steps, variable by variable.                                     *)
OnlyLooks ==
    /\ run'.mode = run.mode /\ run'.size = run.size /\ run'.deleting = run.deleting
    /\ run'.recoveries = run.recoveries /\ run'.prefix = run.prefix
    /\ run'.wraps = run.wraps /\ run'.data = run.data

Concludes(s) ==
    /\ state' = s /\ plan' = plan /\ OnlyLooks /\ run'.look = NoLook
    /\ pc' = IF pc = "reconcile" THEN "verify"
             ELSE IF s.offset <= state.offset THEN "replace" ELSE "resave"

LEMMA ReconcileFacts ==
  ASSUME PublishConstants, TypeOK, Reconcile
  PROVE  /\ pc \in Reading
         /\ UNCHANGED <<transcript, epoch, sharing, mark, mishaps, troubles, saved, row, chunks,
                        wrap, sealed>>
         /\ \/ End
            \/ /\ UNCHANGED <<pc, state, plan>> /\ OnlyLooks
               /\ run'.look \in Looks /\ Found(run'.look)
            \/ Concludes(state)
            \/ /\ Concludes(Adopt(state)) /\ run.look.at = "digest"
               /\ Len(transcript) >= run.look.cursor
<1>1. /\ pc \in Reading
      /\ UNCHANGED <<transcript, epoch, sharing, mark, mishaps, troubles, saved, row, chunks,
                     wrap, sealed>>
      /\ End \/ Reads \/ Settle(state) \/ Adopts
  BY ReconcileSteps
<1>2. run \in RunRecord
  BY DEF TypeOK, RunTypeOK, RunRecord
<1>3. ASSUME NEW l, run' = [run EXCEPT !.look = l]
      PROVE  OnlyLooks /\ run'.look = l
  BY <1>2, <1>3 DEF OnlyLooks, RunRecord
<1>4. ASSUME NEW s, Settle(s)
      PROVE  Concludes(s)
  BY <1>3, <1>4 DEF Settle, Goto, Concludes, MovesNowhere
<1>5. Reads => /\ UNCHANGED <<pc, state, plan>> /\ OnlyLooks
               /\ run'.look \in Looks /\ Found(run'.look)
  BY <1>3 DEF Reads
<1> QED
  BY <1>1, <1>4, <1>5 DEF Adopts

TypeInv == TypeOK /\ PlanInv /\ KeyInv /\ LookInv

LEMMA TypeInvInductive ==
  ASSUME PublishConstants
  PROVE  /\ Init => TypeInv
         /\ TypeInv /\ [Next]_vars => TypeInv'
<1>1. Init => TypeInv
  <2>1. Init => LookInv
    BY DEF Init, LookInv, NoRun, NoLook, Reading
  <2> QED
    BY <2>1, InitType DEF Init, TypeInv, PlanInv, KeyInv, Sending, NoRun, Aead
<1>2. ASSUME TypeInv, [Next]_vars
      PROVE  LookInv'
  <2>1. CASE UNCHANGED vars
    BY <1>2, <2>1 DEF TypeInv, LookInv, LookStore, Live, Aead, vars, local, store, history
  <2>2. CASE Next
    BY <1>2, <2>2, RunLook, EnvironmentLook DEF TypeInv, Next, Environment
  <2> QED
    BY <1>2, <2>1, <2>2
<1>3. TypeInv /\ [Next]_vars => TypeInv'
  BY <1>2, NextType, NextRunInv DEF TypeInv
<1> QED
  BY <1>1, <1>3

(* Every variable keeps its type in every behaviour, for every value of the  *)
(* constants: in particular the state file always loads as a PublishState,   *)
(* and a wrap in the store always holds a data key or nothing.               *)
THEOREM TypeCorrect == Spec => []TypeOK
<1>1. Init => TypeInv
  BY PublishConstants, TypeInvInductive
<1>2. TypeInv /\ [Next]_vars => TypeInv'
  BY PublishConstants, TypeInvInductive
<1>3. TypeInv => TypeOK
  BY DEF TypeInv
<1> QED
  BY <1>1, <1>2, <1>3, PTL DEF Spec

-----------------------------------------------------------------------------
(* Consent                                                                  *)

Misled == {"lost", "crossed", "unsaved"}

(* The state file carries the watermark, except after an unpublish, when it  *)
(* is sharing that stops a run.                                              *)
MarkSaved == saved.start >= mark \/ (~sharing /\ ~Published(saved))

(* So does the state a run works on, whatever it was rebuilt from.           *)
MarkInRun == InRun => state.start >= mark /\ saved.start >= mark

(* What a run is about to send lies past it.                                 *)
PlanAbove ==
    pc \in Sending => \A i \in 1 .. Len(plan) :
                        state.start <= plan[i].off /\ plan[i].off < plan[i].end

(* Nothing below it is in the store, where a later run could adopt it.       *)
ChunksAbove == \A c \in chunks : mark <= c.off /\ c.off < c.end

(* `ezup share on` moves the watermark of a session that published nothing:  *)
(* the state file of one that did says so, but for the Save to come.         *)
ChunksKnown ==
    /\ Published(saved) \/ chunks = {} \/ pc = "save"
    /\ pc = "resave" => Published(state) \/ chunks = {}

ConsentInv == MarkSaved /\ MarkInRun /\ PlanAbove /\ ChunksAbove /\ ChunksKnown

LEMMA EnvironmentConsent ==
  ASSUME TypeOK, ConsentInv, Environment, mishaps' \cap Misled = {}
  PROVE  ConsentInv' /\ chunks' \subseteq chunks
<1> USE ConsentInv DEF ConsentInv
<1>1. saved \in PublishState /\ mark \in Nat /\ transcript \in Seq(Nat)
  BY DEF TypeOK, FileTypeOK
<1>2. CASE UNCHANGED <<saved, mark, sharing, chunks, pc, state, plan>>
  BY <1>2 DEF MarkSaved, MarkInRun, PlanAbove, ChunksAbove, ChunksKnown, Published, InRun
<1>3. CASE Grow \/ \E head, tail \in 0 .. MaxLength : Rewrite(head, tail)
  BY <1>2, <1>3 DEF Grow, Rewrite, Around, store, local
<1>4. CASE EndEarly
  <2>1. pc # "save"
    BY <1>4 DEF EndEarly, Suffers, Misled
  <2>2. UNCHANGED <<saved, mark, sharing, chunks>> /\ pc' = "idle"
    BY <1>4 DEF EndEarly, End, store
  <2> QED
    BY <2>1, <2>2
       DEF MarkSaved, MarkInRun, PlanAbove, ChunksAbove, ChunksKnown, Published, InRun, Sending
<1>5. CASE LoseState
  BY <1>5 DEF LoseState, Suffers, Misled
<1>6. CASE SpoilKey
  <2>1. saved'.start = saved.start /\ saved'.offset = saved.offset
    BY <1>1, <1>6 DEF SpoilKey, PublishState
  <2>2. UNCHANGED <<mark, sharing, chunks, pc, state, plan>>
    BY <1>6 DEF SpoilKey, Around, store, local
  <2> QED
    BY <2>1, <2>2
       DEF MarkSaved, MarkInRun, PlanAbove, ChunksAbove, ChunksKnown, Published, InRun
<1>7. ASSUME Suffers(Crossing) \/ Suffers({"forgotten"} \cup Crossing)
      PROVE  pc = "idle"
  BY <1>7 DEF Suffers, Crossing, Misled, InRun
<1>8. CASE Unpublish
  <2>1. pc' = "idle" /\ chunks' = {} /\ saved' = Fresh
    BY <1>7, <1>8 DEF Unpublish, DeleteSession, local
  <2>2. ~sharing'
    BY <1>8, Zenon DEF Unpublish
  <2>3. ~Published(saved)'
    BY <2>1 DEF Published, Fresh
  <2> QED
    BY <2>1, <2>2, <2>3
       DEF MarkSaved, MarkInRun, PlanAbove, ChunksAbove, ChunksKnown, InRun, Sending
<1>9. CASE ShareOff
  <2>1. UNCHANGED <<saved, mark, chunks, state, plan>> /\ pc = "idle" /\ pc' = "idle"
    BY <1>7, <1>9 DEF ShareOff, Around, store, local
  <2>2. saved.start >= mark
    BY <1>9 DEF ShareOff, MarkSaved
  <2> QED
    BY <2>1, <2>2
       DEF MarkSaved, MarkInRun, PlanAbove, ChunksAbove, ChunksKnown, Published, InRun, Sending
<1>10. CASE ShareOn
  <2>1. UNCHANGED <<chunks, state, plan>> /\ pc = "idle" /\ pc' = "idle"
    BY <1>7, <1>10 DEF ShareOn, Around, store, local
  <2>2. CASE Published(saved)
    <3>1. UNCHANGED <<saved, mark>> /\ saved.start >= mark
      BY <1>10, <2>2 DEF ShareOn, MarkSaved
    <3> QED
      BY <2>1, <3>1
         DEF MarkSaved, MarkInRun, PlanAbove, ChunksAbove, ChunksKnown, Published, InRun, Sending
  <2>3. CASE ~Published(saved)
    <3>1. chunks = {}
      BY <2>1, <2>3 DEF ChunksKnown
    <3> DEFINE n == Len(transcript)
    <3>2. mark' = n /\ saved' = [saved EXCEPT !.start = n] /\ n \in Nat
      BY <1>1, <1>10, <2>3 DEF ShareOn
    <3> HIDE DEF n
    <3>3. saved'.start >= mark'
      BY <1>1, <3>2 DEF PublishState
    <3> QED
      BY <2>1, <3>1, <3>3
         DEF MarkSaved, MarkInRun, PlanAbove, ChunksAbove, ChunksKnown, InRun, Sending
  <2> QED
    BY <2>2, <2>3
<1> QED
  BY <1>3, <1>4, <1>5, <1>6, <1>8, <1>9, <1>10 DEF Environment

LEMMA RunConsent ==
  ASSUME PublishConstants, TypeInv, ConsentInv, mishaps \cap Misled = {},
         (\E mode \in Modes : Begin(mode)) \/ RunStep
  PROVE  ConsentInv' /\ SentAboveMark
<1> USE PublishConstants, ConsentInv DEF ConsentInv
<1>1. /\ saved \in PublishState /\ state \in PublishState /\ mark \in Nat
      /\ transcript \in Seq(Nat) /\ run.size \in Nat /\ row.gen \in Nat /\ row.enc \in BOOLEAN
      /\ chunks \subseteq Chunk /\ plan \in Seq(PieceType)
  BY DEF TypeInv, TypeOK, FileTypeOK, StoreTypeOK, RunTypeOK, Chunk, PieceType
<1>2. saved.start \in Nat /\ state.start \in Nat
  BY <1>1, StateFields
<1>3. mark' = mark /\ sharing' = sharing
  BY DEF RunStep, Begin, Reconcile, Verify, Plan, Delete, Register, PutWraps, Send, Save,
         Return, Conflict, Replace, Resave, Replan, Outside
<1>4. ASSUME saved' = saved, chunks' = chunks, End, pc # "save"
      PROVE  ConsentInv' /\ SentAboveMark
  BY <1>3, <1>4 DEF End, MarkSaved, MarkInRun, PlanAbove, ChunksAbove, ChunksKnown, Published,
                    InRun, Sending, SentAboveMark
<1>5. CASE \E mode \in Modes : Begin(mode)
  <2>1. /\ sharing /\ state' = saved /\ pc = "idle" /\ pc' \in {"verify", "reconcile"}
        /\ UNCHANGED <<saved, chunks>>
    BY <1>5 DEF Begin, Goto, store
  <2> QED
    BY <1>3, <2>1 DEF MarkSaved, MarkInRun, PlanAbove, ChunksAbove, ChunksKnown, Published,
                      InRun, Sending, SentAboveMark
<1>6. ASSUME run.look.at = "digest"
      PROVE  Adopt(state).start >= mark /\ Published(Adopt(state))
  <2>1. LookStore
    BY <1>6 DEF TypeInv, LookInv, Misled, Undone
  <2>2. PICK b \in chunks, e \in chunks :
          /\ b.off = run.look.base /\ run.look.cursor = e.end
          /\ \A c \in chunks : run.look.base <= c.off
    BY <1>6, <2>1 DEF LookStore
  <2>3. Adopt(state).start = run.look.base /\ Adopt(state).offset = run.look.cursor
    BY AdoptType DEF TypeInv
  <2>4. b.off \in Nat /\ e.off \in Nat /\ e.end \in Nat /\ mark <= b.off /\ e.off < e.end
    BY <1>1 DEF Chunk, ChunksAbove
  <2> QED
    BY <1>1, <2>2, <2>3, <2>4 DEF Published
<1>7. CASE Reconcile
  <2>1. /\ pc \in {"reconcile", "recover"} /\ UNCHANGED <<saved, chunks>>
        /\ \/ End \/ UNCHANGED <<pc, state, plan>>
           \/ Concludes(state)
           \/ Concludes(Adopt(state)) /\ run.look.at = "digest"
    BY <1>7, ReconcileFacts DEF TypeInv, Reading
  <2>2. CASE UNCHANGED <<pc, state, plan>>
    BY <1>3, <2>1, <2>2 DEF MarkSaved, MarkInRun, PlanAbove, ChunksAbove, ChunksKnown, Published,
                            InRun, Sending, SentAboveMark
  <2>3. CASE Concludes(state)
    <3>1. /\ state' = state /\ plan' = plan /\ pc' \in {"verify", "replace"}
      BY <1>1, <2>3, StateFields DEF Concludes
    <3> QED
      BY <1>3, <2>1, <3>1 DEF MarkSaved, MarkInRun, PlanAbove, ChunksAbove, ChunksKnown, Published,
                              InRun, Sending, SentAboveMark
  <2>4. CASE Concludes(Adopt(state)) /\ run.look.at = "digest"
    <3>1. /\ pc' \in {"verify", "replace", "resave"} /\ plan' = plan
          /\ state'.start >= mark /\ Published(state')
      BY <1>6, <2>4 DEF Concludes
    <3> QED
      BY <1>3, <2>1, <3>1 DEF MarkSaved, MarkInRun, PlanAbove, ChunksAbove, ChunksKnown, Published,
                              InRun, Sending, SentAboveMark
  <2> QED
    BY <1>4, <2>1, <2>2, <2>3, <2>4
<1>8. CASE Verify
  <2> DEFINE kept == IF ~Verified(state, run.size) THEN Reset(state) ELSE state
             base == IF Migrates(state) /\ Published(kept) THEN Reset(kept) ELSE kept
  <2>1. base \in PublishState /\ base.start = state.start
    BY <1>1, ResetFacts
  <2>2. /\ state' \in IF Aead THEN SetupCipher(base) ELSE {base}
        /\ pc = "verify" /\ pc' = "plan" /\ UNCHANGED <<saved, chunks>>
    BY <1>8, Zenon DEF Verify, Goto, store
  <2>3. state'.start = state.start
    <3> HIDE DEF base
    <3> QED
      BY <1>1, <2>1, <2>2, SetupCipherFacts
  <2> QED
    BY <1>3, <2>2, <2>3
       DEF MarkSaved, MarkInRun, PlanAbove, ChunksAbove, ChunksKnown, Published,
           InRun, Sending, SentAboveMark
<1>9. CASE Plan
  <2> DEFINE todo == PlanChunks(state, run.size)
  <2>1. CASE todo = <<>>
    BY <1>4, <1>9, <2>1 DEF Plan, store
  <2>2. CASE todo # <<>>
    <3>1. /\ plan' = todo /\ state' = state /\ pc = "plan" /\ pc' \in {"delete", "register"}
          /\ UNCHANGED <<saved, chunks>>
      BY <1>9, <2>2 DEF Plan, Goto, store
    <3>2. \A i \in 1 .. Len(todo) : state.start <= todo[i].off /\ todo[i].off < todo[i].end
      BY <1>1, PlanFacts
    <3> HIDE DEF todo
    <3> QED
      BY <1>3, <3>1, <3>2
         DEF MarkSaved, MarkInRun, PlanAbove, ChunksAbove, ChunksKnown, Published,
             InRun, Sending, SentAboveMark
  <2> QED
    BY <2>1, <2>2
<1>10. CASE Delete
  <2>1. /\ chunks' = {} /\ pc = "delete" /\ pc' = "register"
        /\ UNCHANGED <<saved, state, plan>>
    BY <1>10 DEF Delete, DeleteSession, Goto
  <2> QED
    BY <1>3, <2>1 DEF MarkSaved, MarkInRun, PlanAbove, ChunksAbove, ChunksKnown, Published,
                      InRun, Sending, SentAboveMark
<1>11. CASE Register \/ PutWraps
  <2>1. UNCHANGED <<saved, chunks>> /\ pc \in {"register", "wrap"}
    BY <1>11 DEF Register, PutWraps
  <2>2. CASE pc' \in {"wrap", "send"} /\ UNCHANGED <<state, plan>>
    BY <1>3, <2>1, <2>2
       DEF MarkSaved, MarkInRun, PlanAbove, ChunksAbove, ChunksKnown, Published,
           InRun, Sending, SentAboveMark
  <2>3. End \/ (pc' \in {"wrap", "send"} /\ UNCHANGED <<state, plan>>)
    BY <1>11 DEF Register, PutWraps, EnterLoop, Goto
  <2> QED
    BY <1>4, <2>1, <2>2, <2>3
<1>12. CASE Send
  <2> DEFINE c == Head(plan)
             data == Range(transcript, c.off, c.end)
             body == IF Aead THEN Seal(state.dk, state.gen, c.off, data) ELSE Plain(data)
             chunk == [off |-> c.off, end |-> c.end, body |-> body]
  <2>1. CASE chunks' = chunks /\ End
    BY <1>4, <1>12, <2>1 DEF Send
  <2>2. CASE chunks' = chunks /\ pc' \in {"save", "conflict"} /\ UNCHANGED <<state, plan>>
    <3>1. pc = "send" /\ saved' = saved
      BY <1>12 DEF Send
    <3> QED
      BY <1>3, <2>2, <3>1
         DEF MarkSaved, MarkInRun, PlanAbove, ChunksAbove, ChunksKnown, Published,
             InRun, Sending, SentAboveMark
  <2>3. CASE chunks' = chunks \cup {chunk} /\ pc' = "save" /\ UNCHANGED <<state, plan>>
    <3>1. pc = "send" /\ saved' = saved
      BY <1>12 DEF Send
    <3>2. c = plan[1] /\ 1 \in 1 .. Len(plan) /\ c \in PieceType
      <4>1. plan # <<>>
        BY <3>1 DEF TypeInv, PlanInv, Sending
      <4> QED
        BY <1>1, <4>1
    <3>3. state.start <= c.off /\ c.off < c.end
      BY <3>1, <3>2 DEF PlanAbove, Sending
    <3>4. mark <= state.start
      BY <3>1 DEF MarkInRun, InRun
    <3>5. mark <= c.off /\ c.off < c.end
      BY <1>1, <1>2, <3>2, <3>3, <3>4 DEF PieceType
    <3>6. chunk.off = c.off /\ chunk.end = c.end
      OBVIOUS
    <3> HIDE DEF chunk, c
    <3> QED
      BY <1>3, <2>3, <3>1, <3>5, <3>6
         DEF MarkSaved, MarkInRun, PlanAbove, ChunksAbove, ChunksKnown, Published,
             InRun, Sending, SentAboveMark
  <2> QED
    BY <1>12, <2>1, <2>2, <2>3, Zenon DEF Send, Goto
<1>13. CASE Save
  <2>1. /\ pc = "save" /\ pc' \in {"send", "done"} /\ plan' = Tail(plan) /\ chunks' = chunks
        /\ saved' = Checkpoint /\ state' = Checkpoint
    BY <1>13 DEF Save, Goto, store
  <2>2. plan # <<>>
    BY <2>1 DEF TypeInv, PlanInv, Sending
  <2> DEFINE c == Head(plan)
  <2>3. c = plan[1] /\ 1 \in 1 .. Len(plan) /\ c \in PieceType
    BY <1>1, <2>2
  <2>4. state.start <= c.off /\ c.off < c.end
    BY <2>1, <2>3 DEF PlanAbove, Sending
  <2>5. Checkpoint.start = state.start /\ Checkpoint.offset = c.end
    BY <1>1 DEF Checkpoint, PublishState
  <2>6. Published(Checkpoint)
    <3> HIDE DEF c
    <3> QED
      BY <1>2, <2>3, <2>4, <2>5 DEF Published, PieceType
  <2>7. \A i \in 1 .. Len(plan') : i + 1 \in 1 .. Len(plan) /\ plan'[i] = plan[i + 1]
    BY <1>1, <2>1, <2>2
  <2>8. PlanAbove'
    BY <2>1, <2>5, <2>7 DEF PlanAbove, Sending
  <2> HIDE DEF c
  <2> QED
    BY <1>3, <2>1, <2>5, <2>6, <2>8
       DEF MarkSaved, MarkInRun, ChunksAbove, ChunksKnown, Published, InRun, SentAboveMark
<1>14. CASE Return
  BY <1>4, <1>14 DEF Return, store
<1>15. CASE Conflict
  <2>1. /\ pc = "conflict" /\ UNCHANGED <<saved, chunks>>
        /\ \/ End
           \/ pc' = "recover" /\ UNCHANGED <<state, plan>>
    BY <1>15 DEF Conflict, Goto, store
  <2> QED
    BY <1>3, <1>4, <2>1 DEF MarkSaved, MarkInRun, PlanAbove, ChunksAbove, ChunksKnown, Published,
                            InRun, Sending, SentAboveMark
<1>16. CASE Replace
  <2>1. /\ chunks' = {} /\ pc = "replace" /\ pc' = "resave"
        /\ state' = Reset(state) /\ UNCHANGED <<saved, plan>>
    BY <1>16 DEF Replace, DeleteSession, Goto
  <2>2. state'.start = state.start
    BY <1>1, <2>1, ResetFacts
  <2> QED
    BY <1>3, <2>1, <2>2 DEF MarkSaved, MarkInRun, PlanAbove, ChunksAbove, ChunksKnown, Published,
                      InRun, Sending, SentAboveMark
<1>17. CASE Resave
  <2>1. /\ saved' = state /\ pc = "resave" /\ pc' = "replan"
        /\ UNCHANGED <<chunks, state, plan>>
    BY <1>17 DEF Resave, Goto, store
  <2> QED
    BY <1>3, <2>1 DEF MarkSaved, MarkInRun, PlanAbove, ChunksAbove, ChunksKnown, Published,
                      InRun, Sending, SentAboveMark
<1>18. CASE Replan
  <2> DEFINE kept == IF Verified(state, run.size) THEN state ELSE Reset(state)
             todo == PlanChunks(kept, run.size)
  <2>1. CASE todo = <<>>
    BY <1>4, <1>18, <2>1 DEF Replan, store
  <2>2. CASE todo # <<>>
    <3>1. kept \in PublishState /\ kept.start = state.start
      BY <1>1, ResetFacts
    <3>2. /\ plan' = todo /\ state' \in IF Aead THEN SetupCipher(kept) ELSE {kept}
          /\ pc = "replan" /\ pc' = "register" /\ UNCHANGED <<saved, chunks>>
      BY <1>18, <2>2 DEF Replan, Goto, store
    <3> HIDE DEF kept
    <3>3. \A i \in 1 .. Len(todo) : kept.start <= todo[i].off /\ todo[i].off < todo[i].end
      BY <1>1, <3>1, PlanFacts
    <3> HIDE DEF todo
    <3>4. state'.start = state.start
      BY <1>1, <3>1, <3>2, SetupCipherFacts
    <3> QED
      BY <1>3, <3>1, <3>2, <3>3, <3>4
         DEF MarkSaved, MarkInRun, PlanAbove, ChunksAbove, ChunksKnown, Published,
             InRun, Sending, SentAboveMark
  <2> QED
    BY <2>1, <2>2
<1> QED
  BY <1>5, <1>7, <1>8, <1>9, <1>10, <1>11, <1>12, <1>13, <1>14, <1>15, <1>16, <1>17, <1>18
     DEF RunStep

(* What is lost, crossed or unsaved stays so: the invariant is needed only   *)
(* where none of them has happened, and holds from the start until one does. *)
LEMMA NextConsent ==
  ASSUME PublishConstants, TypeInv, Unless(Misled, ConsentInv), [Next]_vars
  PROVE  Unless(Misled, ConsentInv)' /\ [Unless(Misled, SentAboveMark)]_vars
<1>1. CASE UNCHANGED vars
  BY <1>1 DEF vars, file, store, local, history, Unless, ConsentInv, MarkSaved, MarkInRun,
              PlanAbove, ChunksAbove, ChunksKnown, Published, InRun
<1>2. CASE (\E mode \in Modes : Begin(mode)) \/ RunStep
  <2>1. mishaps' = mishaps
    BY <1>2 DEF RunStep, Begin, Reconcile, Verify, Plan, Delete, Register, PutWraps, Send, Save,
                Return, Conflict, Replace, Resave, Replan, Outside
  <2> QED
    BY <1>2, <2>1, RunConsent DEF Unless
<1>3. CASE Environment
  <2>1. mishaps \subseteq mishaps'
    BY <1>3 DEF Environment, Grow, Rewrite, EndEarly, LoseState, SpoilKey, Unpublish, ShareOff,
                ShareOn, Suffers
  <2>2. TypeOK
    BY DEF TypeInv
  <2>3. Unless(Misled, ConsentInv)'
    BY <1>3, <2>1, <2>2, EnvironmentConsent DEF Unless
  <2>4. chunks' \subseteq chunks
    BY <1>3 DEF Environment, Grow, Rewrite, EndEarly, LoseState, SpoilKey, Unpublish, ShareOff,
                ShareOn, Around, store, DeleteSession
  <2> QED
    BY <2>3, <2>4 DEF Unless, SentAboveMark
<1> QED
  BY <1>1, <1>2, <1>3 DEF Next, RunStep, Environment

(* PublishState: "bytes written before a developer ran `ezcl share on` stay  *)
(* on the machine forever".  Proved for every chunk size, transcript length, *)
(* number of rewrites, recoveries and troubles; the three events that defeat *)
(* it are in its statement.                                                  *)
THEOREM ConsentAlways == Spec => ConsentUnlessMisled
<1> USE PublishConstants
<1>1. Init => TypeInv /\ Unless(Misled, ConsentInv)
  <2>1. Init => TypeInv
    BY TypeInvInductive
  <2>2. Init => ConsentInv
    <3> SUFFICES ASSUME Init PROVE ConsentInv
      OBVIOUS
    <3>1. pc = "idle" /\ chunks = {}
      BY DEF Init
    <3>2. saved.start >= mark
      BY DEF Init, Fresh
    <3> QED
      BY <3>1, <3>2 DEF ConsentInv, MarkSaved, MarkInRun, PlanAbove, ChunksAbove, ChunksKnown,
                        InRun, Sending
  <2> QED
    BY <2>1, <2>2 DEF Unless
<1>2. /\ TypeInv /\ Unless(Misled, ConsentInv)
      /\ [Next]_vars
      => /\ TypeInv' /\ Unless(Misled, ConsentInv)'
         /\ [Unless(Misled, SentAboveMark)]_vars
  BY TypeInvInductive, NextConsent
<1>3. [Unless(Misled, SentAboveMark)]_vars
        => [Unless({"lost", "crossed", "unsaved"}, SentAboveMark)]_vars
  BY DEF Misled
<1> QED
  BY <1>1, <1>2, <1>3, PTL DEF Spec, ConsentUnlessMisled

Sq == INSTANCE SequenceTheorems

-----------------------------------------------------------------------------
(* Bytes read from a file                                                   *)

(* The bytes are in the file t, from position base on.                       *)
Fits(bytes, base, t) ==
    \A k \in 1 .. Len(bytes) : base + k <= Len(t) /\ t[base + k] = bytes[k]

(* One of them is not, and no later epoch than e brings it back.             *)
Broken(bytes, base, t, e) ==
    \E k \in 1 .. Len(bytes) :
      bytes[k] < e /\ ~(base + k <= Len(t) /\ t[base + k] = bytes[k])

Settled(bytes, base, t, e) ==
    /\ \A k \in 1 .. Len(bytes) : bytes[k] <= e
    /\ Fits(bytes, base, t) \/ Broken(bytes, base, t, e)

(* The file grew by a byte of its epoch, or was cut and went on with bytes   *)
(* of the next one, or was left alone.                                       *)
FileMoves(t, e, u, f) ==
    \/ u = t /\ f = e
    \/ u = Append(t, e) /\ f = e
    \/ \E head \in Nat, tail \in Nat :
         /\ head < Len(t) /\ f = e + 1
         /\ u = SubSeq(t, 1, head) \o [i \in 1 .. tail |-> e + 1]

LEMMA FileFacts ==
  ASSUME NEW t \in Seq(Nat), NEW e \in Nat, NEW u, NEW f, FileMoves(t, e, u, f)
  PROVE  /\ u \in Seq(Nat) /\ f \in Nat /\ e <= f
         /\ \A n \in 1 .. Len(u) : n <= Len(t) => u[n] = t[n] \/ (u[n] = f /\ e < f)
         /\ \A n \in 1 .. Len(t) : (n <= Len(u) /\ u[n] = t[n]) \/ e < f
         /\ \A n \in 1 .. Len(u) : n > Len(t) => u[n] = f \/ u[n] = e
<1>1. CASE u = t /\ f = e
  BY <1>1
<1>2. CASE u = Append(t, e) /\ f = e
  BY <1>2
<1>3. CASE \E head \in Nat, tail \in Nat :
             /\ head < Len(t) /\ f = e + 1
             /\ u = SubSeq(t, 1, head) \o [i \in 1 .. tail |-> e + 1]
  <2>1. PICK head \in Nat, tail \in Nat :
          /\ head < Len(t) /\ f = e + 1
          /\ u = SubSeq(t, 1, head) \o [i \in 1 .. tail |-> e + 1]
    BY <1>3
  <2> DEFINE x == SubSeq(t, 1, head)
             y == [i \in 1 .. tail |-> e + 1]
  <2>2. x \in Seq(Nat) /\ Len(x) = head /\ \A n \in 1 .. head : x[n] = t[n]
    BY <2>1
  <2>3. y \in Seq(Nat) /\ Len(y) = tail /\ \A n \in 1 .. tail : y[n] = e + 1
    OBVIOUS
  <2>4. u = x \o y
    BY <2>1
  <2> HIDE DEF x, y
  <2>5. u \in Seq(Nat) /\ Len(u) = head + tail
    BY <2>2, <2>3, <2>4, Sq!ConcatProperties
  <2>6. \A n \in 1 .. Len(u) : IF n <= head THEN u[n] = t[n] ELSE u[n] = f
    <3> TAKE n \in 1 .. Len(u)
    <3>1. u[n] = IF n <= Len(x) THEN x[n] ELSE y[n - Len(x)]
      BY <2>2, <2>3, <2>4, <2>5
    <3>2. CASE n <= head
      BY <2>2, <3>1, <3>2
    <3>3. CASE ~(n <= head)
      <4>1. n - head \in 1 .. tail
        BY <2>5, <3>3
      <4> QED
        BY <2>1, <2>2, <2>3, <3>1, <3>3, <4>1
    <3> QED
      BY <3>2, <3>3
  <2> QED
    BY <2>1, <2>5, <2>6
<1> QED
  BY <1>1, <1>2, <1>3 DEF FileMoves

(* What is broken stays broken, and what fits afterwards fitted before.      *)
LEMMA SettledStays ==
  ASSUME NEW t \in Seq(Nat), NEW e \in Nat, NEW u, NEW f, FileMoves(t, e, u, f),
         NEW bytes \in Seq(Nat), NEW base \in Nat, Settled(bytes, base, t, e)
  PROVE  /\ Settled(bytes, base, u, f)
         /\ Broken(bytes, base, t, e) => Broken(bytes, base, u, f)
         /\ Fits(bytes, base, u) => Fits(bytes, base, t)
<1>1. /\ u \in Seq(Nat) /\ f \in Nat /\ e <= f
      /\ \A n \in 1 .. Len(u) : n <= Len(t) => u[n] = t[n] \/ (u[n] = f /\ e < f)
      /\ \A n \in 1 .. Len(t) : (n <= Len(u) /\ u[n] = t[n]) \/ e < f
      /\ \A n \in 1 .. Len(u) : n > Len(t) => u[n] = f \/ u[n] = e
  BY FileFacts
<1>2. \A k \in 1 .. Len(bytes) : bytes[k] \in Nat /\ bytes[k] <= e /\ base + k \in Nat /\ base + k >= 1
  BY DEF Settled
<1>3. ASSUME Broken(bytes, base, t, e)
      PROVE  Broken(bytes, base, u, f)
  <2>1. PICK k \in 1 .. Len(bytes) :
          bytes[k] < e /\ ~(base + k <= Len(t) /\ t[base + k] = bytes[k])
    BY <1>3 DEF Broken
  <2>2. ASSUME base + k <= Len(u), u[base + k] = bytes[k]
        PROVE  FALSE
    <3>1. base + k \in 1 .. Len(u)
      BY <1>1, <1>2, <2>2
    <3>2. CASE base + k <= Len(t)
      BY <1>1, <1>2, <2>1, <2>2, <3>1, <3>2
    <3>3. CASE base + k > Len(t)
      <4>1. u[base + k] \in {e, f}
        BY <1>1, <3>1, <3>3
      <4>2. bytes[k] \in Nat
        BY <1>2
      <4> QED
        BY <1>1, <2>1, <2>2, <4>1, <4>2
    <3> QED
      BY <1>2, <3>2, <3>3
  <2> QED
    BY <1>1, <1>2, <2>1, <2>2 DEF Broken
<1>4. ASSUME Fits(bytes, base, t), ~Fits(bytes, base, u)
      PROVE  Broken(bytes, base, u, f)
  <2>1. PICK k \in 1 .. Len(bytes) : ~(base + k <= Len(u) /\ u[base + k] = bytes[k])
    BY <1>4 DEF Fits
  <2>2. base + k \in 1 .. Len(t) /\ t[base + k] = bytes[k]
    BY <1>2, <1>4 DEF Fits
  <2>3. e < f
    BY <1>1, <2>1, <2>2
  <2> QED
    BY <1>1, <1>2, <2>1, <2>3 DEF Broken
<1>5. Settled(bytes, base, u, f)
  BY <1>1, <1>2, <1>3, <1>4 DEF Settled
<1>6. Fits(bytes, base, u) => ~Broken(bytes, base, u, f)
  BY <1>1, <1>2 DEF Fits, Broken
<1> QED
  BY <1>3, <1>5, <1>6 DEF Settled

LEMMA RangeElements ==
  ASSUME NEW t \in Seq(Nat), NEW from \in Nat, NEW to \in Nat
  PROVE  /\ Range(t, from, to) \in Seq(Nat)
         /\ Len(Range(t, from, to)) \in Nat
         /\ from <= Least(to, Len(t)) => Len(Range(t, from, to)) = Least(to, Len(t)) - from
         /\ Least(to, Len(t)) <= from => Len(Range(t, from, to)) = 0
         /\ \A k \in 1 .. Len(Range(t, from, to)) :
              from + k <= to /\ from + k <= Len(t) /\ Range(t, from, to)[k] = t[from + k]
<1> DEFINE n == Least(to, Len(t))
           r == SubSeq(t, from + 1, n)
<1>1. n \in Nat /\ n <= Len(t) /\ n <= to
  BY DEF Least
<1>2. Range(t, from, to) = r
  BY DEF Range
<1> HIDE DEF n
<1>3. \A i \in from + 1 .. n : t[i] \in Nat
  BY <1>1
<1>4. /\ r \in Seq(Nat)
      /\ Len(r) = IF from + 1 <= n THEN n - (from + 1) + 1 ELSE 0
      /\ \A i \in 1 .. n - (from + 1) + 1 : r[i] = t[from + 1 + i - 1]
  <2>1. from + 1 \in Nat \ {0} /\ n \in Nat
    BY <1>1
  <2>2. \A i \in from + 1 .. n : i \in Nat /\ t[i] \in Nat
    BY <1>1, <1>3
  <2> QED
    BY <2>1, <2>2, Sq!SubSeqProperties
<1> HIDE DEF r
<1>5. \A k \in 1 .. Len(r) : from + k <= to /\ from + k <= Len(t) /\ r[k] = t[from + k]
  <2> TAKE k \in 1 .. Len(r)
  <2>1. from + k <= n /\ k \in 1 .. n - (from + 1) + 1
    BY <1>1, <1>4
  <2>2. r[k] = t[from + 1 + k - 1]
    BY <1>4, <2>1, Zenon
  <2>3. from + 1 + k - 1 = from + k
    OBVIOUS
  <2>4. r[k] = t[from + k]
    BY <2>2, <2>3, Zenon
  <2> QED
    BY <1>1, <2>1, <2>4
<1>6. /\ Len(r) \in Nat
      /\ from <= n => Len(r) = n - from
      /\ n <= from => Len(r) = 0
  BY <1>1, <1>4
<1>7. Least(to, Len(t)) = n
  BY DEF n
<1> QED
  BY <1>2, <1>4, <1>5, <1>6, <1>7, Zenon

(* What is read from a file fits there.                                      *)
LEMMA RangeSettled ==
  ASSUME NEW t \in Seq(Nat), NEW e \in Nat, \A k \in 1 .. Len(t) : t[k] <= e,
         NEW from \in Nat, NEW to \in Nat
  PROVE  /\ Fits(Range(t, from, to), from, t)
         /\ Settled(Range(t, from, to), from, t, e)
<1> DEFINE r == Range(t, from, to)
<1>1. /\ r \in Seq(Nat)
      /\ \A k \in 1 .. Len(r) : from + k <= Len(t) /\ r[k] = t[from + k]
  BY RangeElements
<1> HIDE DEF r
<1>2. \A k \in 1 .. Len(r) : from + k \in 1 .. Len(t)
  BY <1>1
<1>3. Fits(r, from, t)
  BY <1>1 DEF Fits
<1>4. \A k \in 1 .. Len(r) : r[k] <= e
  BY <1>1, <1>2
<1> QED
  BY <1>3, <1>4 DEF r, Settled

(* And what fits there is what is read from there.                           *)
LEMMA FitsIsRange ==
  ASSUME NEW t \in Seq(Nat), NEW bytes \in Seq(Nat), NEW base \in Nat
  PROVE  Fits(bytes, base, t) <=> Range(t, base, base + Len(bytes)) = bytes
<1> DEFINE n == base + Len(bytes)
           r == Range(t, base, n)
<1>1. n \in Nat /\ n - base = Len(bytes) /\ base <= n
  OBVIOUS
<1>2. /\ r \in Seq(Nat) /\ Len(r) \in Nat
      /\ base <= Least(n, Len(t)) => Len(r) = Least(n, Len(t)) - base
      /\ Least(n, Len(t)) <= base => Len(r) = 0
      /\ \A k \in 1 .. Len(r) : base + k <= n /\ base + k <= Len(t) /\ r[k] = t[base + k]
  BY <1>1, RangeElements
<1> HIDE DEF r
<1>3. ASSUME Fits(bytes, base, t)
      PROVE  r = bytes
  <2>1. Len(r) = Len(bytes)
    <3>1. CASE Len(bytes) = 0
      BY <1>1, <1>2, <3>1 DEF Least
    <3>2. CASE Len(bytes) # 0
      <4>1. base + Len(bytes) <= Len(t)
        BY <1>3, <3>2 DEF Fits
      <4> QED
        BY <1>1, <1>2, <4>1 DEF Least
    <3> QED
      BY <3>1, <3>2
  <2>2. \A k \in 1 .. Len(r) : r[k] = bytes[k]
    BY <1>2, <1>3, <2>1 DEF Fits
  <2> QED
    BY <1>2, <2>1, <2>2, Sq!SeqEqual
<1>4. ASSUME r = bytes
      PROVE  Fits(bytes, base, t)
  BY <1>2, <1>4 DEF Fits
<1> QED
  BY <1>3, <1>4 DEF r

LEMMA BrokenDoesNotFit ==
  ASSUME NEW bytes \in Seq(Nat), NEW base \in Nat, NEW t \in Seq(Nat), NEW e \in Nat,
         Broken(bytes, base, t, e)
  PROVE  ~Fits(bytes, base, t)
BY DEF Broken, Fits

LEMMA EmptySettled ==
  ASSUME NEW base, NEW t, NEW e
  PROVE  Settled(<<>>, base, t, e)
BY DEF Settled, Fits

(* A chunk after the bytes it continues.                                     *)
LEMMA ConcatSettled ==
  ASSUME NEW x \in Seq(Nat), NEW y \in Seq(Nat), NEW base \in Nat, NEW t \in Seq(Nat),
         NEW e \in Nat, Settled(x, base, t, e), Settled(y, base + Len(x), t, e)
  PROVE  Settled(x \o y, base, t, e)
<1> DEFINE z == x \o y
<1>1. /\ z \in Seq(Nat) /\ Len(z) = Len(x) + Len(y)
      /\ \A i \in 1 .. Len(x) + Len(y) : z[i] = IF i <= Len(x) THEN x[i] ELSE y[i - Len(x)]
  BY Sq!ConcatProperties
<1> HIDE DEF z
<1>2. Len(x) \in Nat /\ Len(y) \in Nat
  OBVIOUS
<1>3. \A i \in 1 .. Len(x) : i \in 1 .. Len(z) /\ z[i] = x[i]
  BY <1>1, <1>2
<1>4. \A i \in 1 .. Len(y) :
        /\ Len(x) + i \in 1 .. Len(z) /\ z[Len(x) + i] = y[i]
        /\ base + (Len(x) + i) = base + Len(x) + i
  <2> TAKE i \in 1 .. Len(y)
  <2>1. Len(x) + i \in 1 .. Len(x) + Len(y) /\ ~(Len(x) + i <= Len(x)) /\ Len(x) + i - Len(x) = i
    BY <1>2
  <2>2. z[Len(x) + i] = y[i]
    <3> DEFINE j == Len(x) + i
    <3>1. z[j] = IF j <= Len(x) THEN x[j] ELSE y[j - Len(x)]
      BY <1>1, <2>1, Zenon
    <3>2. ~(j <= Len(x)) /\ j - Len(x) = i
      BY <2>1
    <3> HIDE DEF j
    <3>3. z[j] = y[i]
      BY <3>1, <3>2, Zenon
    <3> QED
      BY <3>3 DEF j
  <2>3. Len(x) + i \in 1 .. Len(z) /\ base + (Len(x) + i) = base + Len(x) + i
    BY <1>1, <1>2
  <2> QED
    BY <2>2, <2>3
<1>5. \A k \in 1 .. Len(z) : k \in 1 .. Len(x) \/ \E i \in 1 .. Len(y) : k = Len(x) + i
  <2> TAKE k \in 1 .. Len(z)
  <2>1. CASE k <= Len(x)
    BY <1>2, <2>1
  <2>2. CASE ~(k <= Len(x))
    <3>1. k - Len(x) \in 1 .. Len(y) /\ k = Len(x) + (k - Len(x))
      BY <1>1, <1>2, <2>2
    <3> QED
      BY <3>1
  <2> QED
    BY <2>1, <2>2
<1>6. \A k \in 1 .. Len(z) : z[k] <= e
  BY <1>3, <1>4, <1>5 DEF Settled
<1>7. CASE Fits(x, base, t) /\ Fits(y, base + Len(x), t)
  <2>1. ASSUME NEW k \in 1 .. Len(z)
        PROVE  base + k <= Len(t) /\ t[base + k] = z[k]
    <3>1. CASE k \in 1 .. Len(x)
      BY <1>3, <1>7, <3>1 DEF Fits
    <3>2. CASE \E i \in 1 .. Len(y) : k = Len(x) + i
      <4>1. PICK i \in 1 .. Len(y) : k = Len(x) + i
        BY <3>2
      <4>2. base + Len(x) + i <= Len(t) /\ t[base + Len(x) + i] = y[i]
        BY <1>7 DEF Fits
      <4>3. z[k] = y[i] /\ base + k = base + Len(x) + i
        BY <1>4, <4>1
      <4> QED
        BY <4>2, <4>3, Zenon
    <3> QED
      BY <1>5, <3>1, <3>2
  <2> QED
    BY <1>6, <2>1 DEF Settled, Fits, z
<1>8. CASE Broken(x, base, t, e)
  BY <1>3, <1>6, <1>8 DEF Settled, Broken, z
<1>9. CASE Broken(y, base + Len(x), t, e)
  <2>1. PICK i \in 1 .. Len(y) :
          y[i] < e /\ ~(base + Len(x) + i <= Len(t) /\ t[base + Len(x) + i] = y[i])
    BY <1>9 DEF Broken
  <2>2. Broken(z, base, t, e)
    BY <1>4, <2>1 DEF Broken
  <2> QED
    BY <1>6, <2>2 DEF Settled, z
<1> QED
  BY <1>7, <1>8, <1>9 DEF Settled
-----------------------------------------------------------------------------
(* States and the file                                                      *)

(* No size makes _verify_published find this state's bytes in the file, now  *)
(* or later.                                                                 *)
DoomedIn(s, t, e) ==
    /\ Published(s)
    /\ \/ Len(s.digest) > s.offset - s.start
       \/ Broken(s.digest, s.start, t, e)
       \/ Broken(s.prefix, 0, t, e)
       \/ s.prefix = <<>> /\ PrefixBytes > 0

(* A state that knows of nothing published has no digest, and one that does  *)
(* has a digest of at least those bytes: of more, when a run that found them *)
(* changed between its verification and its plan started over without a reset*)
StateKnownIn(s, t, e) ==
    /\ ~Published(s) => s.digest = <<>> /\ s.offset = 0
    /\ Published(s) => Len(s.digest) >= s.offset - s.start
    /\ Len(s.digest) = s.offset - s.start => Settled(s.digest, s.start, t, e)
    /\ Settled(s.prefix, 0, t, e)

(* A digest of no more bytes than that is of exactly those.                  *)
LEMMA DigestLength ==
  ASSUME NEW s \in PublishState, Len(s.digest) >= s.offset - s.start,
         ~(Len(s.digest) > s.offset - s.start)
  PROVE  Len(s.digest) = s.offset - s.start /\ s.start + Len(s.digest) = s.offset
<1> DEFINE n == Len(s.digest)
           o == s.offset
           b == s.start
<1>1. s.digest \in Seq(Nat) /\ s.start \in Nat /\ s.offset \in Nat
  BY StateFields
<1>2. n \in Int /\ o \in Int /\ b \in Int
  BY <1>1
<1>3. n >= o - b /\ ~(n > o - b)
  OBVIOUS
<1> HIDE DEF n, o, b
<1>4. n = o - b /\ b + n = o
  BY <1>2, <1>3
<1> QED
  BY <1>4 DEF n, o, b

LEMMA StateStays ==
  ASSUME NEW t \in Seq(Nat), NEW e \in Nat, NEW u, NEW f, FileMoves(t, e, u, f),
         NEW s \in PublishState, StateKnownIn(s, t, e)
  PROVE  /\ StateKnownIn(s, u, f)
         /\ DoomedIn(s, t, e) => DoomedIn(s, u, f)
<1>1. s.digest \in Seq(Nat) /\ s.prefix \in Seq(Nat) /\ s.start \in Nat /\ s.offset \in Nat
  BY StateFields
<1>2. Settled(s.prefix, 0, u, f) /\ (Broken(s.prefix, 0, t, e) => Broken(s.prefix, 0, u, f))
  BY <1>1, SettledStays DEF StateKnownIn
<1>3. ASSUME Len(s.digest) = s.offset - s.start
      PROVE  /\ Settled(s.digest, s.start, u, f)
             /\ Broken(s.digest, s.start, t, e) => Broken(s.digest, s.start, u, f)
  BY <1>1, <1>3, SettledStays DEF StateKnownIn
<1>4. StateKnownIn(s, u, f)
  BY <1>2, <1>3 DEF StateKnownIn
<1>5. ASSUME DoomedIn(s, t, e)
      PROVE  DoomedIn(s, u, f)
  <2>1. Published(s) /\ Len(s.digest) >= s.offset - s.start
    BY <1>5 DEF DoomedIn, StateKnownIn
  <2>2. CASE Len(s.digest) > s.offset - s.start
    BY <2>1, <2>2 DEF DoomedIn
  <2>3. CASE ~(Len(s.digest) > s.offset - s.start)
    <3>1. Len(s.digest) = s.offset - s.start
      BY <2>1, <2>3, DigestLength
    <3> QED
      BY <1>2, <1>3, <1>5, <2>1, <2>3, <3>1 DEF DoomedIn
  <2> QED
    BY <2>2, <2>3
<1> QED
  BY <1>4, <1>5

(* The verdict of _verify_published, on a state it knows, is the size and    *)
(* that: what it refuses once it refuses for ever.                           *)
LEMMA VerifiedMeans ==
  ASSUME PublishConstants, transcript \in Seq(Nat), epoch \in Nat,
         NEW s \in PublishState, StateKnownIn(s, transcript, epoch), NEW size \in Nat
  PROVE  Verified(s, size)
           <=> (Published(s) => size >= s.offset /\ ~DoomedIn(s, transcript, epoch))
<1>1. /\ s.digest \in Seq(Nat) /\ s.prefix \in Seq(Nat) /\ s.start \in Nat /\ s.offset \in Nat
      /\ Len(s.digest) \in Nat /\ PrefixBytes \in Nat
  BY StateFields DEF PublishConstants
<1>2. CASE ~Published(s)
  BY <1>2 DEF Verified
<1>3. CASE Published(s)
  <2> DEFINE head == IF s.prefix = <<>> THEN Least(PrefixBytes, s.offset) ELSE Len(s.prefix)
  <2>1. Verified(s, size) <=> /\ size >= s.offset
                              /\ Range(transcript, 0, head) = s.prefix
                              /\ Range(transcript, s.start, s.offset) = s.digest
    BY <1>3 DEF Verified
  <2>2. s.start < s.offset /\ Len(s.digest) >= s.offset - s.start
    BY <1>1, <1>3 DEF Published, StateKnownIn
  <2>3. head \in Nat
    BY <1>1 DEF Least
  <2>4. ASSUME ~DoomedIn(s, transcript, epoch)
        PROVE  /\ Range(transcript, 0, head) = s.prefix
               /\ Range(transcript, s.start, s.offset) = s.digest
    <3>1. Len(s.digest) = s.offset - s.start /\ s.start + Len(s.digest) = s.offset
      <4>1. ~(Len(s.digest) > s.offset - s.start)
        BY <1>3, <2>4 DEF DoomedIn
      <4> QED
        BY <2>2, <4>1, DigestLength
    <3>2. Fits(s.digest, s.start, transcript) /\ Fits(s.prefix, 0, transcript)
      BY <1>3, <2>4, <3>1 DEF DoomedIn, StateKnownIn, Settled
    <3>3. Range(transcript, s.start, s.offset) = s.digest
      BY <1>1, <3>1, <3>2, FitsIsRange
    <3>4. head = Len(s.prefix)
      <4>1. s.prefix = <<>> => PrefixBytes = 0 /\ Len(s.prefix) = 0
        BY <1>1, <1>3, <2>4 DEF DoomedIn
      <4> QED
        BY <1>1, <2>2, <4>1 DEF Least
    <3>5. Range(transcript, 0, 0 + Len(s.prefix)) = s.prefix
      BY <1>1, <3>2, FitsIsRange
    <3>6. 0 + Len(s.prefix) = head
      BY <1>1, <3>4
    <3> QED
      BY <3>3, <3>5, <3>6
  <2>5. ASSUME DoomedIn(s, transcript, epoch),
               Range(transcript, 0, head) = s.prefix,
               Range(transcript, s.start, s.offset) = s.digest
        PROVE  FALSE
    <3>1. Len(Range(transcript, s.start, s.offset)) <= s.offset - s.start
      <4> DEFINE n == Least(s.offset, Len(transcript))
                 l == Len(Range(transcript, s.start, s.offset))
      <4>1. n \in Nat /\ n <= s.offset
        BY <1>1 DEF Least
      <4>2. l \in Nat /\ (s.start <= n => l = n - s.start) /\ (n <= s.start => l = 0)
        BY <1>1, RangeElements
      <4> HIDE DEF n, l
      <4>3. l <= s.offset - s.start
        BY <1>1, <2>2, <4>1, <4>2
      <4> QED
        BY <4>3 DEF l
    <3>2. Len(s.digest) = s.offset - s.start /\ s.start + Len(s.digest) = s.offset
      <4>1. Len(s.digest) <= s.offset - s.start
        BY <2>5, <3>1, Zenon
      <4>2. ~(Len(s.digest) > s.offset - s.start)
        BY <1>1, <4>1
      <4> QED
        BY <2>2, <4>2, DigestLength
    <3>3. Fits(s.digest, s.start, transcript)
      BY <1>1, <2>5, <3>2, FitsIsRange
    <3>4. ~Broken(s.digest, s.start, transcript, epoch)
      BY <1>1, <3>3, BrokenDoesNotFit
    <3>5. CASE s.prefix = <<>> /\ PrefixBytes > 0
      <4>1. head >= 1
        BY <1>1, <2>2, <3>5 DEF Least
      <4>2. Len(transcript) >= 1
        <5>1. 1 \in 1 .. Len(s.digest)
          BY <1>1, <2>2, <3>2
        <5> QED
          BY <1>1, <3>3, <5>1 DEF Fits
      <4>3. Least(head, Len(transcript)) >= 1
        BY <2>3, <4>1, <4>2 DEF Least
      <4>4. 0 <= Least(head, Len(transcript)) /\ Least(head, Len(transcript)) \in Int
        BY <2>3 DEF Least
      <4> HIDE DEF head
      <4>5. Len(Range(transcript, 0, head)) = Least(head, Len(transcript)) - 0
        BY <2>3, <4>4, RangeElements
      <4>6. Len(<<>>) = 0
        OBVIOUS
      <4> QED
        BY <2>5, <3>5, <4>3, <4>4, <4>5, <4>6
    <3>6. CASE Broken(s.prefix, 0, transcript, epoch)
      <4>1. s.prefix # <<>>
        BY <3>6 DEF Broken
      <4>2. head = 0 + Len(s.prefix)
        BY <1>1, <4>1
      <4>3. Fits(s.prefix, 0, transcript)
        BY <1>1, <2>5, <4>2, FitsIsRange
      <4> QED
        BY <1>1, <3>6, <4>3, BrokenDoesNotFit
    <3> QED
      BY <1>1, <2>5, <3>2, <3>4, <3>5, <3>6 DEF DoomedIn
  <2> HIDE DEF head
  <2> QED
    BY <1>3, <2>1, <2>4, <2>5
<1> QED
  BY <1>2, <1>3
-----------------------------------------------------------------------------
(* What the steps of a run make of a state                                  *)

Same(t, s) ==
    t.start = s.start /\ t.offset = s.offset /\ t.digest = s.digest /\ t.prefix = s.prefix
Wiped(t, s) ==
    t.start = s.start /\ t.offset = 0 /\ t.digest = <<>> /\ t.prefix = <<>>

LEMMA WipedUnpublished ==
  ASSUME NEW s \in PublishState, NEW t, Wiped(t, s)
  PROVE  ~Published(t)
BY StateFields DEF Wiped, Published

LEMMA ResetFields ==
  ASSUME NEW s \in PublishState
  PROVE  /\ Reset(s) \in PublishState
         /\ Wiped(Reset(s), s)
         /\ Reset(s).enc = s.enc
         /\ Reset(s).gen = IF s.enc THEN s.gen + 1 ELSE s.gen
         /\ Reset(s).dk = IF s.enc THEN NoKey ELSE s.dk
<1> DEFINE e == <<>>
           g == IF s.enc THEN s.gen + 1 ELSE s.gen
           k == IF s.enc THEN NoKey ELSE s.dk
<1>1. Reset(s) = [s EXCEPT !.offset = 0, !.digest = e, !.prefix = e,
                           !.gen = IF s.enc THEN @ + 1 ELSE @,
                           !.dk = IF s.enc THEN NoKey ELSE @]
  BY Zenon DEF Reset
<1>2. Reset(s) = [start |-> s.start, offset |-> 0, digest |-> e, prefix |-> e,
                  enc |-> s.enc, gen |-> g, dk |-> k]
  BY <1>1 DEF PublishState
<1> QED
  BY <1>2, ResetFacts DEF Wiped

LEMMA MintedFields ==
  ASSUME NEW s \in PublishState, NEW dk \in Keys, row.gen \in Nat
  PROVE  /\ Minted(s, dk) \in PublishState
         /\ IF s.dk = Unreadable THEN Wiped(Minted(s, dk), s) ELSE Same(Minted(s, dk), s)
         /\ Minted(s, dk).enc = TRUE /\ Minted(s, dk).dk = dk
         /\ Minted(s, dk).gen > s.gen /\ Minted(s, dk).gen > ServerGen
<1> DEFINE kept == IF s.dk = Unreadable THEN Reset(s) ELSE s
           g == Most(kept.gen, ServerGen) + 1
<1>1. /\ kept \in PublishState /\ kept.gen >= s.gen
      /\ IF s.dk = Unreadable THEN Wiped(kept, s) ELSE Same(kept, s)
  BY ResetFields, StateFields DEF Same
<1>2. g \in Nat /\ g > s.gen /\ g > ServerGen
  BY <1>1, StateFields DEF Most, ServerGen
<1>3. Minted(s, dk) = [kept EXCEPT !.enc = TRUE, !.gen = g, !.dk = dk]
  BY DEF Minted
<1> HIDE DEF kept, g
<1>4. Minted(s, dk) = [start |-> kept.start, offset |-> kept.offset, digest |-> kept.digest,
                       prefix |-> kept.prefix, enc |-> TRUE, gen |-> g, dk |-> dk]
  BY <1>1, <1>3 DEF PublishState
<1> DEFINE m == Minted(s, dk)
<1>5. /\ m.start = kept.start /\ m.offset = kept.offset /\ m.digest = kept.digest
      /\ m.prefix = kept.prefix /\ m.enc = TRUE /\ m.gen = g /\ m.dk = dk
  BY <1>4
<1>6. m \in PublishState
  BY MintedFacts
<1> HIDE DEF m
<1>7. IF s.dk = Unreadable THEN Wiped(m, s) ELSE Same(m, s)
  BY <1>1, <1>5 DEF Same, Wiped
<1> QED
  BY <1>2, <1>5, <1>6, <1>7 DEF m

(* _setup_cipher keeps the state of a key it can open, and mints otherwise.  *)
LEMMA SetupFields ==
  ASSUME NEW s \in PublishState, row.gen \in Nat, NEW t \in SetupCipher(s)
  PROVE  /\ t \in PublishState /\ t.enc
         /\ Opens(s) => t = s
         /\ ~Opens(s) => /\ IF s.dk = Unreadable THEN Wiped(t, s) ELSE Same(t, s)
                         /\ t.dk \in NewKey
                         /\ t.gen > s.gen /\ t.gen > ServerGen
<1>1. CASE Opens(s)
  <2>1. t = s
    BY <1>1 DEF SetupCipher
  <2> QED
    BY <1>1, <2>1 DEF Opens
<1>2. CASE ~Opens(s)
  <2>1. PICK dk \in NewKey : t = Minted(s, dk)
    BY <1>2 DEF SetupCipher
  <2>2. dk \in Keys
    BY DEF NewKey
  <2> QED
    BY <1>2, <2>1, <2>2, MintedFields
<1> QED
  BY <1>1, <1>2

RunFields == <<transcript, epoch, sharing, mark, mishaps, troubles>>

(* The verification: it keeps the state, or starts over and will delete what *)
(* the store holds; a run that encrypts goes on under the key it has exactly *)
(* when it keeps the state.                                                  *)
LEMMA VerifyFacts ==
  ASSUME TypeOK, Verify
  PROVE  /\ pc = "verify" /\ pc' = "plan"
         /\ UNCHANGED <<RunFields, saved, row, chunks, wrap, plan, sealed>>
         /\ run' = [run EXCEPT !.deleting = run'.deleting, !.wraps = run'.wraps]
         /\ run'.deleting \in BOOLEAN /\ run'.wraps \in BOOLEAN
         /\ run'.deleting =>
              /\ Wiped(state', state)
              /\ \/ ~Verified(state, run.size)
                 \/ Migrates(state)
                 \/ Aead /\ state.enc /\ state.dk = Unreadable
         /\ ~run'.deleting =>
              /\ Verified(state, run.size) /\ ~Migrates(state)
              /\ Same(state', state) \/ Wiped(state', state)
              /\ state.dk # Unreadable => Same(state', state)
         /\ ~Aead => /\ ~run'.wraps
                     /\ state'.enc = state.enc /\ state'.gen >= state.gen
                     /\ ~state.enc => state'.dk = state.dk
         /\ Aead /\ ~run'.wraps =>
              Opens(state) /\ state' = state /\ ~run'.deleting
         /\ Aead => state'.enc
         /\ run'.wraps =>
              /\ Aead /\ state'.dk \in NewKey
              /\ state'.gen > state.gen /\ state'.gen > ServerGen
              /\ ~Opens(state) \/ ~Verified(state, run.size)
         /\ state' \in PublishState
<1> DEFINE stale == ~Verified(state, run.size)
           kept == IF stale THEN Reset(state) ELSE state
           base == IF Migrates(state) /\ Published(kept) THEN Reset(kept) ELSE kept
           rotates == Aead /\ base.enc /\ base.dk = Unreadable
           deleting == stale \/ Migrates(state) \/ rotates
           wraps == Aead /\ ~Opens(base)
<1>1. state \in PublishState /\ row.gen \in Nat
  BY DEF TypeOK, RunTypeOK, StoreTypeOK
<1>2. /\ pc = "verify" /\ pc' = "plan"
      /\ UNCHANGED <<RunFields, saved, row, chunks, wrap, plan, sealed>>
      /\ state' \in IF Aead THEN SetupCipher(base) ELSE {base}
      /\ run' = [run EXCEPT !.deleting = deleting, !.wraps = wraps]
  BY Zenon DEF Verify, Goto, Outside, file, store, RunFields
<1>3. deleting \in BOOLEAN /\ wraps \in BOOLEAN
  OBVIOUS
<1>4. run'.deleting = deleting /\ run'.wraps = wraps
  <2> HIDE DEF deleting, wraps
  <2> QED
    BY <1>2 DEF TypeOK, RunTypeOK
<1>5. /\ kept \in PublishState
      /\ stale => Wiped(kept, state) /\ kept.dk = IF state.enc THEN NoKey ELSE state.dk
      /\ ~stale => kept = state
      /\ kept.enc = state.enc /\ kept.gen >= state.gen
      /\ ~state.enc => kept.dk = state.dk
  BY <1>1, ResetFields, StateFields
<1>6. /\ base \in PublishState /\ base.enc = state.enc /\ base.gen >= state.gen
      /\ Migrates(state) \/ stale => Wiped(base, state)
      /\ ~Migrates(state) => base = kept
      /\ ~state.enc => base.dk = state.dk
  <2>1. CASE Migrates(state) /\ Published(kept)
    <3>1. base = Reset(kept)
      BY <2>1
    <3> HIDE DEF kept, base
    <3>2. base \in PublishState /\ Wiped(base, kept) /\ base.enc = kept.enc
          /\ base.gen >= kept.gen /\ (~kept.enc => base.dk = kept.dk)
      BY <1>5, <3>1, ResetFields, StateFields
    <3>3. Wiped(base, state)
      BY <1>5, <3>2, Zenon DEF Wiped
    <3>4. base.gen >= state.gen
      BY <1>1, <1>5, <3>2, StateFields
    <3> QED
      BY <1>5, <2>1, <3>2, <3>3, <3>4, Zenon
  <2>2. CASE ~(Migrates(state) /\ Published(kept))
    <3>1. base = kept
      BY <2>2
    <3>2. Migrates(state) => Wiped(kept, state)
      <4>1. Migrates(state) => stale
        BY <1>5, <2>2 DEF Migrates
      <4> QED
        BY <1>5, <4>1
    <3> HIDE DEF kept, base
    <3> QED
      BY <1>5, <3>1, <3>2
  <2> QED
    BY <2>1, <2>2
<1>7. stale => base.dk # Unreadable \/ ~state.enc
  <2>1. Migrates(state) => ~state.enc
    BY DEF Migrates
  <2>2. NoKey # Unreadable
    BY DEF NoKey, Unreadable
  <2> HIDE DEF kept, base, stale
  <2> QED
    BY <1>5, <1>6, <2>1, <2>2
<1>8. Opens(base) => ~stale /\ base = state /\ ~Migrates(state) /\ ~rotates
  <2>1. NoKey \notin Keys /\ Unreadable \notin Keys
    BY PublishConstants DEF PublishConstants, NoKey, Unreadable
  <2>2. Opens(base) => base.enc /\ base.dk \in Keys
    BY DEF Opens
  <2>3. Migrates(state) => ~state.enc
    BY DEF Migrates
  <2> HIDE DEF kept, base, stale
  <2> QED
    BY <1>5, <1>6, <2>1, <2>2, <2>3
<1>9. rotates /\ ~stale /\ ~Migrates(state) => base = state /\ Aead /\ state.enc /\ state.dk = Unreadable
  <2> HIDE DEF kept, base, stale
  <2> QED
    BY <1>5, <1>6
<1>10. CASE ~Aead
  <2>1. state' = base /\ ~rotates /\ ~wraps /\ ~Migrates(state)
    BY <1>2, <1>10 DEF Migrates
  <2>2. deleting = stale
    BY <2>1
  <2> HIDE DEF base, kept, stale, rotates, deleting, wraps
  <2>3. ~deleting => base = state /\ Verified(state, run.size)
    BY <1>5, <1>6, <2>1, <2>2 DEF stale
  <2>4. deleting => Wiped(base, state) /\ ~Verified(state, run.size)
    BY <1>6, <2>2 DEF stale
  <2> QED
    BY <1>2, <1>3, <1>4, <1>6, <1>10, <2>1, <2>3, <2>4 DEF Same
<1>11. CASE Aead
  <2>1. state' \in SetupCipher(base)
    BY <1>2, <1>11
  <2> HIDE DEF base
  <2>2. /\ state' \in PublishState /\ state'.enc
        /\ Opens(base) => state' = base
        /\ ~Opens(base) => /\ IF base.dk = Unreadable THEN Wiped(state', base) ELSE Same(state', base)
                           /\ state'.dk \in NewKey
                           /\ state'.gen > base.gen /\ state'.gen > ServerGen
    BY <1>1, <1>6, <2>1, SetupFields
  <2>3. CASE Opens(base)
    <3>1. ~stale /\ base = state /\ ~Migrates(state) /\ ~rotates
      BY <1>8, <2>3
    <3>2. ~deleting /\ ~wraps /\ state' = state
      BY <2>2, <2>3, <3>1
    <3> HIDE DEF kept, rotates, deleting, wraps
    <3> QED
      BY <1>2, <1>3, <1>4, <1>11, <2>2, <2>3, <3>1, <3>2 DEF Same
  <2>4. CASE ~Opens(base)
    <3>1. wraps
      BY <1>11, <2>4
    <3>2. state'.gen > state.gen /\ state'.gen > ServerGen /\ state'.dk \in NewKey
      <4>1. base.gen \in Nat /\ state.gen \in Nat /\ state'.gen \in Nat /\ base.gen >= state.gen
        BY <1>1, <1>6, <2>2, StateFields
      <4> QED
        BY <2>2, <2>4, <4>1
    <3>3. ~Opens(state) \/ ~Verified(state, run.size)
      <4>1. ~stale /\ ~Migrates(state) => base = state
        <5> HIDE DEF stale, kept
        <5> QED
          BY <1>5, <1>6
      <4>2. Migrates(state) => ~Opens(state)
        BY DEF Migrates, Opens
      <4> QED
        BY <2>4, <4>1, <4>2
    <3>4. ASSUME deleting
          PROVE  /\ Wiped(state', state)
                 /\ \/ ~Verified(state, run.size)
                    \/ Migrates(state)
                    \/ Aead /\ state.enc /\ state.dk = Unreadable
      <4>1. CASE stale \/ Migrates(state)
        <5>1. Wiped(base, state)
          BY <1>6, <4>1
        <5>2. Wiped(state', state)
          BY <2>2, <2>4, <5>1 DEF Wiped, Same
        <5> QED
          BY <4>1, <5>2
      <4>2. CASE rotates /\ ~stale /\ ~Migrates(state)
        <5>1. base = state /\ Aead /\ state.enc /\ state.dk = Unreadable
          BY <1>9, <4>2
        <5> HIDE DEF stale, kept, rotates, deleting, wraps
        <5> QED
          BY <2>2, <2>4, <5>1
      <4> QED
        BY <3>4, <4>1, <4>2
    <3>5. ASSUME ~deleting
          PROVE  /\ Verified(state, run.size) /\ ~Migrates(state)
                 /\ Same(state', state) \/ Wiped(state', state)
                 /\ state.dk # Unreadable => Same(state', state)
      <4>1. ~stale /\ ~Migrates(state)
        BY <3>5
      <4>2. base = state
        <5> HIDE DEF stale, kept
        <5> QED
          BY <1>5, <1>6, <4>1
      <4>3. Same(state', state) \/ Wiped(state', state)
        BY <2>2, <2>4, <4>2
      <4>4. state.dk # Unreadable => Same(state', state)
        BY <2>2, <2>4, <4>2
      <4> QED
        BY <4>1, <4>3, <4>4
    <3> HIDE DEF stale, kept, rotates, deleting, wraps
    <3> QED
      BY <1>2, <1>3, <1>4, <1>11, <2>2, <3>1, <3>2, <3>3, <3>4, <3>5
  <2> QED
    BY <2>3, <2>4
<1> QED
  BY <1>10, <1>11

(* The pieces of a plan follow on each other, from the offset of a verified  *)
(* state or else from the watermark, and end inside the file of the one stat.*)
LEMMA PlanPieces ==
  ASSUME NEW s \in PublishState, NEW size \in Nat, transcript \in Seq(Nat),
         PublishConstants
  PROVE  /\ \A i \in 1 .. Len(PlanChunks(s, size)) :
              /\ PlanChunks(s, size)[i].end <= size
              /\ PlanChunks(s, size)[i].end <= Len(transcript)
              /\ i < Len(PlanChunks(s, size)) =>
                   PlanChunks(s, size)[i + 1].off = PlanChunks(s, size)[i].end
         /\ PlanChunks(s, size) # <<>> =>
              PlanChunks(s, size)[1].off = IF Verified(s, size) THEN PlanStart(s) ELSE s.start
<1> DEFINE first == IF Verified(s, size) THEN PlanStart(s) ELSE s.start
           limit == Least(size, Len(transcript))
           count == IF first >= limit THEN 0
                    ELSE ((limit - first) + MaxChunk - 1) \div MaxChunk
           off(i) == first + (i - 1) * MaxChunk
           end(i) == Least(off(i) + MaxChunk, limit)
           todo == [i \in 1 .. count |->
                      [off |-> off(i), end |-> end(i), data |-> Range(transcript, off(i), end(i))]]
<1>1. first \in Nat
  BY DEF PlanStart, Most, PublishState
<1>2. limit \in Nat /\ limit <= size /\ limit <= Len(transcript)
  BY DEF Least
<1>3. MaxChunk \in Nat \ {0}
  BY DEF PublishConstants
<1>4. count \in Nat
  <2>1. CASE first >= limit
    BY <2>1
  <2>2. CASE ~(first >= limit)
    <3> DEFINE all == (limit - first) + MaxChunk - 1
    <3>1. all \in Nat
      BY <1>1, <1>2, <1>3, <2>2
    <3>2. count = all \div MaxChunk
      BY <2>2
    <3> HIDE DEF all, count
    <3>3. all \div MaxChunk \in Nat
      BY <1>3, <3>1
    <3> QED
      BY <3>2, <3>3
  <2> QED
    BY <2>1, <2>2
<1>5. ASSUME NEW i \in 1 .. count
      PROVE  off(i) \in Nat /\ off(i) < limit
  <2>1. limit - first \in Nat /\ count = ((limit - first) + MaxChunk - 1) \div MaxChunk
    <3>1. ~(first >= limit)
      BY <1>4, <1>5
    <3> HIDE DEF first, limit
    <3>2. limit - first \in Nat
      BY <1>1, <1>2, <3>1
    <3> QED
      BY <3>1, <3>2 DEF count
  <2> DEFINE left == limit - first
  <2>2. 0 <= (i - 1) * MaxChunk /\ (i - 1) * MaxChunk < limit - first
    <3>1. left \in Nat /\ i \in 1 .. (left + MaxChunk - 1) \div MaxChunk
      BY <1>5, <2>1
    <3> HIDE DEF left
    <3>2. 0 <= (i - 1) * MaxChunk /\ (i - 1) * MaxChunk < left
      BY <1>3, <3>1, PieceStarts
    <3> QED
      BY <3>2 DEF left
  <2>3. (i - 1) * MaxChunk \in Int
    BY <1>3, <1>4
  <2> DEFINE k == (i - 1) * MaxChunk
  <2>4. k \in Int /\ 0 <= k /\ k < limit - first
    BY <2>2, <2>3
  <2>5. off(i) = first + k
    OBVIOUS
  <2> HIDE DEF k, off, first, limit
  <2> QED
    BY <1>1, <1>2, <2>4, <2>5
<1>6. ASSUME NEW i \in 1 .. count
      PROVE  end(i) <= size /\ end(i) <= Len(transcript)
  <2>1. off(i) + MaxChunk \in Nat
    BY <1>3, <1>5
  <2> HIDE DEF off, limit
  <2> QED
    BY <1>2, <2>1 DEF Least
<1>7. ASSUME NEW i \in 1 .. count, i < count
      PROVE  off(i + 1) = end(i)
  <2>1. i + 1 \in 1 .. count /\ i \in Int
    BY <1>4, <1>7
  <2>2. off(i + 1) < limit
    BY <1>5, <2>1
  <2>3. off(i + 1) = off(i) + MaxChunk
    <3>1. (i + 1 - 1) * MaxChunk = (i - 1) * MaxChunk + MaxChunk
      BY <1>3, <2>1
    <3>2. (i - 1) * MaxChunk \in Int
      BY <1>3, <2>1
    <3> DEFINE k == (i - 1) * MaxChunk
               l == (i + 1 - 1) * MaxChunk
    <3>3. k \in Int /\ l = k + MaxChunk
      BY <3>1, <3>2
    <3>4. off(i) = first + k /\ off(i + 1) = first + l
      OBVIOUS
    <3> HIDE DEF k, l, off, first
    <3> QED
      BY <1>1, <1>3, <3>3, <3>4
  <2>4. off(i) \in Nat /\ off(i + 1) \in Nat
    BY <1>5, <2>1
  <2> DEFINE o == off(i)
             n == off(i + 1)
  <2>5. o \in Nat /\ n = o + MaxChunk /\ n < limit
    BY <2>2, <2>3, <2>4
  <2>6. end(i) = Least(o + MaxChunk, limit)
    OBVIOUS
  <2>7. end(i) = n
    <3> HIDE DEF o, n, off, end, limit
    <3> QED
      BY <1>2, <1>3, <2>5, <2>6 DEF Least
  <2> QED
    BY <2>7
<1>8. PlanChunks(s, size) = todo
  BY DEF PlanChunks
<1>9. Len(todo) = count
  <2> HIDE DEF count, off, end
  <2> QED
    BY <1>4
<1>10. \A i \in 1 .. count : todo[i].off = off(i) /\ todo[i].end = end(i)
  OBVIOUS
<1>11. \A i \in 1 .. count :
         /\ todo[i].end <= size /\ todo[i].end <= Len(transcript)
         /\ i < count => todo[i + 1].off = todo[i].end
  <2> HIDE DEF count, off, end, todo
  <2> TAKE i \in 1 .. count
  <2>1. todo[i].end <= size /\ todo[i].end <= Len(transcript)
    BY <1>6, <1>10
  <2>2. i < count => i + 1 \in 1 .. count
    BY <1>4
  <2>3. i < count => todo[i + 1].off = todo[i].end
    BY <1>7, <1>10, <2>2
  <2> QED
    BY <2>1, <2>3
<1>12. todo # <<>> => todo[1].off = first
  <2>1. todo # <<>> => 1 \in 1 .. count
    <3> HIDE DEF count, off, end
    <3>1. count = 0 => todo = <<>>
      OBVIOUS
    <3> QED
      BY <1>4, <3>1
  <2>2. off(1) = first + (1 - 1) * MaxChunk
    OBVIOUS
  <2>3. (1 - 1) * MaxChunk = 0
    BY <1>3
  <2>4. off(1) = first
    <3> HIDE DEF first
    <3> QED
      BY <1>1, <2>2, <2>3
  <2> HIDE DEF todo, count, off, end, first
  <2> QED
    BY <1>10, <2>1, <2>4
<1> HIDE DEF todo, count
<1> QED
  BY <1>8, <1>9, <1>11, <1>12 DEF first

(* The second verification, after a recovery, never deletes.                 *)
LEMMA ReplanFacts ==
  ASSUME PublishConstants, TypeOK, Replan, plan' # <<>>,
         Aead => state.dk # Unreadable
  PROVE  /\ pc = "replan" /\ pc' = "register"
         /\ UNCHANGED <<RunFields, saved, row, chunks, wrap, sealed>>
         /\ run' = [run EXCEPT !.wraps = run'.wraps] /\ run'.wraps \in BOOLEAN
         /\ state' \in PublishState
         /\ \/ Verified(state, run.size) /\ Same(state', state)
            \/ ~Verified(state, run.size) /\ Wiped(state', state)
         /\ ~Aead => /\ ~run'.wraps
                     /\ state'.enc = state.enc /\ state'.gen >= state.gen
                     /\ ~state.enc => state'.dk = state.dk
         /\ Aead /\ ~run'.wraps => Opens(state) /\ state' = state /\ Verified(state, run.size)
         /\ Aead => state'.enc
         /\ run'.wraps =>
              /\ Aead /\ state'.dk \in NewKey
              /\ state'.gen > state.gen /\ state'.gen > ServerGen
              /\ ~Opens(state) \/ ~Verified(state, run.size)
         /\ plan' \in Seq(PieceType)
         /\ \A i \in 1 .. Len(plan') :
              /\ state.start <= plan'[i].off /\ plan'[i].off < plan'[i].end
              /\ plan'[i].end <= run.size /\ plan'[i].end <= Len(transcript)
              /\ i < Len(plan') => plan'[i + 1].off = plan'[i].end
         /\ plan'[1].off = IF Verified(state, run.size) THEN PlanStart(state) ELSE state.start
<1> DEFINE kept == IF Verified(state, run.size) THEN state ELSE Reset(state)
           todo == PlanChunks(kept, run.size)
           wraps == Aead /\ ~Opens(kept)
<1>1. state \in PublishState /\ row.gen \in Nat /\ run.size \in Nat /\ transcript \in Seq(Nat)
  BY DEF TypeOK, FileTypeOK, RunTypeOK, StoreTypeOK
<1>2. todo # <<>>
  BY DEF Replan, End
<1>3. /\ pc = "replan" /\ pc' = "register" /\ plan' = todo
      /\ UNCHANGED <<RunFields, saved, row, chunks, wrap, sealed>>
      /\ state' \in IF Aead THEN SetupCipher(kept) ELSE {kept}
      /\ run' = [run EXCEPT !.wraps = wraps]
  BY <1>2, Zenon DEF Replan, Goto, Outside, file, store, RunFields
<1>4. wraps \in BOOLEAN /\ run'.wraps = wraps
  <2>1. wraps \in BOOLEAN
    OBVIOUS
  <2> HIDE DEF wraps
  <2> QED
    BY <1>3, <2>1 DEF TypeOK, RunTypeOK
<1>5. /\ kept \in PublishState /\ kept.start = state.start
      /\ Verified(state, run.size) => kept = state
      /\ ~Verified(state, run.size) => Wiped(kept, state)
      /\ kept.enc = state.enc /\ kept.gen >= state.gen
      /\ ~state.enc => kept.dk = state.dk
      /\ kept.dk \in {state.dk, NoKey}
      /\ ~Verified(state, run.size) /\ kept.enc => kept.dk = NoKey
  BY <1>1, ResetFields, StateFields DEF Wiped
<1>6. Verified(kept, run.size) /\ PlanStart(kept) = IF Verified(state, run.size)
                                                    THEN PlanStart(state) ELSE state.start
  <2>1. CASE Verified(state, run.size)
    BY <2>1
  <2>2. CASE ~Verified(state, run.size)
    <3>1. ~Published(kept) /\ kept.offset = 0 /\ kept.start = state.start
      BY <1>1, <1>5, <2>2, WipedUnpublished DEF Wiped
    <3> HIDE DEF kept
    <3> QED
      BY <1>1, <2>2, <3>1, StateFields DEF Verified, PlanStart, Most
  <2> QED
    BY <2>1, <2>2
<1> HIDE DEF kept
<1>7. /\ todo \in Seq(PieceType)
      /\ \A i \in 1 .. Len(todo) :
              /\ state.start <= todo[i].off /\ todo[i].off < todo[i].end
              /\ todo[i].end <= run.size /\ todo[i].end <= Len(transcript)
              /\ i < Len(todo) => todo[i + 1].off = todo[i].end
      /\ todo[1].off = IF Verified(state, run.size) THEN PlanStart(state) ELSE state.start
  BY <1>1, <1>2, <1>5, <1>6, PlanFacts, PlanPieces
<1> HIDE DEF todo
<1>8. CASE ~Aead
  <2>1. state' = kept /\ ~wraps
    BY <1>3, <1>8
  <2>2. \/ Verified(state, run.size) /\ Same(state', state)
        \/ ~Verified(state, run.size) /\ Wiped(state', state)
    BY <1>5, <2>1 DEF Same
  <2> HIDE DEF wraps
  <2> QED
    BY <1>3, <1>4, <1>5, <1>7, <1>8, <2>1, <2>2
<1>9. CASE Aead
  <2>1. state' \in SetupCipher(kept) /\ kept.dk # Unreadable
    BY <1>3, <1>5, <1>9 DEF NoKey, Unreadable
  <2>2. /\ state' \in PublishState /\ state'.enc
        /\ Opens(kept) => state' = kept
        /\ ~Opens(kept) => /\ Same(state', kept) /\ state'.dk \in NewKey
                           /\ state'.gen > kept.gen /\ state'.gen > ServerGen
    BY <1>1, <1>5, <2>1, SetupFields
  <2>3. Same(state', kept)
    BY <2>2 DEF Same
  <2>4. \/ Verified(state, run.size) /\ Same(state', state)
        \/ ~Verified(state, run.size) /\ Wiped(state', state)
    BY <1>5, <2>3 DEF Same, Wiped
  <2>5. Opens(kept) => Verified(state, run.size) /\ kept = state
    <3>1. NoKey \notin Keys
      BY DEF PublishConstants, NoKey
    <3> QED
      BY <1>5, <3>1 DEF Opens
  <2>6. ~Opens(kept) => /\ ~Opens(state) \/ ~Verified(state, run.size)
                       /\ state'.gen > state.gen
    <3>1. kept.gen \in Nat /\ state.gen \in Nat /\ state'.gen \in Nat /\ kept.gen >= state.gen
      BY <1>1, <1>5, <2>2, StateFields
    <3> QED
      BY <1>5, <2>2, <3>1
  <2> QED
    BY <1>3, <1>4, <1>7, <1>9, <2>2, <2>4, <2>5, <2>6
<1> QED
  BY <1>8, <1>9

(* A byte is in a chunk of the store, at the position it has in s.           *)
Holds(s) ==
    \A b \in s.start .. s.offset - 1 : \E c \in chunks :
      c.off <= b /\ b < c.end /\ c.body.data[b - c.off + 1] = s.digest[b - s.start + 1]

(* No chunk is empty, and each holds the bytes of its range.                 *)
ChunkShape == \A c \in chunks : c.off < c.end /\ Len(c.body.data) = c.end - c.off

-----------------------------------------------------------------------------
(* What the other steps do, variable by variable                            *)

RunKept == run'.mode = run.mode /\ run'.size = run.size

LEMMA BeginFacts ==
  ASSUME NEW mode \in Modes, Begin(mode)
  PROVE  /\ pc = "idle" /\ sharing /\ ~(saved.enc /\ mode = "plain")
         /\ pc' = IF Published(saved) THEN "verify" ELSE "reconcile"
         /\ state' = saved
         /\ run' = [mode |-> mode, size |-> Len(transcript), deleting |-> FALSE,
                    recoveries |-> 0, prefix |-> <<>>, wraps |-> FALSE, data |-> <<>>,
                    look |-> NoLook]
         /\ UNCHANGED <<RunFields, saved, row, chunks, wrap, plan, sealed>>
BY DEF Begin, Goto, NoRun, Outside, file, store, RunFields

LEMMA PlanStepFacts ==
  ASSUME Plan
  PROVE  /\ pc = "plan"
         /\ \/ End
            \/ /\ plan' = PlanChunks(state, run.size) /\ plan' # <<>>
               /\ pc' = IF run.deleting THEN "delete" ELSE "register"
               /\ UNCHANGED <<state, run>>
         /\ UNCHANGED <<RunFields, saved, row, chunks, wrap, sealed>>
<1> DEFINE todo == PlanChunks(state, run.size)
<1>1. /\ pc = "plan"
      /\ IF todo = <<>> THEN End
         ELSE /\ plan' = todo /\ pc' = IF run.deleting THEN "delete" ELSE "register"
              /\ UNCHANGED <<state, run>>
      /\ UNCHANGED <<RunFields, saved, row, chunks, wrap, sealed>>
  BY Zenon DEF Plan, Goto, Outside, file, store, RunFields
<1> HIDE DEF todo
<1> QED
  BY <1>1, Zenon DEF todo

LEMMA DeletedFacts ==
  ASSUME TypeOK, DeleteSession
  PROVE  /\ row'.status = IF row.status = "absent" THEN "absent" ELSE "deleted"
         /\ row'.enc = row.enc /\ row'.gen = row.gen
         /\ chunks' = {} /\ wrap' = [gen |-> 0, dk |-> NoKey]
BY DEF DeleteSession, TypeOK, StoreTypeOK

LEMMA DeleteFacts ==
  ASSUME Delete
  PROVE  /\ pc = "delete" /\ pc' = "register" /\ DeleteSession
         /\ UNCHANGED <<RunFields, saved, state, plan, run, sealed>>
BY Zenon DEF Delete, Goto, Outside, file, RunFields

(* Before the first chunk goes the wraps are done, and the head of the file  *)
(* is read.                                                                  *)
LEMMA EnterFacts ==
  ASSUME TypeOK, EnterLoop
  PROVE  /\ pc' = "send" /\ RunKept /\ ~run'.wraps
         /\ run'.deleting = run.deleting /\ run'.recoveries = run.recoveries
         /\ run'.prefix = IF run.recoveries = 0
                            THEN Range(transcript, 0, Least(run.size, PrefixBytes))
                            ELSE run.prefix
         /\ UNCHANGED <<state, plan>>
<1> DEFINE head == IF run.recoveries = 0
                     THEN Range(transcript, 0, Least(run.size, PrefixBytes))
                     ELSE run.prefix
<1>1. /\ pc' = "send" /\ UNCHANGED <<state, plan>>
      /\ run' = [run EXCEPT !.wraps = FALSE, !.prefix = head]
  BY DEF EnterLoop, Goto
<1> HIDE DEF head
<1>2. /\ RunKept /\ ~run'.wraps /\ run'.prefix = head
      /\ run'.deleting = run.deleting /\ run'.recoveries = run.recoveries
  BY <1>1 DEF RunKept, TypeOK, RunTypeOK
<1> QED
  BY <1>1, <1>2 DEF head

LEMMA RegisterFacts ==
  ASSUME Register
  PROVE  /\ pc = "register"
         /\ \/ End /\ row' = row /\ ~AcceptsSession(Aead, state.gen)
            \/ /\ AcceptsSession(Aead, state.gen)
               /\ row' = [status |-> "live", enc |-> row.enc \/ Aead,
                          gen |-> IF Aead THEN state.gen ELSE row.gen]
               /\ \/ run.wraps /\ pc' = "wrap" /\ UNCHANGED <<state, plan, run>>
                  \/ ~run.wraps /\ EnterLoop
         /\ UNCHANGED <<RunFields, saved, chunks, wrap, sealed>>
BY Zenon DEF Register, Registered, Goto, Outside, file, RunFields

LEMMA WrapFacts ==
  ASSUME PutWraps
  PROVE  /\ pc = "wrap"
         /\ \/ End /\ wrap' = wrap /\ ~Live
            \/ /\ Live /\ EnterLoop
               /\ wrap' = IF state.gen >= wrap.gen THEN [gen |-> state.gen, dk |-> state.dk]
                                                   ELSE wrap
         /\ UNCHANGED <<RunFields, saved, row, chunks, sealed>>
BY Zenon DEF PutWraps, Outside, file, RunFields

(* What a chunk travels as, and what the state is after it is stored.        *)
BodyOf(data) ==
    IF Aead THEN Seal(state.dk, state.gen, Head(plan).off, data) ELSE Plain(data)
ReadNow == Range(transcript, Head(plan).off, Head(plan).end)

LEMMA BodyData ==
  ASSUME NEW data
  PROVE  BodyOf(data).data = data
BY DEF BodyOf, Seal, Plain

LEMMA SendFacts ==
  ASSUME TypeOK, Send
  PROVE  /\ pc = "send"
         /\ sealed' = IF Aead THEN sealed \cup {BodyOf(ReadNow)} ELSE sealed
         /\ \/ /\ Live /\ row.enc = Aead /\ Len(ReadNow) = Head(plan).end - Head(plan).off
               /\ \/ /\ \A d \in chunks : d.off # Head(plan).off
                     /\ chunks' = chunks \cup
                          {[off |-> Head(plan).off, end |-> Head(plan).end, body |-> BodyOf(ReadNow)]}
                  \/ /\ chunks' = chunks
                     /\ \E d \in chunks : /\ d.off = Head(plan).off /\ d.end = Head(plan).end
                                          /\ d.body = BodyOf(ReadNow)
               /\ pc' = "save" /\ RunKept /\ run'.data = ReadNow
               /\ run'.prefix = run.prefix /\ run'.wraps = run.wraps
               /\ run'.deleting = run.deleting /\ run'.recoveries = run.recoveries
               /\ UNCHANGED <<state, plan>>
            \/ /\ Live /\ row.enc = Aead /\ chunks' = chunks
               /\ \E d \in chunks : d.off = Head(plan).off
               /\ pc' = "conflict" /\ UNCHANGED <<state, plan, run>>
            \/ End /\ chunks' = chunks
         /\ UNCHANGED <<RunFields, saved, row, wrap>>
<1> DEFINE c == Head(plan)
           data == ReadNow
           body == BodyOf(data)
           there == {d \in chunks : d.off = c.off}
           same == {d \in there : d.end = c.end /\ d.body = body}
           well == Live /\ row.enc = Aead /\ Len(data) = c.end - c.off /\ (Aead \/ data = c.data)
<1>1. /\ pc = "send"
      /\ sealed' = IF Aead THEN sealed \cup {body} ELSE sealed
      /\ \/ /\ well /\ there = {}
            /\ chunks' = chunks \cup {[off |-> c.off, end |-> c.end, body |-> body]}
            /\ pc' = "save" /\ run' = [run EXCEPT !.data = data]
            /\ UNCHANGED <<state, plan>>
         \/ /\ well /\ same # {}
            /\ pc' = "save" /\ run' = [run EXCEPT !.data = data]
            /\ UNCHANGED <<chunks, state, plan>>
         \/ /\ well /\ there # {} /\ same = {}
            /\ pc' = "conflict" /\ UNCHANGED <<chunks, state, plan, run>>
         \/ ~well /\ End /\ UNCHANGED chunks
      /\ UNCHANGED <<RunFields, saved, row, wrap>>
  BY Zenon DEF Send, Goto, Outside, file, RunFields, BodyOf, ReadNow
<1> HIDE DEF c, data, body, well
<1>2. ASSUME run' = [run EXCEPT !.data = data]
      PROVE  /\ RunKept /\ run'.data = data
             /\ run'.prefix = run.prefix /\ run'.wraps = run.wraps
             /\ run'.deleting = run.deleting /\ run'.recoveries = run.recoveries
  BY <1>2 DEF RunKept, TypeOK, RunTypeOK
<1>3. there = {} => \A d \in chunks : d.off # c.off
  OBVIOUS
<1>4. same # {} => \E d \in chunks : d.off = c.off /\ d.end = c.end /\ d.body = body
  OBVIOUS
<1>5. there # {} => \E d \in chunks : d.off = c.off
  OBVIOUS
<1>6. well => Live /\ row.enc = Aead /\ Len(data) = c.end - c.off
  BY DEF well
<1> HIDE DEF there, same
<1> QED
  BY <1>1, <1>2, <1>3, <1>4, <1>5, <1>6, Zenon DEF c, data, body

LEMMA SaveFacts ==
  ASSUME TypeOK, Save
  PROVE  /\ pc = "save" /\ pc' = IF Len(plan) = 1 THEN "done" ELSE "send"
         /\ saved' = state'
         /\ state'.start = state.start /\ state'.offset = Head(plan).end
         /\ state'.digest = state.digest \o run.data /\ state'.prefix = run.prefix
         /\ state'.enc = state.enc /\ state'.gen = state.gen /\ state'.dk = state.dk
         /\ plan' = Tail(plan)
         /\ RunKept /\ run'.prefix = run.prefix /\ run'.wraps = run.wraps
         /\ run'.deleting = run.deleting /\ run'.recoveries = run.recoveries
         /\ UNCHANGED <<RunFields, row, chunks, wrap, sealed>>
<1>1. /\ pc = "save" /\ pc' = IF Len(plan) = 1 THEN "done" ELSE "send"
      /\ state' = Checkpoint /\ saved' = Checkpoint /\ plan' = Tail(plan)
      /\ run' = [run EXCEPT !.data = <<>>]
      /\ UNCHANGED <<RunFields, row, chunks, wrap, sealed>>
  BY Zenon DEF Save, Goto, Outside, file, store, RunFields
<1> DEFINE c == Head(plan).end
           d == state.digest \o run.data
           k == Checkpoint
<1>2. /\ k.start = state.start /\ k.offset = c /\ k.digest = d /\ k.prefix = run.prefix
      /\ k.enc = state.enc /\ k.gen = state.gen /\ k.dk = state.dk
  <2>1. k = [state EXCEPT !.offset = c, !.digest = d, !.prefix = run.prefix]
    BY DEF Checkpoint
  <2>2. state \in PublishState
    BY DEF TypeOK, RunTypeOK
  <2> HIDE DEF c, d, k
  <2> QED
    BY <2>1, <2>2 DEF PublishState
<1>3. /\ RunKept /\ run'.prefix = run.prefix /\ run'.wraps = run.wraps
      /\ run'.deleting = run.deleting /\ run'.recoveries = run.recoveries
  BY <1>1 DEF RunKept, TypeOK, RunTypeOK
<1> HIDE DEF c, d, k
<1> QED
  BY <1>1, <1>2, <1>3, Zenon DEF c, d, k

LEMMA ConflictFacts ==
  ASSUME TypeOK, Conflict
  PROVE  /\ pc = "conflict"
         /\ \/ End
            \/ /\ pc' = "recover" /\ UNCHANGED <<state, plan>>
               /\ RunKept /\ run'.prefix = run.prefix /\ run'.wraps = run.wraps
               /\ run'.deleting = run.deleting /\ run'.look = run.look
         /\ UNCHANGED <<RunFields, saved, row, chunks, wrap, sealed>>
<1>1. /\ pc = "conflict"
      /\ \/ End
         \/ /\ pc' = "recover" /\ UNCHANGED <<state, plan>>
            /\ run' = [run EXCEPT !.recoveries = @ + 1]
      /\ UNCHANGED <<RunFields, saved, row, chunks, wrap, sealed>>
  BY Zenon DEF Conflict, Goto, Outside, file, store, RunFields
<1>2. ASSUME run' = [run EXCEPT !.recoveries = @ + 1]
      PROVE  /\ RunKept /\ run'.prefix = run.prefix /\ run'.wraps = run.wraps
             /\ run'.deleting = run.deleting /\ run'.look = run.look
  BY <1>2 DEF RunKept, TypeOK, RunTypeOK
<1> QED
  BY <1>1, <1>2, Zenon

LEMMA ReplaceFacts ==
  ASSUME Replace
  PROVE  /\ pc = "replace" /\ pc' = "resave" /\ DeleteSession /\ state' = Reset(state)
         /\ UNCHANGED <<RunFields, saved, plan, run, sealed>>
BY Zenon DEF Replace, Goto, Outside, file, RunFields

LEMMA ResaveFacts ==
  ASSUME Resave
  PROVE  /\ pc = "resave" /\ pc' = "replan" /\ saved' = state
         /\ UNCHANGED <<RunFields, row, chunks, wrap, state, plan, run, sealed>>
BY Zenon DEF Resave, Goto, Outside, file, store, RunFields

LEMMA ReturnFacts ==
  ASSUME Return
  PROVE  /\ pc = "done" /\ End
         /\ UNCHANGED <<RunFields, saved, row, chunks, wrap, sealed>>
BY Zenon DEF Return, Outside, file, store, RunFields

LEMMA ReplanEnds ==
  ASSUME PublishConstants, TypeOK, Replan
  PROVE  /\ pc = "replan"
         /\ End \/ plan' # <<>>
         /\ UNCHANGED <<RunFields, saved, row, chunks, wrap, sealed>>
<1> DEFINE kept == IF Verified(state, run.size) THEN state ELSE Reset(state)
           todo == PlanChunks(kept, run.size)
<1>1. /\ pc = "replan" /\ (End \/ (plan' = todo /\ todo # <<>>))
      /\ UNCHANGED <<RunFields, saved, row, chunks, wrap, sealed>>
  BY Zenon DEF Replan, Outside, file, store, RunFields
<1> HIDE DEF todo
<1> QED
  BY <1>1

Idle == UNCHANGED <<pc, state, plan, run>>

LEMMA EditFacts ==
  ASSUME PublishConstants, TypeOK,
         Grow \/ (\E head, tail \in 0 .. MaxLength : Rewrite(head, tail))
  PROVE  /\ FileMoves(transcript, epoch, transcript', epoch')
         /\ \/ transcript' = Append(transcript, epoch) /\ epoch' = epoch
            \/ InRun => "rewritten" \in mishaps'
         /\ mishaps \subseteq mishaps'
         /\ UNCHANGED <<sharing, mark, saved, row, chunks, wrap, sealed>> /\ Idle
<1>1. CASE Grow
  BY <1>1, Zenon DEF Grow, Around, store, local, FileMoves, Idle
<1>2. CASE \E head, tail \in 0 .. MaxLength : Rewrite(head, tail)
  <2>1. PICK head \in 0 .. MaxLength, tail \in 0 .. MaxLength : Rewrite(head, tail)
    BY <1>2
  <2>2. head \in Nat /\ tail \in Nat
    BY DEF PublishConstants
  <2>3. /\ head < Len(transcript) /\ epoch' = epoch + 1
        /\ transcript' = SubSeq(transcript, 1, head) \o [i \in 1 .. tail |-> epoch + 1]
        /\ UNCHANGED <<sharing, mark, saved, row, chunks, wrap, sealed>> /\ Idle
        /\ mishaps' = mishaps \cup
             ((IF InRun THEN {"rewritten"} ELSE {})
                \cup (IF run.look.base < run.look.cursor /\ head < run.look.cursor
                        THEN {"reread"} ELSE {}))
    BY <2>1, Zenon DEF Rewrite, Around, store, local, Idle, Suffers
  <2>4. FileMoves(transcript, epoch, transcript', epoch')
    BY <2>2, <2>3, Zenon DEF FileMoves
  <2> QED
    BY <2>3, <2>4
<1> QED
  BY <1>1, <1>2

LEMMA EndEarlyFacts ==
  ASSUME EndEarly
  PROVE  /\ InRun /\ End
         /\ pc = "save" => "unsaved" \in mishaps'
         /\ pc \in {"register", "resave"} /\ row.status = "deleted" => "abandoned" \in mishaps'
         /\ mishaps \subseteq mishaps'
         /\ UNCHANGED <<transcript, epoch, sharing, mark, saved, row, chunks, wrap, sealed>>
BY DEF EndEarly, Suffers, file, store

LEMMA LoseFacts ==
  ASSUME LoseState
  PROVE  /\ saved' = Fresh /\ "lost" \in mishaps'
         /\ row.status = "deleted" => "forgotten" \in mishaps'
         /\ mishaps \subseteq mishaps'
         /\ UNCHANGED <<transcript, epoch, sharing, mark, row, chunks, wrap, sealed>> /\ Idle
BY DEF LoseState, Suffers, file, Around, store, local, Idle

LEMMA SpoilFacts ==
  ASSUME TypeOK, SpoilKey
  PROVE  /\ saved.dk \in Keys /\ saved'.dk = Unreadable /\ Same(saved', saved)
         /\ saved'.enc = saved.enc /\ saved'.gen = saved.gen
         /\ UNCHANGED <<transcript, epoch, sharing, mark, mishaps, row, chunks, wrap, sealed>>
         /\ Idle
<1>1. /\ saved.dk \in Keys /\ saved' = [saved EXCEPT !.dk = Unreadable]
      /\ UNCHANGED <<transcript, epoch, sharing, mark, mishaps, row, chunks, wrap, sealed>> /\ Idle
  BY Zenon DEF SpoilKey, file, Around, store, local, Idle
<1>2. saved \in PublishState
  BY DEF TypeOK, FileTypeOK
<1> QED
  BY <1>1, <1>2 DEF PublishState, Same

LEMMA UnpublishFacts ==
  ASSUME Unpublish
  PROVE  /\ DeleteSession /\ saved' = Fresh /\ "forgotten" \in mishaps'
         /\ InRun => "crossed" \in mishaps'
         /\ mishaps \subseteq mishaps'
         /\ UNCHANGED <<transcript, epoch, mark, sealed>> /\ Idle
BY DEF Unpublish, Suffers, Crossing, file, local, Idle

LEMMA ShareFacts ==
  ASSUME TypeOK, ShareOff \/ ShareOn
  PROVE  /\ \/ saved' = saved
            \/ /\ ~Published(saved)
               /\ saved'.start = Len(transcript) /\ saved'.offset = saved.offset
               /\ saved'.digest = saved.digest /\ saved'.prefix = saved.prefix
               /\ saved'.enc = saved.enc /\ saved'.gen = saved.gen /\ saved'.dk = saved.dk
         /\ InRun => "crossed" \in mishaps'
         /\ mishaps \subseteq mishaps'
         /\ UNCHANGED <<transcript, epoch, row, chunks, wrap, sealed>> /\ Idle
<1> DEFINE n == Len(transcript)
<1>1. /\ saved' = saved \/ (~Published(saved) /\ saved' = [saved EXCEPT !.start = n])
      /\ mishaps' = mishaps \cup Crossing
      /\ UNCHANGED <<transcript, epoch, row, chunks, wrap, sealed>> /\ Idle
  BY Zenon DEF ShareOff, ShareOn, Suffers, file, Around, store, local, Idle
<1>2. saved \in PublishState
  BY DEF TypeOK, FileTypeOK
<1>3. InRun => "crossed" \in mishaps'
  BY <1>1 DEF Crossing
<1> HIDE DEF n
<1>4. saved' = [saved EXCEPT !.start = n] =>
        /\ saved'.start = n /\ saved'.offset = saved.offset
        /\ saved'.digest = saved.digest /\ saved'.prefix = saved.prefix
        /\ saved'.enc = saved.enc /\ saved'.gen = saved.gen /\ saved'.dk = saved.dk
  BY <1>2 DEF PublishState
<1>5. mishaps \subseteq mishaps'
  BY <1>1
<1> QED
  BY <1>1, <1>3, <1>4, <1>5 DEF n

-----------------------------------------------------------------------------
(* What the publisher knows of the transcript                               *)

Doomed(s) == DoomedIn(s, transcript, epoch)

Recovering == {"conflict", "recover", "replace", "resave", "replan"}

FileStamped == \A k \in 1 .. Len(transcript) : transcript[k] <= epoch

StatesKnown == StateKnownIn(saved, transcript, epoch) /\ StateKnownIn(state, transcript, epoch)

ChunksSettled ==
    \A c \in chunks : Settled(c.body.data, c.off, transcript, epoch)

RunSettled ==
    /\ Settled(run.prefix, 0, transcript, epoch)
    /\ pc = "save" => /\ Len(run.data) = Head(plan).end - Head(plan).off
                      /\ Settled(run.data, Head(plan).off, transcript, epoch)

(* A run took the size of the file before it read anything: what it holds    *)
(* for published ends within that size, or else is not in the file any more. *)
WithinSize ==
    InRun => /\ \A c \in chunks : Fits(c.body.data, c.off, transcript) => c.end <= run.size
             /\ Published(state) /\ ~Doomed(state) => state.offset <= run.size

PlanKnown ==
    pc \in Sending =>
      /\ \A i \in 1 .. Len(plan) : /\ state.start <= plan[i].off /\ plan[i].off < plan[i].end
                                   /\ plan[i].end <= run.size
                                   /\ i < Len(plan) => plan[i + 1].off = plan[i].end
      /\ plan[1].off - state.start <= Len(state.digest)
      /\ Published(state) => plan[1].off <= state.offset

KeysKnown ==
    /\ ~saved.enc => saved.dk = NoKey
    /\ ~state.enc => state.dk = NoKey
    /\ Aead /\ pc \in Recovering => state.dk # Unreadable

BytesInv ==
    /\ FileStamped /\ StatesKnown /\ ChunkShape /\ ChunksSettled
    /\ RunSettled /\ WithinSize /\ PlanKnown /\ KeysKnown

(* What a reconciliation compares is what was in the store when it asked; and*)
(* the range it found equal lies within the size of the run.                 *)
LookBytes ==
    /\ run.look.base <= run.look.cursor
    /\ run.look.base < run.look.cursor => run.look.cursor <= run.size
    /\ run.look.at \in {"prefix", "digest"} => run.look.base < run.look.cursor
    /\ Settled(run.look.prefix, 0, transcript, epoch)
    /\ \A c \in run.look.left :
         /\ c.off < c.end /\ Len(c.body.data) = c.end - c.off
         /\ Settled(c.body.data, c.off, transcript, epoch)
         /\ Fits(c.body.data, c.off, transcript) => c.end <= run.size

LEMMA FreshKnown ==
  ASSUME NEW t, NEW e
  PROVE  StateKnownIn(Fresh, t, e) /\ ~Published(Fresh)
BY EmptySettled DEF StateKnownIn, Fresh, Published

LEMMA SameKnown ==
  ASSUME NEW s, NEW t, Same(t, s), NEW f, NEW e, StateKnownIn(s, f, e)
  PROVE  /\ StateKnownIn(t, f, e)
         /\ DoomedIn(t, f, e) <=> DoomedIn(s, f, e)
         /\ Published(t) <=> Published(s)
BY Zenon DEF Same, StateKnownIn, DoomedIn, Published

LEMMA WipedKnown ==
  ASSUME NEW s \in PublishState, NEW t, Wiped(t, s), NEW f, NEW e
  PROVE  StateKnownIn(t, f, e) /\ ~Published(t)
BY WipedUnpublished, EmptySettled DEF Wiped, StateKnownIn

(* Bytes of a state that is not doomed are in the file.                      *)
LEMMA OffsetInFile ==
  ASSUME NEW s \in PublishState, NEW t \in Seq(Nat), NEW e,
         StateKnownIn(s, t, e), Published(s), ~DoomedIn(s, t, e)
  PROVE  s.offset <= Len(t)
<1>1. s.start \in Nat /\ s.offset \in Nat /\ s.digest \in Seq(Nat) /\ s.start < s.offset
  BY StateFields DEF Published
<1>2. Len(s.digest) >= s.offset - s.start /\ ~(Len(s.digest) > s.offset - s.start)
  BY DEF StateKnownIn, DoomedIn
<1>3. Len(s.digest) = s.offset - s.start /\ s.start + Len(s.digest) = s.offset
  BY <1>2, DigestLength
<1>4. Fits(s.digest, s.start, t)
  BY <1>3 DEF StateKnownIn, Settled, DoomedIn
<1> DEFINE k == Len(s.digest)
<1>5. k \in Nat /\ k \in 1 .. k
  BY <1>1, <1>3
<1>6. s.start + k <= Len(t)
  BY <1>4, <1>5 DEF Fits
<1> QED
  BY <1>3, <1>6

(* What is adopted from the store is known, and within the size of the run.  *)
LEMMA AdoptedKnown ==
  ASSUME PublishConstants, TypeInv, BytesInv, LookBytes, run.look.at = "digest",
         Len(transcript) >= run.look.cursor, NEW t, t = Adopt(state)
  PROVE  /\ t \in PublishState /\ StateKnownIn(t, transcript, epoch)
         /\ Published(t) /\ t.offset <= run.size /\ t.offset <= Len(transcript)
         /\ t.start = run.look.base /\ t.offset = run.look.cursor
         /\ t.digest = Range(transcript, t.start, t.offset)
         /\ Len(t.digest) = t.offset - t.start
         /\ t.enc = (state.enc \/ run.look.enc)
         /\ run.look.enc => /\ Aead /\ row.enc /\ t.gen = row.gen /\ t.dk \in Keys
         /\ ~run.look.enc => t.gen = state.gen /\ t.dk = state.dk
<1>1. /\ state \in PublishState /\ transcript \in Seq(Nat) /\ epoch \in Nat
      /\ run.look.prefix \in Seq(Nat) /\ TypeOK /\ run.look.enc \in BOOLEAN
  BY DEF TypeInv, TypeOK, FileTypeOK, RunTypeOK, Looks
<1>2. /\ t \in PublishState
      /\ t.start = run.look.base /\ t.offset = run.look.cursor
      /\ t.digest = Range(transcript, run.look.base, run.look.cursor)
      /\ t.prefix = run.look.prefix
      /\ t.enc = (state.enc \/ run.look.enc)
      /\ t.gen = (IF run.look.enc THEN run.look.gen ELSE state.gen)
      /\ t.dk = (IF run.look.enc THEN run.look.dk ELSE state.dk)
  BY <1>1, AdoptType
<1>3. /\ t.start \in Nat /\ t.offset \in Nat /\ t.start < t.offset /\ t.offset <= run.size
  BY <1>2, StateFields DEF LookBytes
<1>4. /\ Settled(t.digest, t.start, transcript, epoch)
      /\ Len(t.digest) = t.offset - t.start
  <2>1. Settled(t.digest, t.start, transcript, epoch)
    BY <1>1, <1>2, <1>3, RangeSettled DEF BytesInv, FileStamped
  <2>2. Least(t.offset, Len(transcript)) = t.offset
    BY <1>1, <1>2, <1>3 DEF Least
  <2>3. t.start <= Least(t.offset, Len(transcript)) =>
          Len(Range(transcript, t.start, t.offset)) = Least(t.offset, Len(transcript)) - t.start
    <3>1. \A from, to \in Nat :
            from <= Least(to, Len(transcript)) =>
              Len(Range(transcript, from, to)) = Least(to, Len(transcript)) - from
      <4> SUFFICES ASSUME NEW from \in Nat, NEW to \in Nat
                   PROVE  from <= Least(to, Len(transcript)) =>
                            Len(Range(transcript, from, to)) = Least(to, Len(transcript)) - from
        OBVIOUS
      <4>1. transcript \in Seq(Nat)
        BY <1>1
      <4> QED
        BY <4>1, RangeElements
    <3> QED
      BY <1>3, <3>1, Zenon
  <2> DEFINE r == Range(transcript, t.start, t.offset)
  <2>4. t.digest = r /\ t.start <= t.offset
    BY <1>2, <1>3
  <2> HIDE DEF r
  <2> QED
    BY <1>3, <2>1, <2>2, <2>3, <2>4 DEF r
<1>5. StateKnownIn(t, transcript, epoch) /\ Published(t)
  <2> DEFINE d == t.offset - t.start
             l == Len(t.digest)
  <2>1. d \in Int /\ l = d
    BY <1>3, <1>4
  <2>2. l >= d
    <3> HIDE DEF d, l
    <3> QED
      BY <2>1
  <2> QED
    BY <1>2, <1>3, <1>4, <2>2 DEF StateKnownIn, Published, LookBytes
<1>6. /\ run.look.enc => /\ Aead /\ row.enc /\ t.gen = row.gen /\ t.dk \in Keys
      /\ ~run.look.enc => t.gen = state.gen /\ t.dk = state.dk
  <2>1. run.look.enc => Aead /\ row.enc /\ run.look.gen = row.gen /\ run.look.dk \in Keys
    BY DEF TypeInv, LookInv
  <2> QED
    BY <1>1, <1>2, <2>1, Zenon
<1> QED
  BY <1>2, <1>3, <1>4, <1>5, <1>6

LEMMA EndBytes ==
  ASSUME BytesInv, End, UNCHANGED <<transcript, epoch, saved>>, chunks' \subseteq chunks
  PROVE  BytesInv'
<1>1. /\ pc' = "idle" /\ state' = Fresh /\ run'.prefix = <<>> /\ run'.mode = "none"
      /\ UNCHANGED <<transcript, epoch, saved>> /\ chunks' \subseteq chunks
  BY DEF End, NoRun
<1>2. StateKnownIn(Fresh, transcript, epoch) /\ Settled(<<>>, 0, transcript, epoch)
  BY FreshKnown, EmptySettled
<1>3. FileStamped' /\ StatesKnown' /\ ChunkShape' /\ ChunksSettled'
  BY <1>1, <1>2, Zenon DEF BytesInv, FileStamped, StatesKnown, ChunkShape, ChunksSettled
<1>4. RunSettled' /\ WithinSize' /\ PlanKnown'
  BY <1>1, <1>2 DEF RunSettled, WithinSize, PlanKnown, InRun, Sending
<1>5. KeysKnown'
  BY <1>1 DEF BytesInv, KeysKnown, Aead, Fresh
<1> QED
  BY <1>3, <1>4, <1>5 DEF BytesInv

(* A step of a run that leaves the file alone, and nothing new in the store: *)
(* the parts of the invariant about those two.                               *)
LEMMA StillSettled ==
  ASSUME BytesInv, UNCHANGED <<transcript, epoch>>, chunks' \subseteq chunks
  PROVE  FileStamped' /\ ChunkShape' /\ ChunksSettled'
BY Zenon DEF BytesInv, FileStamped, ChunkShape, ChunksSettled

LEMMA StampStays ==
  ASSUME NEW t \in Seq(Nat), NEW e \in Nat, NEW u, NEW f, FileMoves(t, e, u, f),
         \A k \in 1 .. Len(t) : t[k] <= e
  PROVE  \A k \in 1 .. Len(u) : u[k] <= f
<1>1. /\ u \in Seq(Nat) /\ f \in Nat /\ e <= f
      /\ \A n \in 1 .. Len(u) : n <= Len(t) => u[n] = t[n] \/ (u[n] = f /\ e < f)
      /\ \A n \in 1 .. Len(u) : n > Len(t) => u[n] = f \/ u[n] = e
  BY FileFacts
<1> TAKE n \in 1 .. Len(u)
<1>2. Len(t) \in Nat /\ n \in Nat /\ n >= 1 /\ u[n] \in Nat
  BY <1>1
<1>3. CASE n <= Len(t)
  <2>1. n \in 1 .. Len(t)
    BY <1>2, <1>3
  <2>2. t[n] <= e /\ t[n] \in Nat
    BY <2>1
  <2>3. u[n] = t[n] \/ u[n] = f
    BY <1>1, <1>3
  <2> QED
    BY <1>1, <1>2, <2>2, <2>3
<1>4. CASE ~(n <= Len(t))
  <2>1. u[n] = f \/ u[n] = e
    BY <1>1, <1>2, <1>4
  <2> QED
    BY <1>1, <2>1
<1> QED
  BY <1>3, <1>4

LEMMA HeadPiece ==
  ASSUME NEW p \in Seq(PieceType), p # <<>>
  PROVE  /\ 1 \in 1 .. Len(p) /\ Head(p) = p[1]
         /\ Head(p) \in PieceType
         /\ Head(p).off \in Nat /\ Head(p).end \in Nat
<1>1. 1 \in 1 .. Len(p) /\ Head(p) = p[1] /\ Head(p) \in PieceType
  OBVIOUS
<1> QED
  BY <1>1 DEF PieceType

LEMMA TailPieces ==
  ASSUME NEW p \in Seq(PieceType), p # <<>>
  PROVE  /\ \A i \in 1 .. Len(Tail(p)) :
              /\ i \in 1 .. Len(p) /\ i + 1 \in 1 .. Len(p) /\ Tail(p)[i] = p[i + 1]
              /\ i < Len(Tail(p)) => i + 1 < Len(p) /\ Tail(p)[i + 1] = p[i + 1 + 1]
         /\ Len(p) # 1 => 1 \in 1 .. Len(Tail(p)) /\ 1 < Len(p)
<1> DEFINE n == Len(p)
           m == Len(Tail(p))
<1>1. n \in Nat /\ m \in Nat /\ n >= 1 /\ m = n - 1
  OBVIOUS
<1>2. \A i \in 1 .. m : Tail(p)[i] = p[i + 1]
  OBVIOUS
<1> HIDE DEF n, m
<1>3. \A i \in 1 .. m : i \in 1 .. n /\ i + 1 \in 1 .. n /\ (i < m => i + 1 < n /\ i + 1 \in 1 .. m)
  BY <1>1
<1>4. n # 1 => 1 \in 1 .. m /\ 1 < n
  BY <1>1
<1> QED
  BY <1>2, <1>3, <1>4 DEF n, m

LEMMA FileMovesBytes ==
  ASSUME PublishConstants, TypeOK, PlanInv, BytesInv, FileMoves(transcript, epoch, transcript', epoch'),
         UNCHANGED <<saved, chunks>>, Idle
  PROVE  BytesInv' /\ (Doomed(saved) => Doomed(saved)') /\ (Doomed(state) => Doomed(state)')
<1> USE DEF Idle
<1>1. /\ transcript \in Seq(Nat) /\ epoch \in Nat /\ saved \in PublishState
      /\ state \in PublishState /\ chunks \subseteq Chunk /\ run.prefix \in Seq(Nat)
      /\ run.data \in Seq(Nat) /\ plan \in Seq(PieceType)
  BY DEF TypeOK, FileTypeOK, StoreTypeOK, RunTypeOK, Chunk, PieceType
<1>2. transcript' \in Seq(Nat) /\ epoch' \in Nat
  BY <1>1, FileFacts
<1>3. FileStamped'
  BY <1>1, StampStays DEF BytesInv, FileStamped
<1>4. /\ StateKnownIn(saved, transcript', epoch') /\ StateKnownIn(state, transcript', epoch')
      /\ DoomedIn(saved, transcript, epoch) => DoomedIn(saved, transcript', epoch')
      /\ DoomedIn(state, transcript, epoch) => DoomedIn(state, transcript', epoch')
  BY <1>1, StateStays DEF BytesInv, StatesKnown
<1>5. ASSUME NEW c \in chunks
      PROVE  /\ Settled(c.body.data, c.off, transcript', epoch')
             /\ Fits(c.body.data, c.off, transcript') => Fits(c.body.data, c.off, transcript)
  <2>1. c.body.data \in Seq(Nat) /\ c.off \in Nat
    BY <1>1 DEF Chunk, Body
  <2>2. Settled(c.body.data, c.off, transcript, epoch)
    BY DEF BytesInv, ChunksSettled
  <2> QED
    BY <1>1, <2>1, <2>2, SettledStays
<1>6. ChunkShape' /\ ChunksSettled'
  BY <1>5 DEF BytesInv, ChunkShape, ChunksSettled
<1>7. RunSettled'
  <2>1. Settled(run.prefix, 0, transcript', epoch')
    BY <1>1, SettledStays DEF BytesInv, RunSettled
  <2>2. ASSUME pc = "save"
        PROVE  Settled(run.data, Head(plan).off, transcript', epoch')
    <3>1. Head(plan).off \in Nat
      <4>1. plan # <<>>
        BY <2>2 DEF PlanInv, Sending
      <4> QED
        BY <1>1, <4>1, HeadPiece
    <3> QED
      BY <1>1, <2>2, <3>1, SettledStays DEF BytesInv, RunSettled
  <2> QED
    BY <2>1, <2>2, Zenon DEF BytesInv, RunSettled
<1>8. WithinSize'
  BY <1>4, <1>5 DEF BytesInv, WithinSize, InRun, Doomed
<1>9. PlanKnown' /\ KeysKnown'
  BY DEF BytesInv, PlanKnown, KeysKnown, Aead, Published
<1> QED
  BY <1>3, <1>4, <1>6, <1>7, <1>8, <1>9 DEF BytesInv, StatesKnown, Doomed

LEMMA RunBytes ==
  ASSUME PublishConstants, TypeInv, BytesInv, LookBytes,
         (\E mode \in Modes : Begin(mode)) \/ RunStep
  PROVE  BytesInv'
<1>1. /\ transcript \in Seq(Nat) /\ epoch \in Nat /\ saved \in PublishState
      /\ state \in PublishState /\ chunks \subseteq Chunk /\ run.size \in Nat
      /\ row.gen \in Nat /\ run.prefix \in Seq(Nat) /\ run.data \in Seq(Nat)
      /\ plan \in Seq(PieceType) /\ TypeOK
  BY DEF TypeInv, TypeOK, FileTypeOK, StoreTypeOK, RunTypeOK, Chunk, PieceType
<1>2. /\ FileStamped /\ StatesKnown /\ ChunkShape /\ ChunksSettled
      /\ RunSettled /\ WithinSize /\ PlanKnown /\ KeysKnown
  BY DEF BytesInv
<1>3. StateKnownIn(saved, transcript, epoch) /\ StateKnownIn(state, transcript, epoch)
  BY <1>2 DEF StatesKnown
<1>4. ASSUME End, UNCHANGED <<transcript, epoch, saved, chunks>>
      PROVE  BytesInv'
  BY <1>4, EndBytes
<1>5. CASE \E mode \in Modes : Begin(mode)
  <2>1. PICK mode \in Modes : Begin(mode)
    BY <1>5
  <2>2. /\ pc' \in {"verify", "reconcile"} /\ state' = saved
        /\ run'.size = Len(transcript) /\ run'.prefix = <<>> /\ run'.mode = mode
        /\ UNCHANGED <<transcript, epoch, saved, chunks>>
    BY <2>1, BeginFacts DEF RunFields
  <2>3. FileStamped' /\ ChunkShape' /\ ChunksSettled'
    BY <2>2, StillSettled
  <2>4. StatesKnown'
    BY <1>3, <2>2, Zenon DEF StatesKnown
  <2>5. RunSettled'
    BY <2>2, EmptySettled DEF RunSettled
  <2>6. ASSUME NEW c \in chunks, Fits(c.body.data, c.off, transcript)
        PROVE  c.end <= Len(transcript)
    <3> DEFINE k == Len(c.body.data)
    <3>1. /\ c.off \in Nat /\ c.end \in Nat /\ c.off < c.end /\ k = c.end - c.off
      BY <1>1, <1>2 DEF Chunk, ChunkShape
    <3>2. k \in 1 .. k
      BY <3>1
    <3>3. c.off + k <= Len(transcript)
      BY <2>6, <3>2 DEF Fits
    <3> HIDE DEF k
    <3> QED
      BY <3>1, <3>3
  <2>7. Published(saved) /\ ~DoomedIn(saved, transcript, epoch) => saved.offset <= Len(transcript)
    BY <1>1, <1>3, OffsetInFile
  <2>8. WithinSize'
    BY <2>2, <2>6, <2>7 DEF WithinSize, Doomed
  <2>9. PlanKnown' /\ KeysKnown'
    BY <1>2, <2>2 DEF PlanKnown, KeysKnown, Sending, Recovering
  <2> QED
    BY <2>3, <2>4, <2>5, <2>8, <2>9 DEF BytesInv
<1>6. ASSUME InRun, \/ state' = state
                     \/ /\ state' = Adopt(state) /\ run.look.at = "digest"
                        /\ Len(transcript) >= run.look.cursor
      PROVE  /\ StateKnownIn(state', transcript, epoch)
             /\ Published(state') /\ ~DoomedIn(state', transcript, epoch)
                  => state'.offset <= run.size
             /\ ~state'.enc => state'.dk = NoKey
             /\ state.dk # Unreadable => state'.dk # Unreadable
  <2>1. CASE state' = state
    BY <1>2, <1>3, <1>6, <2>1 DEF WithinSize, KeysKnown, Doomed
  <2>2. CASE state' # state
    <3>1. Unreadable \notin Keys /\ run.look.enc \in BOOLEAN
      BY <1>1 DEF PublishConstants, Unreadable, TypeOK, RunTypeOK, Looks
    <3> QED
      BY <1>1, <1>2, <1>6, <2>2, <3>1, AdoptedKnown DEF KeysKnown
  <2> QED
    BY <2>1, <2>2
<1>7. CASE Reconcile
  <2>1. /\ pc \in {"reconcile", "recover"} /\ UNCHANGED <<transcript, epoch, saved, chunks>>
        /\ \/ End
           \/ UNCHANGED <<pc, state, plan>> /\ OnlyLooks
           \/ Concludes(state)
           \/ /\ Concludes(Adopt(state)) /\ run.look.at = "digest"
              /\ Len(transcript) >= run.look.cursor
    BY <1>1, <1>7, ReconcileFacts DEF Reading
  <2>2. CASE End
    BY <1>4, <2>1, <2>2
  <2>3. CASE ~End
    <3>1. /\ UNCHANGED plan /\ RunKept /\ run'.prefix = run.prefix
          /\ pc' \in {"reconcile", "recover", "verify", "replace", "resave"}
          /\ pc' \in Recovering => pc \in Recovering
          /\ \/ state' = state
             \/ /\ state' = Adopt(state) /\ run.look.at = "digest"
                /\ Len(transcript) >= run.look.cursor
      BY <2>1, <2>3 DEF Concludes, OnlyLooks, RunKept, Recovering
    <3>2. InRun
      BY <2>1 DEF InRun
    <3>3. FileStamped' /\ ChunkShape' /\ ChunksSettled'
      BY <2>1, StillSettled
    <3>4. StatesKnown'
      BY <1>3, <1>6, <2>1, <3>1, <3>2, Zenon DEF StatesKnown
    <3>5. RunSettled' /\ PlanKnown'
      BY <1>2, <2>1, <3>1 DEF RunSettled, PlanKnown, Sending
    <3>6. WithinSize'
      BY <1>2, <1>6, <2>1, <3>1, <3>2 DEF WithinSize, Doomed, RunKept
    <3>7. KeysKnown'
      BY <1>2, <1>6, <2>1, <3>1, <3>2 DEF KeysKnown, Aead, RunKept
    <3> QED
      BY <3>3, <3>4, <3>5, <3>6, <3>7 DEF BytesInv
  <2> QED
    BY <2>2, <2>3
<1>8. ASSUME NEW t, Same(t, state) \/ Wiped(t, state)
      PROVE  /\ StateKnownIn(t, transcript, epoch)
             /\ Published(t) /\ ~DoomedIn(t, transcript, epoch) =>
                  Published(state) /\ ~Doomed(state) /\ t.offset = state.offset
  BY <1>1, <1>3, <1>8, SameKnown, WipedKnown DEF Same, Doomed
<1>9. CASE Verify
  <2>1. /\ pc = "verify" /\ pc' = "plan"
        /\ UNCHANGED <<transcript, epoch, saved, chunks, plan>>
        /\ Same(state', state) \/ Wiped(state', state)
        /\ ~Aead => state'.enc = state.enc /\ (~state.enc => state'.dk = state.dk)
        /\ Aead => state'.enc
        /\ run' = [run EXCEPT !.deleting = run'.deleting, !.wraps = run'.wraps]
    BY <1>1, <1>9, VerifyFacts DEF RunFields
  <2>2. RunKept /\ run'.prefix = run.prefix
    BY <1>1, <2>1 DEF RunKept, TypeOK, RunTypeOK
  <2>3. InRun
    BY <2>1 DEF InRun
  <2>4. FileStamped' /\ ChunkShape' /\ ChunksSettled'
    BY <2>1, StillSettled
  <2>5. StatesKnown'
    BY <1>3, <1>8, <2>1, Zenon DEF StatesKnown
  <2>6. RunSettled' /\ PlanKnown'
    BY <1>2, <2>1, <2>2 DEF RunSettled, PlanKnown, Sending
  <2>7. WithinSize'
    BY <1>2, <1>8, <2>1, <2>2, <2>3 DEF WithinSize, Doomed, RunKept
  <2>8. KeysKnown'
    BY <1>2, <2>1, <2>2 DEF KeysKnown, Recovering, RunKept
  <2> QED
    BY <2>4, <2>5, <2>6, <2>7, <2>8 DEF BytesInv
<1>10. ASSUME NEW p \in Seq(PieceType), p # <<>>, InRun,
              \A i \in 1 .. Len(p) : p[i].end <= run.size,
              \A i \in 1 .. Len(p) : i < Len(p) => p[i + 1].off = p[i].end,
              \A i \in 1 .. Len(p) : state.start <= p[i].off /\ p[i].off < p[i].end,
              NEW t \in PublishState, NEW v \in BOOLEAN,
              v => Same(t, state), ~v => t.start = state.start /\ (Same(t, state) \/ Wiped(t, state)),
              p[1].off = IF v THEN PlanStart(state) ELSE state.start
       PROVE  /\ \A i \in 1 .. Len(p) : /\ t.start <= p[i].off /\ p[i].off < p[i].end
                                        /\ p[i].end <= run.size
                                        /\ i < Len(p) => p[i + 1].off = p[i].end
              /\ p[1].off - t.start <= Len(t.digest)
              /\ Published(t) => p[1].off <= t.offset
  <2>1. /\ state.start \in Nat /\ state.offset \in Nat /\ Len(state.digest) \in Nat
        /\ t.start = state.start /\ t.offset \in Nat /\ Len(t.digest) \in Nat
    BY <1>1, <1>10, StateFields DEF Same
  <2>2. ~Published(state) => state.offset = 0
    BY <1>3 DEF StateKnownIn
  <2>3. Published(state) => Len(state.digest) >= state.offset - state.start
    BY <1>3 DEF StateKnownIn
  <2> DEFINE l == Len(state.digest)
             m == Len(t.digest)
  <2>4. CASE v
    <3>1. t.offset = state.offset /\ m = l /\ p[1].off = PlanStart(state)
      BY <1>10, <2>4 DEF Same
    <3>2. p[1].off = IF Published(state) THEN state.offset ELSE state.start
      BY <2>1, <2>2, <3>1 DEF PlanStart, Most, Published
    <3>3. p[1].off - t.start <= m
      <4> HIDE DEF l, m
      <4> QED
        BY <2>1, <2>3, <3>1, <3>2 DEF l, m
    <3>4. Published(t) => p[1].off <= t.offset
      BY <2>1, <3>1, <3>2 DEF Published
    <3> QED
      BY <1>10, <2>1, <3>3, <3>4
  <2>5. CASE ~v
    <3>1. p[1].off = t.start
      BY <1>10, <2>1, <2>5
    <3>2. Published(t) => p[1].off <= t.offset
      BY <2>1, <3>1 DEF Published
    <3>3. p[1].off - t.start <= m
      <4>1. m \in Nat
        BY <2>1
      <4> HIDE DEF m
      <4> QED
        BY <2>1, <3>1, <4>1
    <3> QED
      BY <1>10, <2>1, <3>2, <3>3
  <2> QED
    BY <2>4, <2>5
<1>11. CASE Plan
  <2>1. CASE End
    BY <1>4, <1>11, <2>1, PlanStepFacts DEF RunFields
  <2>2. CASE ~End
    <3> DEFINE p == PlanChunks(state, run.size)
    <3>1. /\ pc = "plan" /\ pc' \in {"delete", "register"} /\ plan' = p /\ p # <<>>
          /\ UNCHANGED <<transcript, epoch, saved, chunks, state, run>>
      BY <1>11, <2>2, PlanStepFacts DEF RunFields
    <3>2. InRun
      BY <3>1 DEF InRun
    <3>3. /\ p \in Seq(PieceType)
          /\ \A i \in 1 .. Len(p) : state.start <= p[i].off /\ p[i].off < p[i].end
      BY <1>1, PlanFacts
    <3>4. /\ \A i \in 1 .. Len(p) : p[i].end <= run.size
          /\ \A i \in 1 .. Len(p) : i < Len(p) => p[i + 1].off = p[i].end
          /\ p[1].off = IF Verified(state, run.size) THEN PlanStart(state) ELSE state.start
      BY <1>1, <3>1, PlanPieces
    <3> HIDE DEF p
    <3>5. Same(state, state)
      BY DEF Same
    <3>6. Verified(state, run.size) \in BOOLEAN
      BY DEF Verified
    <3>7. /\ \A i \in 1 .. Len(p) : /\ state.start <= p[i].off /\ p[i].off < p[i].end
                                    /\ p[i].end <= run.size
                                    /\ i < Len(p) => p[i + 1].off = p[i].end
          /\ p[1].off - state.start <= Len(state.digest)
          /\ Published(state) => p[1].off <= state.offset
      BY <1>1, <1>10, <3>1, <3>2, <3>3, <3>4, <3>5, <3>6
    <3>8. PlanKnown'
      BY <3>1, <3>7 DEF PlanKnown, Published
    <3>9. FileStamped' /\ ChunkShape' /\ ChunksSettled'
      BY <3>1, StillSettled
    <3>10. StatesKnown' /\ RunSettled' /\ WithinSize' /\ KeysKnown'
      BY <1>2, <3>1, <3>2
         DEF StatesKnown, RunSettled, WithinSize, Doomed, KeysKnown, Recovering, Aead
    <3> QED
      BY <3>8, <3>9, <3>10 DEF BytesInv
  <2> QED
    BY <2>1, <2>2
<1>12. CASE Delete
  <2>1. /\ pc = "delete" /\ pc' = "register" /\ chunks' = {}
        /\ UNCHANGED <<transcript, epoch, saved, state, plan, run>>
    BY <1>1, <1>12, DeleteFacts, DeletedFacts DEF RunFields
  <2>2. FileStamped' /\ ChunkShape' /\ ChunksSettled'
    BY <2>1, StillSettled
  <2>3. StatesKnown' /\ RunSettled' /\ WithinSize' /\ PlanKnown' /\ KeysKnown'
    BY <1>2, <2>1 DEF StatesKnown, RunSettled, WithinSize, Doomed, PlanKnown, KeysKnown,
                      Recovering, Aead, InRun, Sending, Published
  <2> QED
    BY <2>2, <2>3 DEF BytesInv
<1>13. ASSUME EnterLoop, pc \in {"register", "wrap"},
              UNCHANGED <<transcript, epoch, saved, chunks>>
       PROVE  BytesInv'
  <2>1. /\ pc' = "send" /\ RunKept /\ UNCHANGED <<state, plan>>
        /\ run'.prefix = IF run.recoveries = 0
                           THEN Range(transcript, 0, Least(run.size, PrefixBytes))
                           ELSE run.prefix
    BY <1>1, <1>13, EnterFacts
  <2>2. Least(run.size, PrefixBytes) \in Nat
    BY <1>1 DEF Least, PublishConstants
  <2>3. Settled(Range(transcript, 0, Least(run.size, PrefixBytes)), 0, transcript, epoch)
    BY <1>1, <1>2, <2>2, RangeSettled DEF FileStamped
  <2>4. Settled(run'.prefix, 0, transcript, epoch)
    BY <1>2, <2>1, <2>3 DEF RunSettled
  <2>5. RunSettled'
    BY <1>13, <2>1, <2>4 DEF RunSettled
  <2>6. FileStamped' /\ ChunkShape' /\ ChunksSettled'
    BY <1>13, StillSettled
  <2>7. StatesKnown' /\ WithinSize' /\ PlanKnown' /\ KeysKnown'
    BY <1>2, <1>13, <2>1 DEF StatesKnown, WithinSize, Doomed, PlanKnown, KeysKnown,
                      Recovering, InRun, Sending, Published, RunKept
  <2> QED
    BY <2>5, <2>6, <2>7 DEF BytesInv
<1>14. CASE Register
  <2>1. /\ pc = "register" /\ UNCHANGED <<transcript, epoch, saved, chunks>>
        /\ End \/ EnterLoop \/ (pc' = "wrap" /\ UNCHANGED <<state, plan, run>>)
    BY <1>14, RegisterFacts DEF RunFields
  <2>2. CASE pc' = "wrap" /\ UNCHANGED <<state, plan, run>>
    <3>1. FileStamped' /\ ChunkShape' /\ ChunksSettled'
      BY <2>1, StillSettled
    <3>2. StatesKnown' /\ RunSettled' /\ WithinSize' /\ PlanKnown' /\ KeysKnown'
      BY <1>2, <2>1, <2>2 DEF StatesKnown, RunSettled, WithinSize, Doomed, PlanKnown, KeysKnown,
                      Recovering, Aead, InRun, Sending, Published
    <3> QED
      BY <3>1, <3>2 DEF BytesInv
  <2> QED
    BY <1>4, <1>13, <2>1, <2>2
<1>15. CASE PutWraps
  BY <1>4, <1>13, <1>15, WrapFacts DEF RunFields
<1>16. CASE Send
  <2> DEFINE c == Head(plan)
             d == ReadNow
             chunk == [off |-> c.off, end |-> c.end, body |-> BodyOf(d)]
  <2>1. pc = "send" /\ UNCHANGED <<transcript, epoch, saved>>
    BY <1>1, <1>16, SendFacts DEF RunFields
  <2>2. CASE End /\ chunks' = chunks
    BY <1>4, <2>1, <2>2
  <2>3. CASE chunks' = chunks /\ pc' = "conflict" /\ UNCHANGED <<state, plan, run>>
    <3>1. FileStamped' /\ ChunkShape' /\ ChunksSettled'
      BY <2>1, <2>3, StillSettled
    <3>2. StatesKnown' /\ RunSettled' /\ WithinSize' /\ PlanKnown'
      BY <1>2, <2>1, <2>3 DEF StatesKnown, RunSettled, WithinSize, Doomed, PlanKnown, InRun, Sending
    <3>3. KeysKnown'
      <4>1. Aead => state.dk \in Keys
        BY <2>1 DEF TypeInv, KeyInv, Sending
      <4>2. Unreadable \notin Keys
        BY DEF PublishConstants, Unreadable
      <4> QED
        BY <1>2, <2>1, <2>3, <4>1, <4>2 DEF KeysKnown, Aead
    <3> QED
      BY <3>1, <3>2, <3>3 DEF BytesInv
  <2>4. CASE pc' = "save"
    <3>1. /\ Len(d) = c.end - c.off
          /\ chunks' = chunks \cup {chunk} \/ chunks' = chunks
          /\ pc' = "save" /\ RunKept /\ run'.data = d /\ run'.prefix = run.prefix
          /\ UNCHANGED <<state, plan>>
      BY <1>1, <1>16, <2>4, SendFacts DEF End
    <3>2. plan # <<>>
      BY <2>1 DEF TypeInv, PlanInv, Sending
    <3>3. /\ c = plan[1] /\ c.off \in Nat /\ c.end \in Nat
          /\ c.off < c.end /\ c.end <= run.size
      BY <1>1, <1>2, <2>1, <3>2, HeadPiece DEF PlanKnown, Sending
    <3>4. d \in Seq(Nat) /\ Settled(d, c.off, transcript, epoch)
      BY <1>1, <1>2, <3>3, RangeElements, RangeSettled DEF ReadNow, FileStamped
    <3>5. chunk.off = c.off /\ chunk.end = c.end /\ chunk.body.data = d
      BY BodyData
    <3> HIDE DEF chunk, c, d
    <3>6. ChunkShape'
      BY <1>2, <3>1, <3>3, <3>5 DEF ChunkShape
    <3>7. ChunksSettled'
      BY <1>2, <2>1, <3>1, <3>4, <3>5 DEF ChunksSettled
    <3>8. FileStamped' /\ StatesKnown' /\ PlanKnown'
      BY <1>2, <2>1, <3>1 DEF FileStamped, StatesKnown, PlanKnown, Sending, Published, RunKept
    <3>9. RunSettled'
      BY <1>2, <2>1, <3>1, <3>4 DEF RunSettled, c
    <3>10. WithinSize'
      BY <1>2, <2>1, <3>1, <3>3, <3>5 DEF WithinSize, Doomed, InRun, RunKept
    <3>11. KeysKnown'
      BY <1>2, <2>1, <3>1 DEF KeysKnown, Recovering
    <3> QED
      BY <3>6, <3>7, <3>8, <3>9, <3>10, <3>11 DEF BytesInv
  <2>5. \/ End /\ chunks' = chunks
        \/ chunks' = chunks /\ pc' = "conflict" /\ UNCHANGED <<state, plan, run>>
        \/ pc' = "save"
    BY <1>1, <1>16, SendFacts
  <2> QED
    BY <2>2, <2>3, <2>4, <2>5
<1>17. CASE Save
  <2> DEFINE c == Head(plan)
  <2>1. /\ pc = "save" /\ pc' = IF Len(plan) = 1 THEN "done" ELSE "send"
        /\ saved' = state'
        /\ state'.start = state.start /\ state'.offset = c.end
        /\ state'.digest = state.digest \o run.data /\ state'.prefix = run.prefix
        /\ state'.enc = state.enc /\ state'.gen = state.gen /\ state'.dk = state.dk
        /\ plan' = Tail(plan) /\ RunKept /\ run'.prefix = run.prefix
        /\ UNCHANGED <<transcript, epoch, chunks>>
    BY <1>1, <1>17, SaveFacts DEF RunFields
  <2>2. plan # <<>>
    BY <2>1 DEF TypeInv, PlanInv, Sending
  <2>3. c = plan[1] /\ 1 \in 1 .. Len(plan) /\ c.off \in Nat /\ c.end \in Nat
    BY <1>1, <2>2, HeadPiece
  <2>4. /\ state.start <= c.off /\ c.off < c.end /\ c.end <= run.size
        /\ c.off - state.start <= Len(state.digest)
        /\ Published(state) => c.off <= state.offset
    BY <1>2, <2>1, <2>3 DEF PlanKnown, Sending
  <2>5. Len(run.data) = c.end - c.off /\ Settled(run.data, c.off, transcript, epoch)
    BY <1>2, <2>1 DEF RunSettled
  <2>6. \A i \in 1 .. Len(plan') :
           /\ i \in 1 .. Len(plan) /\ i + 1 \in 1 .. Len(plan) /\ plan'[i] = plan[i + 1]
           /\ i < Len(plan') => i + 1 < Len(plan) /\ plan'[i + 1] = plan[i + 1 + 1]
    BY <1>1, <2>1, <2>2, TailPieces
  <2>7. pc' = "send" => 1 \in 1 .. Len(plan') /\ 1 < Len(plan)
    BY <1>1, <2>1, <2>2, TailPieces
  <2> DEFINE x == state.digest
             y == run.data
             l == Len(x)
             m == Len(y)
             z == x \o y
             b == state.start
             o == state.offset
  <2>8. /\ x \in Seq(Nat) /\ y \in Seq(Nat) /\ l \in Nat /\ m \in Nat /\ b \in Nat /\ o \in Nat
    BY <1>1, StateFields
  <2>9. Len(z) = l + m
    BY <2>8, Sq!ConcatProperties
  <2>10. StateKnownIn(state', transcript, epoch) /\ Published(state')
    <3>1. m = c.end - c.off /\ c.off - b <= l /\ b <= c.off /\ c.off < c.end
      BY <2>4, <2>5
    <3>2. Len(z) >= c.end - b /\ c.end > b
      <4> DEFINE n == Len(z)
                 f == c.off
                 e == c.end
      <4>1. n = l + m /\ m = e - f /\ f - b <= l /\ b <= f /\ f < e
        BY <2>9, <3>1
      <4>2. l \in Nat /\ m \in Nat /\ b \in Nat /\ f \in Nat /\ e \in Nat
        BY <2>3, <2>8
      <4> HIDE DEF c, x, y, z, b, l, m, n, f, e
      <4>3. n >= e - b /\ e > b
        BY <4>1, <4>2
      <4> QED
        BY <4>3 DEF n, e
    <3>3. ASSUME Len(z) = c.end - b
          PROVE  Settled(z, b, transcript, epoch)
      <4>1. l = c.off - b /\ b + l = c.off
        <5> DEFINE n == Len(z)
                   f == c.off
                   e == c.end
        <5>1. n = e - b /\ n = l + m /\ m = e - f
          BY <2>9, <3>1, <3>3
        <5>2. l \in Nat /\ m \in Nat /\ b \in Nat /\ f \in Nat /\ e \in Nat
          BY <2>3, <2>8
        <5> HIDE DEF x, y, z, b, l, m, n, f, e
        <5>3. l = f - b /\ b + l = f
          BY <5>1, <5>2
        <5> QED
          BY <5>3 DEF f
      <4>2. Settled(x, b, transcript, epoch)
        <5>1. CASE Published(state)
          <6>1. l >= o - b /\ b < o /\ c.off <= o
            BY <1>1, <1>3, <2>4, <5>1, StateFields DEF StateKnownIn, Published
          <6>2. l = o - b
            <7> HIDE DEF c, x, y, z, b, l, m, o
            <7> QED
              BY <2>3, <2>8, <4>1, <6>1
          <6> QED
            BY <1>3, <6>2 DEF StateKnownIn
        <5>2. CASE ~Published(state)
          <6>1. x = <<>>
            BY <1>3, <5>2 DEF StateKnownIn
          <6> QED
            BY <6>1, EmptySettled
        <5> QED
          BY <5>1, <5>2
      <4>3. Settled(y, b + l, transcript, epoch)
        <5> HIDE DEF b, l, y, c
        <5> QED
          BY <2>5, <4>1 DEF y
      <4> QED
        BY <1>1, <2>8, <4>2, <4>3, ConcatSettled
    <3>4. /\ state'.offset = c.end /\ state'.start = b /\ state'.digest = z
          /\ state'.prefix = run.prefix
      BY <2>1
    <3>5. Settled(run.prefix, 0, transcript, epoch)
      BY <1>2 DEF RunSettled
    <3> HIDE DEF c, x, y, z, b, l, m, o
    <3> QED
      BY <2>3, <2>8, <3>2, <3>3, <3>4, <3>5 DEF StateKnownIn, Published
  <2>11. StatesKnown'
    BY <2>1, <2>10, Zenon DEF StatesKnown
  <2>12. RunSettled'
    BY <1>2, <2>1 DEF RunSettled
  <2>13. WithinSize'
    BY <1>2, <2>1, <2>4 DEF WithinSize, Doomed, InRun, RunKept
  <2>14. PlanKnown'
    <3>1. CASE pc' = "send"
      <4>1. plan'[1] = plan[1 + 1] /\ plan[1 + 1].off = c.end
        BY <1>2, <2>1, <2>3, <2>6, <2>7, <3>1 DEF PlanKnown, Sending
      <4>2. state'.digest = z /\ state'.start = b /\ state'.offset = c.end
        BY <2>1
      <4>3. plan'[1].off - b <= Len(z)
        <5> DEFINE n == Len(z)
                   f == c.off
                   e == c.end
        <5>1. n = l + m /\ m = e - f /\ f - b <= l
          BY <2>4, <2>5, <2>9
        <5>2. l \in Nat /\ m \in Nat /\ b \in Nat /\ f \in Nat /\ e \in Nat
          BY <2>3, <2>8
        <5>3. plan'[1].off = e
          BY <4>1
        <5> HIDE DEF c, x, y, z, b, l, m, n, f, e
        <5>4. e - b <= n
          BY <5>1, <5>2
        <5> QED
          BY <5>3, <5>4 DEF n
      <4>4. \A i \in 1 .. Len(plan') : /\ state'.start <= plan'[i].off /\ plan'[i].off < plan'[i].end
                                       /\ plan'[i].end <= run'.size
                                       /\ i < Len(plan') => plan'[i + 1].off = plan'[i].end
        <5> TAKE i \in 1 .. Len(plan')
        <5>1. i + 1 \in 1 .. Len(plan) /\ plan'[i] = plan[i + 1]
              /\ (i < Len(plan') => i + 1 < Len(plan) /\ plan'[i + 1] = plan[i + 1 + 1])
          BY <2>6
        <5>2. /\ state.start <= plan[i + 1].off /\ plan[i + 1].off < plan[i + 1].end
              /\ plan[i + 1].end <= run.size
              /\ i + 1 < Len(plan) => plan[i + 1 + 1].off = plan[i + 1].end
          BY <1>2, <2>1, <5>1 DEF PlanKnown, Sending
        <5> HIDE DEF c, x, y, z, b, l, m, o
        <5> QED
          BY <2>1, <5>1, <5>2, Zenon DEF RunKept
      <4>5. plan'[1].off <= state'.offset
        <5> HIDE DEF c
        <5> QED
          BY <2>3, <4>1, <4>2
      <4> HIDE DEF c, x, y, z, b, l, m, o
      <4> QED
        BY <4>2, <4>3, <4>4, <4>5 DEF PlanKnown
    <3>2. CASE pc' # "send"
      BY <2>1, <3>2 DEF PlanKnown, Sending
    <3> QED
      BY <3>1, <3>2
  <2>15. KeysKnown'
    BY <1>2, <2>1 DEF KeysKnown, Recovering
  <2>16. FileStamped' /\ ChunkShape' /\ ChunksSettled'
    BY <2>1, StillSettled
  <2> QED
    BY <2>11, <2>12, <2>13, <2>14, <2>15, <2>16 DEF BytesInv
<1>18. CASE Return
  BY <1>4, <1>18, ReturnFacts DEF RunFields
<1>19. CASE Conflict
  <2>1. CASE End
    BY <1>1, <1>4, <1>19, <2>1, ConflictFacts DEF RunFields
  <2>2. CASE ~End
    <3>1. /\ pc = "conflict" /\ pc' = "recover"
          /\ RunKept /\ run'.prefix = run.prefix
          /\ UNCHANGED <<transcript, epoch, saved, chunks, state, plan>>
      BY <1>1, <1>19, <2>2, ConflictFacts DEF RunFields
    <3>2. FileStamped' /\ ChunkShape' /\ ChunksSettled'
      BY <3>1, StillSettled
    <3>3. StatesKnown'
      BY <1>3, <3>1, Zenon DEF StatesKnown
    <3>4. RunSettled' /\ PlanKnown'
      BY <1>2, <3>1 DEF RunSettled, PlanKnown, Sending
    <3>5. WithinSize'
      BY <1>2, <3>1 DEF WithinSize, Doomed, RunKept, InRun
    <3>6. KeysKnown'
      BY <1>2, <3>1 DEF KeysKnown, Recovering, Aead, RunKept
    <3> QED
      BY <3>2, <3>3, <3>4, <3>5, <3>6 DEF BytesInv
  <2> QED
    BY <2>1, <2>2
<1>20. CASE Replace
  <2>1. /\ pc = "replace" /\ pc' = "resave" /\ chunks' = {} /\ state' = Reset(state)
        /\ UNCHANGED <<transcript, epoch, saved, plan, run>>
    BY <1>1, <1>20, ReplaceFacts, DeletedFacts DEF RunFields
  <2>2. /\ Wiped(state', state) /\ state'.enc = state.enc
        /\ state'.dk = IF state.enc THEN NoKey ELSE state.dk
    BY <1>1, <2>1, ResetFields
  <2>3. StateKnownIn(state', transcript, epoch) /\ ~Published(state')
    BY <1>1, <2>2, WipedKnown
  <2>4. FileStamped' /\ ChunkShape' /\ ChunksSettled'
    BY <2>1, StillSettled
  <2>5. StatesKnown' /\ RunSettled' /\ WithinSize' /\ PlanKnown'
    BY <1>2, <2>1, <2>3 DEF StatesKnown, RunSettled, WithinSize, PlanKnown, Sending, Published
  <2>6. KeysKnown'
    BY <1>2, <2>1, <2>2 DEF KeysKnown, Aead, Recovering, NoKey, Unreadable
  <2> QED
    BY <2>4, <2>5, <2>6 DEF BytesInv
<1>21. CASE Resave
  <2>1. /\ pc = "resave" /\ pc' = "replan" /\ saved' = state
        /\ UNCHANGED <<transcript, epoch, chunks, state, plan, run>>
    BY <1>21, ResaveFacts DEF RunFields
  <2>2. FileStamped' /\ ChunkShape' /\ ChunksSettled'
    BY <2>1, StillSettled
  <2>3. StatesKnown' /\ RunSettled' /\ WithinSize' /\ PlanKnown' /\ KeysKnown'
    BY <1>2, <2>1 DEF StatesKnown, RunSettled, WithinSize, Doomed, PlanKnown, KeysKnown, InRun,
                      Sending, Recovering, Aead
  <2> QED
    BY <2>2, <2>3 DEF BytesInv
<1>22. CASE Replan
  <2>1. CASE End
    BY <1>1, <1>4, <1>22, <2>1, ReplanEnds DEF RunFields
  <2>2. CASE ~End
    <3>1. plan' # <<>> /\ pc = "replan"
      BY <1>1, <1>22, <2>2, ReplanEnds
    <3>2. Aead => state.dk # Unreadable
      BY <1>2, <3>1 DEF KeysKnown, Recovering
    <3> DEFINE v == Verified(state, run.size)
    <3>3. /\ pc' = "register"
          /\ UNCHANGED <<transcript, epoch, saved, chunks>>
          /\ run' = [run EXCEPT !.wraps = run'.wraps]
          /\ state' \in PublishState
          /\ (v /\ Same(state', state)) \/ (~v /\ Wiped(state', state))
          /\ ~Aead => state'.enc = state.enc /\ (~state.enc => state'.dk = state.dk)
          /\ Aead => state'.enc
          /\ plan' \in Seq(PieceType)
          /\ \A i \in 1 .. Len(plan') :
               /\ state.start <= plan'[i].off /\ plan'[i].off < plan'[i].end
               /\ plan'[i].end <= run.size
               /\ i < Len(plan') => plan'[i + 1].off = plan'[i].end
          /\ plan'[1].off = IF v THEN PlanStart(state) ELSE state.start
      BY <1>1, <1>22, <3>1, <3>2, ReplanFacts DEF RunFields
    <3>4. v \in BOOLEAN
      BY DEF Verified
    <3> HIDE DEF v
    <3>5. RunKept /\ run'.prefix = run.prefix
      BY <1>1, <3>3 DEF RunKept, TypeOK, RunTypeOK
    <3>6. InRun
      BY <3>1 DEF InRun
    <3>7. state'.start = state.start
      BY <3>3 DEF Same, Wiped
    <3>8. /\ \A i \in 1 .. Len(plan') : /\ state'.start <= plan'[i].off /\ plan'[i].off < plan'[i].end
                                        /\ plan'[i].end <= run.size
                                        /\ i < Len(plan') => plan'[i + 1].off = plan'[i].end
          /\ plan'[1].off - state'.start <= Len(state'.digest)
          /\ Published(state') => plan'[1].off <= state'.offset
      BY <1>10, <3>1, <3>3, <3>4, <3>6, <3>7
    <3>9. PlanKnown'
      BY <3>3, <3>5, <3>8 DEF PlanKnown, RunKept, Published
    <3>10. FileStamped' /\ ChunkShape' /\ ChunksSettled'
      BY <3>3, StillSettled
    <3>11. StatesKnown'
      BY <1>3, <1>8, <3>3, Zenon DEF StatesKnown
    <3>12. RunSettled' /\ KeysKnown'
      BY <1>2, <3>3, <3>5 DEF RunSettled, KeysKnown, Recovering, RunKept
    <3>13. WithinSize'
      BY <1>2, <1>8, <3>3, <3>5, <3>6 DEF WithinSize, Doomed, RunKept
    <3> QED
      BY <3>9, <3>10, <3>11, <3>12, <3>13 DEF BytesInv
  <2> QED
    BY <2>1, <2>2
<1> QED
  BY <1>5, <1>7, <1>9, <1>11, <1>12, <1>14, <1>15, <1>16, <1>17, <1>18, <1>19, <1>20, <1>21,
     <1>22 DEF RunStep

(* The watermark of a session that published nothing moves.                  *)
LEMMA MovedMark ==
  ASSUME NEW s \in PublishState, NEW t, NEW f, NEW e, StateKnownIn(s, f, e), ~Published(s),
         t.start \in Nat, t.offset = s.offset, t.digest = s.digest, t.prefix = s.prefix
  PROVE  StateKnownIn(t, f, e) /\ ~Published(t)
<1>1. s.offset = 0 /\ s.digest = <<>>
  BY DEF StateKnownIn
<1>2. ~Published(t)
  BY <1>1 DEF Published
<1> QED
  BY <1>1, <1>2, EmptySettled DEF StateKnownIn

LEMMA EnvironmentBytes ==
  ASSUME PublishConstants, TypeInv, BytesInv, Environment
  PROVE  BytesInv'
<1>1. /\ saved \in PublishState /\ Len(transcript) \in Nat /\ TypeOK /\ PlanInv
  BY DEF TypeInv, TypeOK, FileTypeOK
<1>2. /\ FileStamped /\ StatesKnown /\ ChunkShape /\ ChunksSettled
      /\ RunSettled /\ WithinSize /\ PlanKnown /\ KeysKnown
  BY DEF BytesInv
<1>3. StateKnownIn(saved, transcript, epoch) /\ StateKnownIn(state, transcript, epoch)
  BY <1>2 DEF StatesKnown
<1>4. CASE Grow \/ (\E head, tail \in 0 .. MaxLength : Rewrite(head, tail))
  <2>1. /\ FileMoves(transcript, epoch, transcript', epoch')
        /\ UNCHANGED <<saved, chunks>> /\ Idle
    BY <1>1, <1>4, EditFacts
  <2> QED
    BY <1>1, <2>1, FileMovesBytes
<1>5. CASE EndEarly
  BY <1>5, EndEarlyFacts, EndBytes
<1>6. ASSUME UNCHANGED <<transcript, epoch>>, Idle, chunks' \subseteq chunks,
             StateKnownIn(saved', transcript, epoch), ~saved'.enc => saved'.dk = NoKey
      PROVE  BytesInv'
  <2>1. FileStamped' /\ ChunkShape' /\ ChunksSettled'
    BY <1>6, StillSettled
  <2>2. UNCHANGED <<pc, state, plan, run>>
    BY <1>6 DEF Idle
  <2>3. StatesKnown'
    BY <1>3, <1>6, <2>2, Zenon DEF StatesKnown
  <2>4. RunSettled' /\ WithinSize' /\ PlanKnown' /\ KeysKnown'
    BY <1>2, <1>6, <2>2
       DEF RunSettled, WithinSize, Doomed, PlanKnown, KeysKnown, InRun, Aead, Published
  <2> QED
    BY <2>1, <2>3, <2>4 DEF BytesInv
<1>7. StateKnownIn(Fresh, transcript, epoch) /\ Fresh.dk = NoKey
  BY FreshKnown DEF Fresh
<1>8. CASE LoseState
  BY <1>6, <1>7, <1>8, LoseFacts
<1>9. CASE SpoilKey
  <2>1. /\ saved.dk \in Keys /\ Same(saved', saved) /\ saved'.enc = saved.enc
        /\ UNCHANGED <<transcript, epoch, chunks>> /\ Idle
    BY <1>1, <1>9, SpoilFacts
  <2>2. saved.enc
    BY <1>2, <2>1 DEF KeysKnown, PublishConstants, NoKey
  <2>3. StateKnownIn(saved', transcript, epoch)
    BY <1>3, <2>1, SameKnown
  <2> QED
    BY <1>6, <2>1, <2>2, <2>3
<1>10. CASE Unpublish
  <2>1. chunks' = {}
    BY <1>1, <1>10, UnpublishFacts, DeletedFacts
  <2> QED
    BY <1>6, <1>7, <1>10, <2>1, UnpublishFacts
<1>11. CASE ShareOff \/ ShareOn
  <2>1. /\ \/ saved' = saved
           \/ /\ ~Published(saved)
              /\ saved'.start = Len(transcript) /\ saved'.offset = saved.offset
              /\ saved'.digest = saved.digest /\ saved'.prefix = saved.prefix
              /\ saved'.enc = saved.enc /\ saved'.gen = saved.gen /\ saved'.dk = saved.dk
        /\ UNCHANGED <<transcript, epoch, chunks>> /\ Idle
    BY <1>1, <1>11, ShareFacts
  <2>2. StateKnownIn(saved', transcript, epoch)
    BY <1>1, <1>3, <2>1, MovedMark
  <2>3. ~saved'.enc => saved'.dk = NoKey
    BY <1>2, <2>1 DEF KeysKnown
  <2> QED
    BY <1>6, <2>1, <2>2, <2>3
<1> QED
  BY <1>4, <1>5, <1>8, <1>9, <1>10, <1>11 DEF Environment

LEMMA InitBytes == PublishConstants /\ Init => BytesInv
<1> SUFFICES ASSUME PublishConstants, Init
             PROVE  BytesInv
  OBVIOUS
<1>1. /\ pc = "idle" /\ state = Fresh /\ run = NoRun /\ chunks = {} /\ epoch = 1
      /\ \E n \in Nat : /\ transcript = [i \in 1 .. n |-> 1]
                        /\ saved = Fresh \/ saved = [Fresh EXCEPT !.start = n]
  BY DEF Init, PublishConstants
<1>2. FileStamped
  BY <1>1 DEF FileStamped
<1>3. StateKnownIn(Fresh, transcript, epoch) /\ ~Published(Fresh) /\ Fresh \in PublishState
  BY FreshKnown, FreshType
<1>4. StateKnownIn(saved, transcript, epoch) /\ saved.dk = NoKey
  <2>1. PICK n \in Nat : saved = Fresh \/ saved = [Fresh EXCEPT !.start = n]
    BY <1>1
  <2>2. CASE saved = Fresh
    BY <1>3, <2>2 DEF Fresh
  <2>3. CASE saved = [Fresh EXCEPT !.start = n]
    <3>1. /\ saved.start = n /\ saved.offset = Fresh.offset /\ saved.digest = Fresh.digest
          /\ saved.prefix = Fresh.prefix /\ saved.dk = NoKey
      BY <2>3 DEF Fresh
    <3> QED
      BY <1>3, <3>1, MovedMark
  <2> QED
    BY <2>1, <2>2, <2>3
<1>5. RunSettled
  BY <1>1, EmptySettled DEF RunSettled, NoRun
<1> QED
  BY <1>1, <1>2, <1>3, <1>4, <1>5
     DEF BytesInv, StatesKnown, ChunkShape, ChunksSettled, WithinSize, PlanKnown, KeysKnown,
         InRun, Sending, NoRun, Aead, Fresh

LEMMA BytesUnchanged == BytesInv /\ UNCHANGED vars => BytesInv'
BY Zenon DEF vars, file, store, local, history, BytesInv, FileStamped, StatesKnown, ChunkShape,
             ChunksSettled, RunSettled, WithinSize, PlanKnown, KeysKnown, Doomed, InRun, Aead

LEMMA NoLookBytes == run'.look = NoLook => LookBytes'
BY EmptySettled DEF LookBytes, NoLook

(* Outside a reconciliation nothing is looked at.                            *)
LEMMA OthersLookAtNothing ==
  ASSUME PublishConstants, TypeOK, LookInv,
         (\E mode \in Modes : Begin(mode)) \/ RunStep, ~Reconcile
  PROVE  run'.look = NoLook
<1>1. LookInv'
  BY RunLook
<1>2. pc' \notin Reading \/ run'.look = NoLook
  <2>1. CASE \E mode \in Modes : Begin(mode)
    BY <2>1, BeginFacts
  <2>2. CASE Conflict
    BY <2>2, ConflictFacts DEF LookInv, Reading, End
  <2>3. CASE RunStep /\ ~Conflict
    <3>1. EnterLoop => pc' \notin Reading
      BY DEF EnterLoop, Goto, Reading
    <3>2. End => pc' \notin Reading
      BY DEF End, Reading
    <3> QED
      BY <2>3, <3>1, <3>2, Zenon
         DEF RunStep, Verify, Plan, Delete, Register, PutWraps, Send, Save, Return, Replace,
             Resave, Replan, Goto, Reading
  <2> QED
    BY <2>1, <2>2, <2>3
<1> QED
  BY <1>1, <1>2 DEF LookInv

LEMMA RunLookBytes ==
  ASSUME PublishConstants, TypeInv, BytesInv, LookBytes,
         (\E mode \in Modes : Begin(mode)) \/ RunStep
  PROVE  LookBytes'
<1>1. /\ transcript \in Seq(Nat) /\ epoch \in Nat /\ run.look \in Looks /\ TypeOK /\ LookInv
  BY DEF TypeInv, TypeOK, FileTypeOK, RunTypeOK
<1>2. CASE Reconcile
  <2>1. CASE End
    BY <2>1, NoLookBytes DEF End, NoRun
  <2>2. CASE Concludes(state) \/ Concludes(Adopt(state))
    BY <2>2, NoLookBytes DEF Concludes
  <2>3. CASE OnlyLooks /\ Found(run'.look)
    <3> DEFINE l == run'.look
    <3>1. /\ run'.size = run.size /\ UNCHANGED <<transcript, epoch>>
          /\ pc \in Reading /\ InRun
      BY <1>1, <1>2, <2>3, ReconcileFacts DEF OnlyLooks, InRun, Reading
    <3>2. LookBytes' <=>
            /\ l.base <= l.cursor
            /\ l.base < l.cursor => l.cursor <= run.size
            /\ l.at \in {"prefix", "digest"} => l.base < l.cursor
            /\ Settled(l.prefix, 0, transcript, epoch)
            /\ \A c \in l.left :
                 /\ c.off < c.end /\ Len(c.body.data) = c.end - c.off
                 /\ Settled(c.body.data, c.off, transcript, epoch)
                 /\ Fits(c.body.data, c.off, transcript) => c.end <= run.size
      BY <3>1, Zenon DEF LookBytes
    <3>3. /\ run.look.base \in Nat /\ run.look.cursor \in Nat
      BY <1>1 DEF Looks
    <3> HIDE DEF l
    <3>4. CASE Listed(l)
      <4>1. PICK first \in chunks : l.base = first.off /\ l.cursor = first.off
        BY <3>4 DEF Listed
      <4>2. first.off \in Nat
        BY <1>1, <4>1 DEF TypeOK, StoreTypeOK, Chunk
      <4> QED
        BY <3>1, <3>2, <3>4, <4>1, <4>2
           DEF Listed, LookBytes, BytesInv, ChunkShape, ChunksSettled, WithinSize
    <3>5. CASE Asked(l)
      BY <3>2, <3>5 DEF Asked, SameRange, LookBytes
    <3>6. CASE Compared(l)
      <4>1. CASE \E c \in run.look.left : /\ c.off = run.look.cursor /\ Matches(c)
                                        /\ l.left = run.look.left \ {c} /\ l.cursor = c.end
        <5>1. PICK c \in run.look.left : /\ c.off = run.look.cursor /\ Matches(c)
                                        /\ l.left = run.look.left \ {c} /\ l.cursor = c.end
          BY <4>1
        <5>2. c.off \in Nat /\ c.end \in Nat
          BY <1>1 DEF Looks, Chunk
        <5>3. c.body.data = Range(transcript, c.off, c.end)
          BY <5>1 DEF Matches, Seal, Plain
        <5>4. Fits(c.body.data, c.off, transcript)
          BY <1>1, <5>2, <5>3, RangeSettled DEF BytesInv, FileStamped
        <5>5. c.off < c.end /\ c.end <= run.size
          BY <5>4 DEF LookBytes
        <5>6. l.base < l.cursor /\ l.cursor <= run.size
          BY <3>3, <3>6, <5>1, <5>2, <5>5 DEF Compared, LookBytes
        <5>7. l.base <= l.cursor
          BY <3>3, <3>6, <5>1, <5>2, <5>6 DEF Compared
        <5> QED
          BY <3>2, <3>6, <5>1, <5>6, <5>7 DEF Compared, LookBytes
      <4>2. CASE /\ run.look.base < run.look.cursor
                 /\ l.left = {} /\ l.cursor = run.look.cursor
        BY <3>2, <3>6, <4>2 DEF Compared, LookBytes
      <4> QED
        BY <3>6, <4>1, <4>2 DEF Compared
    <3>7. CASE HeadRead(l)
      <4>1. Least(run.look.cursor, PrefixBytes) \in Nat
        BY <3>3 DEF Least, PublishConstants
      <4>2. Settled(l.prefix, 0, transcript, epoch)
        BY <1>1, <3>7, <4>1, RangeSettled DEF HeadRead, BytesInv, FileStamped
      <4> QED
        BY <3>2, <3>7, <4>2 DEF HeadRead, SameRange, LookBytes
    <3> QED
      BY <2>3, <3>4, <3>5, <3>6, <3>7 DEF Found, l
  <2> QED
    BY <1>1, <1>2, <2>1, <2>2, <2>3, ReconcileFacts
<1>3. CASE ~Reconcile
  BY <1>1, <1>3, OthersLookAtNothing, NoLookBytes
<1> QED
  BY <1>2, <1>3

LEMMA EnvironmentLookBytes ==
  ASSUME PublishConstants, TypeInv, BytesInv, LookBytes, Environment
  PROVE  LookBytes'
<1>1. /\ transcript \in Seq(Nat) /\ epoch \in Nat /\ run.look.prefix \in Seq(Nat)
      /\ run.look.left \subseteq Chunk /\ TypeOK
  BY DEF TypeInv, TypeOK, FileTypeOK, RunTypeOK, Looks
<1>2. CASE EndEarly
  BY <1>2, NoLookBytes DEF EndEarly, End, NoRun
<1>3. CASE Grow \/ (\E head, tail \in 0 .. MaxLength : Rewrite(head, tail))
  <2>1. FileMoves(transcript, epoch, transcript', epoch') /\ run' = run
    BY <1>1, <1>3, EditFacts DEF Idle
  <2>2. Settled(run.look.prefix, 0, transcript', epoch')
    BY <1>1, <2>1, SettledStays DEF LookBytes
  <2>3. ASSUME NEW c \in run.look.left
        PROVE  /\ Settled(c.body.data, c.off, transcript', epoch')
               /\ Fits(c.body.data, c.off, transcript') => Fits(c.body.data, c.off, transcript)
    <3>1. c.body.data \in Seq(Nat) /\ c.off \in Nat
      BY <1>1 DEF Chunk, Body
    <3> QED
      BY <1>1, <2>1, <3>1, SettledStays DEF LookBytes
  <2> QED
    BY <2>1, <2>2, <2>3 DEF LookBytes
<1>4. CASE LoseState \/ SpoilKey \/ Unpublish \/ ShareOff \/ ShareOn
  <2>1. UNCHANGED <<transcript, epoch, run>>
    BY <1>1, <1>4, LoseFacts, SpoilFacts, UnpublishFacts, ShareFacts DEF Idle
  <2> QED
    BY <2>1, Zenon DEF LookBytes
<1> QED
  BY <1>2, <1>3, <1>4 DEF Environment

ByteInv == TypeInv /\ BytesInv /\ LookBytes

LEMMA ByteInvInductive ==
  ASSUME PublishConstants
  PROVE  /\ Init => ByteInv
         /\ ByteInv /\ [Next]_vars => ByteInv'
<1>1. Init => ByteInv
  <2>1. Init => LookBytes
    BY EmptySettled DEF Init, NoRun, NoLook, LookBytes
  <2> QED
    BY <2>1, TypeInvInductive, InitBytes DEF ByteInv
<1>2. ByteInv /\ [Next]_vars => BytesInv'
  BY RunBytes, EnvironmentBytes, BytesUnchanged DEF ByteInv, Next, RunStep, Environment
<1>3. ByteInv /\ [Next]_vars => LookBytes'
  <2>1. LookBytes /\ UNCHANGED vars => LookBytes'
    BY Zenon DEF vars, file, local, LookBytes
  <2> QED
    BY <2>1, RunLookBytes, EnvironmentLookBytes DEF ByteInv, Next, RunStep, Environment
<1>4. ByteInv /\ [Next]_vars => TypeInv'
  BY TypeInvInductive DEF ByteInv
<1> QED
  BY <1>1, <1>2, <1>3, <1>4 DEF ByteInv

(* What a step of a reconciliation that does not end the run leaves behind.  *)
LEMMA ReconcileEffect ==
  ASSUME PublishConstants, ByteInv, Reconcile, ~End
  PROVE  /\ pc \in Reading /\ InRun
         /\ UNCHANGED <<transcript, epoch, sharing, mark, mishaps, troubles, saved, row, chunks,
                        wrap, sealed, plan>>
         /\ OnlyLooks /\ RunKept
         /\ \/ /\ pc' = pc /\ state' = state
               /\ run'.look \in Looks /\ Found(run'.look)
            \/ /\ run'.look = NoLook
               /\ pc' = IF pc = "reconcile" THEN "verify"
                        ELSE IF state'.offset <= state.offset THEN "replace" ELSE "resave"
         /\ \/ state' = state
            \/ /\ state' \in PublishState /\ StateKnownIn(state', transcript, epoch)
               /\ run.look.at = "digest" /\ Published(state')
               /\ state'.offset <= run.size /\ state'.offset <= Len(transcript)
               /\ state'.start = run.look.base /\ state'.offset = run.look.cursor
               /\ state'.digest = Range(transcript, state'.start, state'.offset)
               /\ Len(state'.digest) = state'.offset - state'.start
               /\ state'.enc = (state.enc \/ run.look.enc) /\ run.look.enc \in BOOLEAN
               /\ run.look.enc => /\ Aead /\ row.enc /\ state'.gen = row.gen
                                  /\ state'.dk \in Keys
               /\ ~run.look.enc => state'.gen = state.gen /\ state'.dk = state.dk
<1>1. /\ TypeInv /\ BytesInv /\ LookBytes /\ TypeOK /\ run.look.enc \in BOOLEAN
  BY DEF ByteInv, TypeInv, TypeOK, RunTypeOK, Looks
<1>2. /\ pc \in Reading
      /\ UNCHANGED <<transcript, epoch, sharing, mark, mishaps, troubles, saved, row, chunks,
                     wrap, sealed>>
      /\ \/ /\ UNCHANGED <<pc, state, plan>> /\ OnlyLooks
            /\ run'.look \in Looks /\ Found(run'.look)
         \/ Concludes(state)
         \/ /\ Concludes(Adopt(state)) /\ run.look.at = "digest"
            /\ Len(transcript) >= run.look.cursor
  BY <1>1, ReconcileFacts
<1>3. /\ pc \in Reading /\ InRun /\ UNCHANGED plan /\ OnlyLooks /\ RunKept
      /\ \/ /\ pc' = pc /\ state' = state
            /\ run'.look \in Looks /\ Found(run'.look)
         \/ /\ run'.look = NoLook
            /\ pc' = IF pc = "reconcile" THEN "verify"
                     ELSE IF state'.offset <= state.offset THEN "replace" ELSE "resave"
  BY <1>2 DEF Concludes, OnlyLooks, RunKept, InRun, Reading
<1>4. \/ state' = state
      \/ /\ state' = Adopt(state) /\ run.look.at = "digest"
         /\ Len(transcript) >= run.look.cursor
  BY <1>2 DEF Concludes
<1> QED
  BY <1>1, <1>2, <1>3, <1>4, AdoptedKnown, Zenon

(* So for the state of a run the verdict depends on the file alone, and what *)
(* is refused once is refused by every later run.                            *)
LEMMA Verdict ==
  ASSUME PublishConstants, ByteInv, InRun
  PROVE  Verified(state, run.size) <=> ~Doomed(state)
<1>1. /\ transcript \in Seq(Nat) /\ epoch \in Nat /\ state \in PublishState /\ run.size \in Nat
      /\ StateKnownIn(state, transcript, epoch) /\ WithinSize
  BY DEF ByteInv, TypeInv, TypeOK, FileTypeOK, RunTypeOK, BytesInv, StatesKnown
<1>2. Verified(state, run.size)
        <=> (Published(state) => run.size >= state.offset /\ ~Doomed(state))
  BY <1>1, VerifiedMeans DEF Doomed
<1>3. Doomed(state) => Published(state)
  BY DEF Doomed, DoomedIn
<1>4. Published(state) /\ ~Doomed(state) => run.size >= state.offset
  BY <1>1, StateFields DEF WithinSize
<1> QED
  BY <1>2, <1>3, <1>4

-----------------------------------------------------------------------------
(* The row in the store, and what everybody else says of the session        *)

Verifying == {"reconcile", "verify"}
Registering == {"plan", "delete", "register"}
Planning == {"plan"} \cup Sending

(* Once encrypted the row stays so, and the publisher's own generation never *)
(* passes it before a registration.                                          *)
RowInv ==
    /\ chunks # {} => Live
    /\ row.status = "absent" \/ ~row.enc => row.gen = 0
    /\ row.status = "absent" => ~row.enc
    /\ saved.enc => row.enc
    /\ state.enc => row.enc \/ (Aead /\ pc \in Registering)
    /\ Aead /\ pc \in {"wrap", "send", "save", "done"} \cup Recovering => row.enc
    /\ Aead /\ pc \in {"plan"} \cup Sending => state.enc
    /\ ~Aead => ~state.enc
    /\ wrap.gen <= row.gen
    /\ Aead /\ pc \in {"wrap", "send", "save"} => state.gen = row.gen
    /\ pc \in Recovering => state.gen >= row.gen
    /\ \A b \in sealed : b.gen <= row.gen /\ b.dk \in Keys
    /\ pc \in {"conflict", "recover", "replace"} => row.enc = Aead
    /\ pc = "wrap" => run.wraps
    /\ pc = "reconcile" => ~Published(state)

LEMMA EndRow ==
  ASSUME RowInv, End, UNCHANGED <<saved, row, wrap>>, chunks' \subseteq chunks,
         \A b \in sealed' : b \in sealed \/ (b.gen <= row.gen /\ b.dk \in Keys)
  PROVE  RowInv'
BY DEF RowInv, End, NoRun, Fresh, Aead, Live, Registering, Recovering, Sending

LEMMA RunRow ==
  ASSUME PublishConstants, ByteInv, RowInv,
         (\E mode \in Modes : Begin(mode)) \/ RunStep
  PROVE  RowInv'
<1>1. /\ state \in PublishState /\ saved \in PublishState /\ row.gen \in Nat
      /\ row.enc \in BOOLEAN /\ wrap.gen \in Nat /\ TypeOK /\ TypeInv /\ BytesInv
      /\ plan \in Seq(PieceType)
  BY DEF ByteInv, TypeInv, TypeOK, FileTypeOK, StoreTypeOK, RunTypeOK, PieceType
<1>2. state.gen \in Nat /\ saved.gen \in Nat /\ state.enc \in BOOLEAN
  BY <1>1, StateFields
<1>3. ASSUME End, UNCHANGED <<saved, row, chunks, wrap, sealed>>
      PROVE  RowInv'
  BY <1>3, EndRow
<1>4. CASE \E mode \in Modes : Begin(mode)
  <2>1. PICK mode \in Modes : Begin(mode)
    BY <1>4
  <2>2. /\ ~(saved.enc /\ mode = "plain") /\ state' = saved /\ run'.mode = mode
        /\ pc' = IF Published(saved) THEN "verify" ELSE "reconcile"
        /\ UNCHANGED <<saved, row, chunks, wrap, sealed>>
    BY <2>1, BeginFacts
  <2>3. mode = "plain" \/ mode = "aead"
    BY DEF PublishConstants
  <2> QED
    BY <2>2, <2>3 DEF RowInv, Aead, Live, Registering, Recovering, Sending, Published
<1>5. CASE Reconcile
  <2>1. CASE End
    BY <1>1, <1>3, <1>5, <2>1, ReconcileFacts
  <2>2. CASE ~End
    <3>1. /\ pc \in {"reconcile", "recover"} /\ UNCHANGED <<saved, row, chunks, wrap, sealed>>
          /\ run'.mode = run.mode
          /\ \/ pc' = pc /\ state' = state
             \/ pc' = IF pc = "reconcile" THEN "verify"
                      ELSE IF state'.offset <= state.offset THEN "replace" ELSE "resave"
          /\ \/ state' = state
             \/ /\ state'.enc = (state.enc \/ run.look.enc) /\ run.look.enc \in BOOLEAN
                /\ run.look.enc => Aead /\ row.enc /\ state'.gen = row.gen
                /\ ~run.look.enc => state'.gen = state.gen
      BY <1>5, <2>2, ReconcileEffect DEF OnlyLooks, Reading
    <3>2. /\ state'.enc => state.enc \/ row.enc
          /\ ~Aead => ~state'.enc
          /\ pc = "recover" => state'.gen >= row.gen
      <4>1. pc = "recover" => state.gen >= row.gen
        BY DEF RowInv, Recovering
      <4>2. CASE state' = state
        BY <4>1, <4>2 DEF RowInv
      <4>3. CASE state' # state
        <5>1. /\ state'.enc = (state.enc \/ run.look.enc)
              /\ run.look.enc => Aead /\ row.enc
          BY <3>1, <4>3
        <5>2. (state'.enc => state.enc \/ row.enc) /\ (~Aead => ~state'.enc)
          BY <5>1 DEF RowInv
        <5>3. pc = "recover" => state'.gen >= row.gen
          BY <1>1, <3>1, <4>1, <4>3
        <5> QED
          BY <5>2, <5>3
      <4> QED
        BY <4>2, <4>3
    <3>3. pc' \in {"reconcile", "verify"} \/ (pc = "recover" /\ pc' \in {"recover", "replace", "resave"})
      BY <3>1
    <3>4. pc' = "reconcile" => pc = "reconcile" /\ state' = state
      BY <3>1
    <3> QED
      BY <3>1, <3>2, <3>3, <3>4 DEF RowInv, Aead, Live, Registering, Recovering, Sending
  <2> QED
    BY <2>1, <2>2
<1>6. CASE Verify
  <2>1. /\ pc = "verify" /\ pc' = "plan"
        /\ UNCHANGED <<saved, row, chunks, wrap, sealed>>
        /\ run' = [run EXCEPT !.deleting = run'.deleting, !.wraps = run'.wraps]
        /\ ~Aead => state'.enc = state.enc
        /\ Aead => state'.enc
    BY <1>1, <1>6, VerifyFacts
  <2>2. run'.mode = run.mode
    BY <1>1, <2>1 DEF TypeOK, RunTypeOK
  <2> QED
    BY <2>1, <2>2 DEF RowInv, Aead, Live, Registering, Recovering, Sending
<1>7. CASE Plan
  <2>1. CASE End
    BY <1>3, <1>7, <2>1, PlanStepFacts
  <2>2. CASE ~End
    <3>1. /\ pc = "plan" /\ pc' \in {"delete", "register"}
          /\ UNCHANGED <<saved, row, chunks, wrap, sealed, state, run>>
      BY <1>7, <2>2, PlanStepFacts
    <3> QED
      BY <3>1 DEF RowInv, Aead, Live, Registering, Recovering, Sending
  <2> QED
    BY <2>1, <2>2
<1>8. CASE Delete
  <2>1. /\ pc = "delete" /\ pc' = "register" /\ UNCHANGED <<saved, state, run, sealed>>
        /\ row'.status = (IF row.status = "absent" THEN "absent" ELSE "deleted")
        /\ row'.enc = row.enc /\ row'.gen = row.gen /\ chunks' = {} /\ wrap'.gen = 0
    BY <1>1, <1>8, DeleteFacts, DeletedFacts
  <2> QED
    BY <1>1, <2>1 DEF RowInv, Aead, Live, Registering, Recovering, Sending
<1>9. CASE Register
  <2>1. CASE End /\ row' = row
    BY <1>3, <1>9, <2>1, RegisterFacts
  <2>2. CASE ~(End /\ row' = row)
    <3>1. /\ pc = "register" /\ UNCHANGED <<saved, chunks, wrap, sealed>>
          /\ Aead => state.gen >= row.gen
          /\ row'.status = "live" /\ row'.enc = (row.enc \/ Aead)
          /\ row'.gen = (IF Aead THEN state.gen ELSE row.gen)
          /\ \/ run.wraps /\ pc' = "wrap" /\ UNCHANGED <<state, plan, run>>
             \/ ~run.wraps /\ EnterLoop
      BY <1>9, <2>2, RegisterFacts DEF AcceptsSession
    <3>2. /\ (pc' = "wrap" /\ run'.wraps) \/ pc' = "send"
          /\ state' = state /\ run'.mode = run.mode
      BY <1>1, <3>1, EnterFacts DEF RunKept
    <3>3. Aead' = Aead
      BY <3>2 DEF Aead
    <3>4. row'.gen >= row.gen /\ row'.gen \in Nat
      BY <1>1, <1>2, <3>1
    <3>5. \A b \in sealed : b.gen \in Nat
      BY <1>1 DEF TypeOK, HistoryTypeOK, Body
    <3>6. \A b \in sealed' : b.gen <= row'.gen /\ b.dk \in Keys
      BY <1>1, <3>1, <3>4, <3>5 DEF RowInv
    <3>7. wrap'.gen <= row'.gen
      BY <1>1, <3>1, <3>4 DEF RowInv
    <3>8. Live'
      BY <3>1 DEF Live
    <3>9. ~row'.enc => row'.gen = 0
      BY <3>1 DEF RowInv
    <3> QED
      BY <3>1, <3>2, <3>3, <3>6, <3>7, <3>8, <3>9
         DEF RowInv, Registering, Recovering, Sending
  <2> QED
    BY <2>1, <2>2
<1>10. CASE PutWraps
  <2>1. CASE End /\ wrap' = wrap
    BY <1>3, <1>10, <2>1, WrapFacts
  <2>2. CASE ~(End /\ wrap' = wrap)
    <3>1. /\ pc = "wrap" /\ UNCHANGED <<saved, row, chunks, sealed>> /\ EnterLoop
          /\ wrap' = IF state.gen >= wrap.gen THEN [gen |-> state.gen, dk |-> state.dk] ELSE wrap
      BY <1>10, <2>2, WrapFacts
    <3>2. pc' = "send" /\ state' = state /\ run'.mode = run.mode
      BY <1>1, <3>1, EnterFacts DEF RunKept
    <3>3. Aead /\ state.gen = row.gen
      BY <1>1, <3>1 DEF TypeInv, KeyInv, RowInv
    <3>4. wrap'.gen <= row.gen
      BY <1>1, <3>1, <3>3 DEF RowInv
    <3> QED
      BY <3>1, <3>2, <3>4 DEF RowInv, Aead, Live, Registering, Recovering, Sending
  <2> QED
    BY <2>1, <2>2
<1>11. CASE Send
  <2>1. /\ pc = "send" /\ UNCHANGED <<saved, row, wrap>>
        /\ sealed' = IF Aead THEN sealed \cup {BodyOf(ReadNow)} ELSE sealed
    BY <1>1, <1>11, SendFacts
  <2>2. \A b \in sealed' : b.gen <= row.gen /\ b.dk \in Keys
    <3>1. Aead => BodyOf(ReadNow).gen = state.gen /\ BodyOf(ReadNow).dk = state.dk
      BY DEF BodyOf, Seal
    <3>2. Aead => state.gen = row.gen /\ state.dk \in Keys
      BY <1>1, <2>1 DEF RowInv, TypeInv, KeyInv, Sending
    <3> QED
      BY <1>1, <2>1, <3>1, <3>2 DEF RowInv
  <2>3. CASE End /\ chunks' = chunks
    BY <2>1, <2>2, <2>3, EndRow
  <2>4. CASE pc' \in {"save", "conflict"}
    <3>1. Live /\ row.enc = Aead /\ state' = state /\ run'.mode = run.mode
      BY <1>1, <1>11, <2>4, SendFacts DEF RunKept, End
    <3>2. Aead => state.gen = row.gen
      BY <1>1, <2>1 DEF RowInv
    <3>3. ~Aead => row.gen = 0
      BY <3>1 DEF RowInv
    <3>4. state.gen >= row.gen
      BY <1>1, <1>2, <3>2, <3>3
    <3> QED
      BY <2>1, <2>2, <2>4, <3>1, <3>4 DEF RowInv, Aead, Live, Registering, Recovering, Sending
  <2> QED
    BY <1>1, <1>11, <2>3, <2>4, SendFacts
<1>12. CASE Save
  <2>1. /\ pc = "save" /\ pc' \in {"done", "send"} /\ saved' = state'
        /\ state'.enc = state.enc /\ state'.gen = state.gen
        /\ run'.mode = run.mode /\ UNCHANGED <<row, chunks, wrap, sealed>>
    BY <1>1, <1>12, SaveFacts DEF RunKept
  <2> QED
    BY <2>1 DEF RowInv, Aead, Live, Registering, Recovering, Sending
<1>13. CASE Return
  BY <1>3, <1>13, ReturnFacts
<1>14. CASE Conflict
  <2>1. CASE End
    BY <1>1, <1>3, <1>14, <2>1, ConflictFacts
  <2>2. CASE ~End
    <3>1. /\ pc = "conflict" /\ pc' = "recover"
          /\ run'.mode = run.mode /\ UNCHANGED <<saved, row, chunks, wrap, sealed, state>>
      BY <1>1, <1>14, <2>2, ConflictFacts DEF RunKept
    <3> QED
      BY <3>1 DEF RowInv, Aead, Live, Registering, Recovering, Sending
  <2> QED
    BY <2>1, <2>2
<1>15. CASE Replace
  <2>1. /\ pc = "replace" /\ pc' = "resave" /\ UNCHANGED <<saved, run, sealed>>
        /\ state' = Reset(state)
        /\ row'.status = (IF row.status = "absent" THEN "absent" ELSE "deleted")
        /\ row'.enc = row.enc /\ row'.gen = row.gen /\ chunks' = {} /\ wrap'.gen = 0
    BY <1>1, <1>15, ReplaceFacts, DeletedFacts
  <2>2. state'.enc = state.enc /\ state'.gen >= state.gen /\ state'.gen \in Nat
    BY <1>1, <1>2, <2>1, ResetFields
  <2>3. state'.gen >= row.gen
    BY <1>1, <1>2, <2>1, <2>2 DEF RowInv, Recovering
  <2> QED
    BY <1>1, <2>1, <2>2, <2>3 DEF RowInv, Aead, Live, Registering, Recovering, Sending
<1>16. CASE Resave
  <2>1. /\ pc = "resave" /\ pc' = "replan" /\ saved' = state
        /\ UNCHANGED <<row, chunks, wrap, state, run, sealed>>
    BY <1>16, ResaveFacts
  <2> QED
    BY <2>1 DEF RowInv, Aead, Live, Registering, Recovering, Sending
<1>17. CASE Replan
  <2>1. CASE End
    BY <1>1, <1>3, <1>17, <2>1, ReplanEnds
  <2>2. CASE ~End
    <3>1. plan' # <<>> /\ pc = "replan"
      BY <1>1, <1>17, <2>2, ReplanEnds
    <3>2. Aead => state.dk # Unreadable
      BY <1>1, <3>1 DEF BytesInv, KeysKnown, Recovering
    <3>3. /\ pc' = "register" /\ UNCHANGED <<saved, row, chunks, wrap, sealed>>
          /\ run' = [run EXCEPT !.wraps = run'.wraps]
          /\ ~Aead => state'.enc = state.enc
          /\ Aead => state'.enc
      BY <1>1, <1>17, <3>1, <3>2, ReplanFacts
    <3>4. run'.mode = run.mode
      BY <1>1, <3>3 DEF TypeOK, RunTypeOK
    <3> QED
      BY <3>1, <3>3, <3>4 DEF RowInv, Aead, Live, Registering, Recovering, Sending
  <2> QED
    BY <2>1, <2>2
<1> QED
  BY <1>4, <1>5, <1>6, <1>7, <1>8, <1>9, <1>10, <1>11, <1>12, <1>13, <1>14, <1>15, <1>16, <1>17
     DEF RunStep

LEMMA EnvironmentRow ==
  ASSUME PublishConstants, ByteInv, RowInv, Environment
  PROVE  RowInv'
<1>1. TypeOK /\ row.gen \in Nat
  BY DEF ByteInv, TypeInv, TypeOK, StoreTypeOK
<1>2. ASSUME UNCHANGED <<row, chunks, wrap, sealed>>, Idle, saved'.enc => saved.enc
      PROVE  RowInv'
  BY <1>2 DEF Idle, RowInv, Aead, Live, Published
<1>3. CASE Grow \/ (\E head, tail \in 0 .. MaxLength : Rewrite(head, tail))
  BY <1>1, <1>2, <1>3, EditFacts
<1>4. CASE EndEarly
  BY <1>4, EndEarlyFacts, EndRow
<1>5. CASE LoseState
  BY <1>2, <1>5, LoseFacts DEF Fresh
<1>6. CASE SpoilKey
  BY <1>1, <1>2, <1>6, SpoilFacts
<1>7. CASE Unpublish
  <2>1. /\ row'.status = (IF row.status = "absent" THEN "absent" ELSE "deleted")
        /\ row'.enc = row.enc /\ row'.gen = row.gen /\ chunks' = {} /\ wrap'.gen = 0
        /\ ~saved'.enc /\ UNCHANGED <<pc, state, run, sealed>>
    BY <1>1, <1>7, UnpublishFacts, DeletedFacts DEF Fresh, Idle
  <2> QED
    BY <1>1, <2>1 DEF RowInv, Aead, Live, Published
<1>8. CASE ShareOff \/ ShareOn
  BY <1>1, <1>2, <1>8, ShareFacts
<1> QED
  BY <1>3, <1>4, <1>5, <1>6, <1>7, <1>8 DEF Environment

LEMMA InitRow == PublishConstants /\ Init => RowInv
<1> SUFFICES ASSUME PublishConstants, Init
             PROVE  RowInv
  OBVIOUS
<1>1. /\ pc = "idle" /\ state = Fresh /\ run = NoRun /\ chunks = {} /\ sealed = {}
      /\ row = [status |-> "absent", enc |-> FALSE, gen |-> 0]
      /\ wrap = [gen |-> 0, dk |-> NoKey]
  BY DEF Init
<1>2. ~saved.enc
  BY DEF Init, Fresh
<1> QED
  BY <1>1, <1>2 DEF RowInv, NoRun, Fresh, Aead, Registering, Recovering, Sending

LEMMA RowUnchanged == RowInv /\ UNCHANGED vars => RowInv'
BY Zenon DEF vars, file, store, local, history, RowInv, Aead, Live

KnownInv == ByteInv /\ RowInv

LEMMA KnownInvInductive ==
  ASSUME PublishConstants
  PROVE  /\ Init => KnownInv
         /\ KnownInv /\ [Next]_vars => KnownInv'
<1>1. Init => KnownInv
  BY ByteInvInductive, InitRow DEF KnownInv
<1>2. KnownInv /\ [Next]_vars => RowInv'
  BY RunRow, EnvironmentRow, RowUnchanged DEF KnownInv, Next, RunStep, Environment
<1>3. KnownInv /\ [Next]_vars => ByteInv'
  BY ByteInvInductive DEF KnownInv
<1> QED
  BY <1>1, <1>2, <1>3 DEF KnownInv

(* What happened of the mishaps stays; the steps of a run add none.          *)
LEMMA MishapsStay ==
  ASSUME PublishConstants, TypeOK, [Next]_vars
  PROVE  /\ mishaps \subseteq mishaps'
         /\ (\E mode \in Modes : Begin(mode)) \/ RunStep \/ UNCHANGED vars => mishaps' = mishaps
<1>1. UNCHANGED vars => mishaps' = mishaps
  BY DEF vars, history
<1>2. (\E mode \in Modes : Begin(mode)) \/ RunStep => mishaps' = mishaps
  BY DEF RunStep, Begin, Reconcile, Verify, Plan, Delete, Register, PutWraps, Send, Save,
         Return, Conflict, Replace, Resave, Replan, Outside
<1>3. Environment => mishaps \subseteq mishaps'
  BY DEF Environment, Grow, Rewrite, EndEarly, LoseState, SpoilKey, Unpublish, ShareOff,
         ShareOn, Suffers
<1> QED
  BY <1>1, <1>2, <1>3 DEF Next, RunStep, Environment, vars, history

LEMMA KnownTypes ==
  ASSUME KnownInv
  PROVE  /\ state \in PublishState /\ saved \in PublishState /\ row.gen \in Nat
         /\ row.enc \in BOOLEAN /\ row.status \in {"absent", "live", "deleted"}
         /\ chunks \subseteq Chunk /\ plan \in Seq(PieceType)
         /\ transcript \in Seq(Nat) /\ epoch \in Nat /\ run.size \in Nat
         /\ TypeOK /\ TypeInv /\ PlanInv /\ BytesInv /\ ByteInv /\ RowInv
BY DEF KnownInv, ByteInv, TypeInv, TypeOK, FileTypeOK, StoreTypeOK, RunTypeOK, PieceType, Chunk

(* The chunk a Save is about makes the state one that published it.          *)
LEMMA SavePublishes ==
  ASSUME KnownInv, Save
  PROVE  /\ Published(state') /\ Published(saved')
         /\ plan # <<>> /\ 1 \in 1 .. Len(plan) /\ Head(plan) = plan[1]
         /\ Head(plan).off \in Nat /\ Head(plan).end \in Nat
         /\ state.start <= Head(plan).off /\ Head(plan).off < Head(plan).end
<1>1. /\ pc = "save" /\ saved' = state'
      /\ state'.start = state.start /\ state'.offset = Head(plan).end
  BY KnownTypes, SaveFacts
<1>2. plan # <<>>
  BY <1>1, KnownTypes DEF PlanInv, Sending
<1>3. /\ Head(plan) = plan[1] /\ 1 \in 1 .. Len(plan)
      /\ Head(plan).off \in Nat /\ Head(plan).end \in Nat
  BY <1>2, KnownTypes, HeadPiece
<1>4. state.start <= Head(plan).off /\ Head(plan).off < Head(plan).end
  BY <1>1, <1>3, KnownTypes DEF BytesInv, PlanKnown, Sending
<1>5. state.start \in Nat
  BY KnownTypes, StateFields
<1> QED
  BY <1>1, <1>2, <1>3, <1>4, <1>5 DEF Published

(* A verification that goes on from published bytes found them unchanged,    *)
(* the scheme of the session kept, and its key readable.                     *)
LEMMA VerifyKeeps ==
  ASSUME TypeOK, Verify, ~run'.deleting
  PROVE  /\ Verified(state, run.size) /\ ~Migrates(state)
         /\ ~(Aead /\ state.enc /\ state.dk = Unreadable)
<1> DEFINE stale == ~Verified(state, run.size)
           kept == IF stale THEN Reset(state) ELSE state
           migrates == Migrates(state)
           base == IF migrates /\ Published(kept) THEN Reset(kept) ELSE kept
           rotates == Aead /\ base.enc /\ base.dk = Unreadable
<1>1. run' = [run EXCEPT !.deleting = stale \/ migrates \/ rotates,
                         !.wraps = Aead /\ ~Opens(base)]
  BY DEF Verify
<1>2. run'.deleting = (stale \/ migrates \/ rotates)
  <2> HIDE DEF stale, migrates, rotates, base
  <2> QED
    BY <1>1 DEF TypeOK, RunTypeOK
<1>3. ~stale /\ ~migrates /\ ~rotates
  <2> HIDE DEF stale, migrates, rotates
  <2> QED
    BY <1>2
<1> QED
  BY <1>3

-----------------------------------------------------------------------------
(* Generations                                                              *)

Hidden == {"abandoned", "forgotten"}

(* A key that can be opened is of a session with published bytes, and the    *)
(* store has not passed its generation unless those bytes are gone for good. *)
NotBehind(s) == Opens(s) => Published(s) /\ (Doomed(s) \/ s.gen >= row.gen)

(* What the store forgets of a tombstone's generation, the publisher knows;  *)
(* and what a run mints is past both.                                        *)
GenInv ==
    /\ NotBehind(saved)
    /\ pc \in Verifying => NotBehind(state)
    /\ pc \in {"reconcile", "verify", "replan"} /\ Opens(saved) => saved = state
    /\ pc = "resave" => Published(state) \/ ~Opens(state)
    /\ Aead /\ pc \in Registering =>
          /\ state.gen >= row.gen
          /\ Opens(saved) => Doomed(saved) \/ saved.gen >= state.gen
    /\ run.wraps /\ pc \in Registering \cup {"wrap"} => \A b \in sealed : b.gen < state.gen
    /\ row.status = "deleted" /\ pc \notin {"register", "resave"} => saved.gen >= row.gen
    /\ row.status = "deleted" /\ pc \in Verifying => state.gen >= row.gen
    /\ pc \in {"wrap", "send", "save", "conflict", "recover", "replace"} => Live

LEMMA FreshCloses == ~Opens(Fresh)
BY DEF Opens, Fresh

(* The end of a run, at a step that has not deleted the session.             *)
LEMMA EndGen ==
  ASSUME GenInv, End, UNCHANGED <<transcript, epoch, saved, row>>,
         row.status = "deleted" => pc \notin {"register", "resave"}
  PROVE  GenInv'
BY DEF GenInv, End, NoRun, Aead, NotBehind, Doomed, Verifying, Registering

(* A new generation is past the row's, whatever the row's status.            *)
LEMMA PastRow ==
  ASSUME NEW g \in Nat, NEW h \in Nat, row.gen \in Nat, row.status \in {"absent", "live", "deleted"},
         g > h, g > ServerGen, row.status = "absent" => row.gen = 0,
         row.status = "deleted" => h >= row.gen
  PROVE  g > row.gen
BY DEF ServerGen, Live

LEMMA RunGen ==
  ASSUME PublishConstants, KnownInv, GenInv, mishaps \cap Hidden = {},
         (\E mode \in Modes : Begin(mode)) \/ RunStep
  PROVE  GenInv'
<1>1. /\ state \in PublishState /\ saved \in PublishState /\ row.gen \in Nat
      /\ row.enc \in BOOLEAN /\ TypeOK /\ TypeInv /\ BytesInv /\ ByteInv /\ RowInv
      /\ plan \in Seq(PieceType) /\ row.status \in {"absent", "live", "deleted"}
  BY DEF KnownInv, ByteInv, TypeInv, TypeOK, FileTypeOK, StoreTypeOK, RunTypeOK, PieceType
<1>2. state.gen \in Nat /\ saved.gen \in Nat /\ \A b \in sealed : b.gen \in Nat
  BY <1>1, StateFields DEF TypeOK, HistoryTypeOK, Body
<1>3. \A b \in sealed : b.gen <= row.gen
  BY <1>1 DEF RowInv
<1>4. UNCHANGED <<transcript, epoch>>
  BY DEF RunStep, Begin, Reconcile, Verify, Plan, Delete, Register, PutWraps, Send, Save,
         Return, Conflict, Replace, Resave, Replan, Outside, file
<1>5. \A s : Doomed(s) => Published(s)
  BY DEF Doomed, DoomedIn
<1>6. CASE \E mode \in Modes : Begin(mode)
  <2>1. PICK mode \in Modes : Begin(mode)
    BY <1>6
  <2>2. /\ pc = "idle" /\ pc' \in Verifying /\ state' = saved /\ ~run'.wraps
        /\ UNCHANGED <<saved, row, sealed>>
    BY <2>1, BeginFacts DEF Verifying
  <2> QED
    BY <1>4, <2>2 DEF GenInv, NotBehind, Doomed, Verifying, Registering
<1>7. CASE Reconcile
  <2>1. pc \in Reading /\ UNCHANGED <<saved, row>>
    BY <1>1, <1>7, ReconcileFacts
  <2>2. CASE End
    BY <1>4, <2>1, <2>2, EndGen DEF Reading
  <2>3. CASE ~End
    <3>1. /\ InRun /\ UNCHANGED <<mishaps, saved, row, chunks, wrap, sealed, plan>> /\ OnlyLooks
          /\ \/ pc' = pc /\ state' = state
             \/ pc' = IF pc = "reconcile" THEN "verify"
                      ELSE IF state'.offset <= state.offset THEN "replace" ELSE "resave"
          /\ \/ state' = state
             \/ /\ run.look.at = "digest" /\ Published(state')
                /\ state'.enc = (state.enc \/ run.look.enc)
                /\ run.look.enc => state'.gen = row.gen
      BY <1>1, <1>7, <2>3, ReconcileEffect
    <3>2. state'.offset <= state.offset \/ state' # state
      BY <1>1, StateFields
    <3>3. CASE pc = "recover"
      <4>1. Live /\ pc' \in {"recover", "replace", "resave"}
        BY <3>1, <3>3 DEF GenInv
      <4>2. pc' = "resave" => Published(state')
        BY <3>1, <3>2, <3>3
      <4> QED
        BY <1>4, <3>1, <3>3, <4>1, <4>2
           DEF GenInv, NotBehind, Doomed, Verifying, Registering, Live
    <3>4. CASE pc = "reconcile"
      <4>1. ~Opens(saved) /\ pc' \in {"reconcile", "verify"}
        BY <1>1, <3>1, <3>4 DEF GenInv, NotBehind, RowInv
      <4>2. CASE state' = state
        BY <1>4, <3>1, <3>4, <4>1, <4>2
           DEF GenInv, NotBehind, Doomed, Verifying, Registering
      <4>3. CASE state' # state
        <5>1. Live /\ (run.look.enc <=> row.enc)
          BY <1>1, <3>1, <4>3 DEF TypeInv, LookInv, LookStore, Undone, Hidden
        <5>2. Opens(state') => state'.gen = row.gen
          BY <1>1, <3>1, <3>4, <4>3, <5>1 DEF Opens, RowInv, Registering
        <5> QED
          BY <1>1, <1>4, <3>1, <3>4, <4>1, <4>3, <5>1, <5>2
             DEF GenInv, NotBehind, Doomed, Verifying, Registering, Live
      <4> QED
        BY <4>2, <4>3
    <3> QED
      BY <2>1, <3>3, <3>4 DEF Reading
  <2> QED
    BY <2>2, <2>3
<1>8. ASSUME NEW v \in BOOLEAN, v <=> ~Doomed(state), state.gen >= row.gen \/ Live \/ row.status = "absent",
             Opens(state) /\ ~Doomed(state) => state.gen >= row.gen,
             Opens(saved) => saved = state,
             state' \in PublishState, Aead,
             ~run'.wraps => Opens(state) /\ state' = state /\ v,
             run'.wraps => state'.gen > state.gen /\ state'.gen > ServerGen /\ (~Opens(state) \/ ~v)
      PROVE  /\ state'.gen >= row.gen
             /\ Opens(saved) => Doomed(saved) \/ saved.gen >= state'.gen
             /\ run'.wraps => \A b \in sealed : b.gen < state'.gen
  <2>1. state'.gen \in Nat
    BY <1>8, StateFields
  <2>2. CASE run'.wraps
    <3>1. state'.gen > row.gen
      BY <1>1, <1>2, <1>8, <2>1, <2>2, PastRow DEF RowInv, Live
    <3>2. Opens(saved) => Doomed(saved)
      BY <1>8, <2>2
    <3> QED
      BY <1>1, <1>2, <1>3, <2>1, <3>1, <3>2
  <2>3. CASE ~run'.wraps
    <3>1. Opens(state) /\ state' = state /\ ~Doomed(state)
      BY <1>8, <2>3
    <3>2. state.gen >= row.gen
      BY <1>8, <3>1
    <3> QED
      BY <1>2, <1>8, <2>3, <3>1, <3>2
  <2> QED
    BY <2>2, <2>3
<1>9. CASE Verify
  <2> DEFINE v == Verified(state, run.size)
  <2>1. /\ pc = "verify" /\ pc' = "plan"
        /\ UNCHANGED <<saved, row, chunks, wrap, sealed>>
        /\ run' = [run EXCEPT !.deleting = run'.deleting, !.wraps = run'.wraps]
        /\ ~run'.deleting => v
        /\ Aead /\ ~run'.wraps => Opens(state) /\ state' = state /\ ~run'.deleting
        /\ run'.wraps => /\ Aead /\ state'.gen > state.gen /\ state'.gen > ServerGen
                         /\ ~Opens(state) \/ ~v
        /\ state' \in PublishState
    BY <1>1, <1>9, VerifyFacts
  <2>2. v \in BOOLEAN
    BY DEF Verified
  <2>3. v <=> ~Doomed(state)
    BY <1>1, <2>1, Verdict DEF InRun
  <2> HIDE DEF v
  <2>4. run'.mode = run.mode
    BY <1>1, <2>1 DEF TypeOK, RunTypeOK
  <2>5. /\ Opens(state) /\ ~Doomed(state) => state.gen >= row.gen
        /\ Opens(saved) => saved = state
        /\ state.gen >= row.gen \/ Live \/ row.status = "absent"
    BY <1>1, <2>1 DEF GenInv, NotBehind, Verifying, Live
  <2>6. Aead => /\ state'.gen >= row.gen
                /\ Opens(saved) => Doomed(saved) \/ saved.gen >= state'.gen
                /\ run'.wraps => \A b \in sealed : b.gen < state'.gen
    BY <1>8, <2>1, <2>2, <2>3, <2>5
  <2> QED
    BY <1>4, <2>1, <2>4, <2>6 DEF GenInv, NotBehind, Doomed, Verifying, Registering, Aead
<1>10. CASE Plan
  <2>1. CASE End
    <3>1. pc = "plan" /\ UNCHANGED <<saved, row>>
      BY <1>10, PlanStepFacts
    <3> QED
      BY <1>4, <2>1, <3>1, EndGen
  <2>2. CASE ~End
    <3>1. /\ pc = "plan" /\ pc' \in {"delete", "register"}
          /\ UNCHANGED <<saved, row, chunks, wrap, sealed, state, run>>
      BY <1>10, <2>2, PlanStepFacts
    <3> QED
      BY <1>4, <3>1 DEF GenInv, NotBehind, Doomed, Verifying, Registering, Aead
  <2> QED
    BY <2>1, <2>2
<1>11. CASE Delete
  <2>1. /\ pc = "delete" /\ pc' = "register" /\ UNCHANGED <<saved, state, run, sealed>>
        /\ row'.gen = row.gen
    BY <1>1, <1>11, DeleteFacts, DeletedFacts
  <2> QED
    BY <1>4, <2>1 DEF GenInv, NotBehind, Doomed, Verifying, Registering, Aead
<1>12. CASE Register
  <2>1. pc = "register"
    BY <1>12, RegisterFacts
  <2>2. AcceptsSession(Aead, state.gen)
    BY <2>1 DEF GenInv, AcceptsSession, Registering
  <2>3. /\ UNCHANGED <<saved, chunks, wrap, sealed>>
        /\ row'.status = "live"
        /\ row'.gen = (IF Aead THEN state.gen ELSE row.gen)
        /\ \/ run.wraps /\ pc' = "wrap" /\ UNCHANGED <<state, plan, run>>
           \/ ~run.wraps /\ EnterLoop
    BY <1>12, <2>2, RegisterFacts
  <2>4. /\ state' = state /\ pc' \in {"wrap", "send"}
        /\ pc' = "wrap" => run'.wraps /\ run.wraps
        /\ pc' = "send" => ~run'.wraps
    BY <1>1, <2>3, EnterFacts
  <2>5. NotBehind(saved)'
    <3>1. Opens(saved) => Published(saved) /\ (Doomed(saved) \/ saved.gen >= row'.gen)
      BY <2>1, <2>3 DEF GenInv, NotBehind, Registering
    <3> QED
      BY <1>4, <2>3, <3>1 DEF NotBehind, Doomed
  <2> QED
    BY <1>4, <2>1, <2>3, <2>4, <2>5 DEF GenInv, Verifying, Registering, Aead, Live
<1>13. CASE PutWraps
  <2>1. pc = "wrap" /\ UNCHANGED <<saved, row, chunks, sealed>>
    BY <1>13, WrapFacts
  <2>2. CASE End
    BY <1>4, <2>1, <2>2, EndGen
  <2>3. CASE ~End
    <3>1. EnterLoop /\ Live
      BY <1>13, <2>3, WrapFacts
    <3>2. pc' = "send" /\ state' = state
      BY <1>1, <3>1, EnterFacts
    <3> QED
      BY <1>4, <2>1, <3>1, <3>2 DEF GenInv, NotBehind, Doomed, Verifying, Registering, Live
  <2> QED
    BY <2>2, <2>3
<1>14. CASE Send
  <2>1. pc = "send" /\ UNCHANGED <<saved, row, wrap>>
    BY <1>1, <1>14, SendFacts
  <2>2. CASE End
    BY <1>4, <2>1, <2>2, EndGen
  <2>3. CASE ~End
    <3>1. pc' \in {"save", "conflict"} /\ Live
      BY <1>1, <1>14, <2>3, SendFacts
    <3> QED
      BY <1>4, <2>1, <3>1 DEF GenInv, NotBehind, Doomed, Verifying, Registering, Live
  <2> QED
    BY <2>2, <2>3
<1>15. CASE Save
  <2>1. /\ pc = "save" /\ pc' \in {"done", "send"} /\ saved' = state'
        /\ state'.enc = state.enc /\ state'.gen = state.gen
        /\ state'.start = state.start /\ state'.offset = Head(plan).end
        /\ UNCHANGED <<row, chunks, wrap, sealed>>
    BY <1>1, <1>15, SaveFacts
  <2>2. state.enc => state.gen = row.gen
    BY <1>1, <2>1 DEF RowInv
  <2>3. Published(state')
    <3>1. plan # <<>>
      BY <1>1, <2>1 DEF TypeInv, PlanInv, Sending
    <3>2. /\ Head(plan) = plan[1] /\ 1 \in 1 .. Len(plan)
          /\ Head(plan).off \in Nat /\ Head(plan).end \in Nat
      BY <1>1, <3>1, HeadPiece
    <3>3. state.start <= Head(plan).off /\ Head(plan).off < Head(plan).end
      BY <1>1, <2>1, <3>2 DEF BytesInv, PlanKnown, Sending
    <3>4. state.start \in Nat
      BY <1>1, StateFields
    <3> QED
      BY <2>1, <3>2, <3>3, <3>4 DEF Published
  <2>4. Live
    BY <2>1 DEF GenInv
  <2> QED
    BY <1>2, <1>4, <2>1, <2>2, <2>3, <2>4
       DEF GenInv, NotBehind, Opens, Verifying, Registering, Live
<1>16. CASE Return
  BY <1>4, <1>16, ReturnFacts, EndGen
<1>17. CASE Conflict
  <2>1. pc = "conflict" /\ UNCHANGED <<saved, row, chunks, wrap, sealed>>
    BY <1>1, <1>17, ConflictFacts
  <2>2. CASE End
    BY <1>4, <2>1, <2>2, EndGen
  <2>3. CASE ~End
    <3>1. pc' = "recover" /\ state' = state /\ RunKept
      BY <1>1, <1>17, <2>3, ConflictFacts
    <3>2. Live
      BY <2>1 DEF GenInv
    <3> QED
      BY <1>4, <2>1, <3>1, <3>2 DEF GenInv, NotBehind, Doomed, Verifying, Registering, Live
  <2> QED
    BY <2>2, <2>3
<1>18. CASE Replace
  <2>1. /\ pc = "replace" /\ pc' = "resave" /\ UNCHANGED <<saved, run, sealed>>
        /\ state' = Reset(state) /\ row'.gen = row.gen
    BY <1>1, <1>18, ReplaceFacts, DeletedFacts
  <2>2. ~Opens(state')
    <3>1. state'.enc = state.enc /\ (state.enc => state'.dk = NoKey)
      BY <1>1, <2>1, ResetFields
    <3> QED
      BY <3>1 DEF Opens, PublishConstants, NoKey
  <2> QED
    BY <1>4, <2>1, <2>2 DEF GenInv, NotBehind, Doomed, Verifying, Registering
<1>19. CASE Resave
  <2>1. /\ pc = "resave" /\ pc' = "replan" /\ saved' = state
        /\ UNCHANGED <<row, chunks, wrap, state, plan, run, sealed>>
    BY <1>19, ResaveFacts
  <2>2. state.gen >= row.gen
    BY <1>1, <2>1 DEF RowInv, Recovering
  <2> QED
    BY <1>4, <2>1, <2>2 DEF GenInv, NotBehind, Doomed, Verifying, Registering
<1>20. CASE Replan
  <2>1. pc = "replan" /\ UNCHANGED <<saved, row, chunks, wrap, sealed>>
    BY <1>1, <1>20, ReplanEnds
  <2>2. CASE End
    BY <1>4, <2>1, <2>2, EndGen
  <2>3. CASE ~End
    <3>1. plan' # <<>>
      BY <1>1, <1>20, <2>3, ReplanEnds
    <3>2. Aead => state.dk # Unreadable
      BY <1>1, <2>1 DEF BytesInv, KeysKnown, Recovering
    <3> DEFINE v == Verified(state, run.size)
    <3>3. /\ pc' = "register"
          /\ run' = [run EXCEPT !.wraps = run'.wraps]
          /\ state' \in PublishState
          /\ Aead /\ ~run'.wraps => Opens(state) /\ state' = state /\ v
          /\ run'.wraps => /\ Aead /\ state'.gen > state.gen /\ state'.gen > ServerGen
                           /\ ~Opens(state) \/ ~v
      BY <1>1, <1>20, <3>1, <3>2, ReplanFacts
    <3>4. v \in BOOLEAN
      BY DEF Verified
    <3>5. v <=> ~Doomed(state)
      BY <1>1, <2>1, Verdict DEF InRun
    <3> HIDE DEF v
    <3>6. run'.mode = run.mode
      BY <1>1, <3>3 DEF TypeOK, RunTypeOK
    <3>7. /\ state.gen >= row.gen
          /\ Opens(saved) => saved = state
      BY <1>1, <2>1 DEF GenInv, RowInv, Recovering
    <3>8. Aead => /\ state'.gen >= row.gen
                  /\ Opens(saved) => Doomed(saved) \/ saved.gen >= state'.gen
                  /\ run'.wraps => \A b \in sealed : b.gen < state'.gen
      <4>1. /\ Opens(state) /\ ~Doomed(state) => state.gen >= row.gen
            /\ state.gen >= row.gen \/ Live \/ row.status = "absent"
        BY <3>7
      <4> QED
        BY <1>8, <3>3, <3>4, <3>5, <3>7, <4>1
    <3>9. NotBehind(saved)'
      BY <1>4, <2>1 DEF GenInv, NotBehind, Doomed
    <3>10. Aead' = Aead /\ (run'.wraps => Aead)
      BY <3>3, <3>6 DEF Aead
    <3> QED
      BY <1>4, <2>1, <3>3, <3>8, <3>9, <3>10 DEF GenInv, Doomed, Verifying, Registering
  <2> QED
    BY <2>2, <2>3
<1> QED
  BY <1>6, <1>7, <1>9, <1>10, <1>11, <1>12, <1>13, <1>14, <1>15, <1>16, <1>17, <1>18, <1>19, <1>20
     DEF RunStep

LEMMA EnvironmentGen ==
  ASSUME PublishConstants, KnownInv, GenInv, Environment, mishaps' \cap Hidden = {}
  PROVE  GenInv'
<1>1. TypeOK /\ TypeInv /\ BytesInv /\ PlanInv /\ ByteInv
  BY DEF KnownInv, ByteInv, TypeInv
<1>2. "abandoned" \notin mishaps' /\ "forgotten" \notin mishaps'
  BY DEF Hidden
<1>3. CASE Grow \/ (\E head, tail \in 0 .. MaxLength : Rewrite(head, tail))
  <2>1. /\ FileMoves(transcript, epoch, transcript', epoch')
        /\ UNCHANGED <<saved, row, chunks, sealed>> /\ Idle
    BY <1>1, <1>3, EditFacts
  <2>2. (Doomed(saved) => Doomed(saved)') /\ (Doomed(state) => Doomed(state)')
    BY <1>1, <2>1, FileMovesBytes
  <2>3. UNCHANGED <<saved, row, sealed, pc, state, plan, run>>
    BY <2>1 DEF Idle
  <2>4. NotBehind(saved)'
    BY <2>2, <2>3 DEF GenInv, NotBehind
  <2>5. pc' \in Verifying => NotBehind(state)'
    BY <2>2, <2>3 DEF GenInv, NotBehind
  <2>6. Aead' /\ pc' \in Registering /\ Opens(saved') => Doomed(saved)' \/ saved'.gen >= state'.gen
    BY <2>2, <2>3 DEF GenInv, Aead
  <2> QED
    BY <2>3, <2>4, <2>5, <2>6 DEF GenInv, Aead, Live, Published
<1>4. CASE EndEarly
  BY <1>2, <1>4, EndEarlyFacts, EndGen
<1>5. ASSUME UNCHANGED <<transcript, epoch, row, sealed>>, Idle, ~Opens(saved'),
             row.status = "deleted" => saved'.gen = saved.gen
      PROVE  GenInv'
  <2>1. UNCHANGED <<row, sealed, pc, state, plan, run>>
    BY <1>5 DEF Idle
  <2>2. NotBehind(saved)'
    BY <1>5 DEF NotBehind
  <2>3. pc' \in Verifying => NotBehind(state)'
    BY <1>5, <2>1 DEF GenInv, NotBehind, Doomed
  <2> QED
    BY <1>5, <2>1, <2>2, <2>3 DEF GenInv, Aead, Live, Published
<1>6. CASE LoseState
  BY <1>2, <1>5, <1>6, LoseFacts, FreshCloses
<1>7. CASE SpoilKey
  <2>1. /\ saved'.dk = Unreadable /\ saved'.gen = saved.gen
        /\ UNCHANGED <<transcript, epoch, row, sealed>> /\ Idle
    BY <1>1, <1>7, SpoilFacts
  <2>2. ~Opens(saved')
    BY <2>1 DEF Opens, PublishConstants, Unreadable
  <2> QED
    BY <1>5, <2>1, <2>2
<1>8. CASE Unpublish
  BY <1>2, <1>8, UnpublishFacts
<1>9. CASE ShareOff \/ ShareOn
  <2>1. /\ \/ saved' = saved
           \/ /\ ~Published(saved)
              /\ saved'.enc = saved.enc /\ saved'.gen = saved.gen /\ saved'.dk = saved.dk
        /\ UNCHANGED <<transcript, epoch, row, sealed>> /\ Idle
    BY <1>1, <1>9, ShareFacts
  <2>2. CASE saved' = saved
    <3>1. UNCHANGED <<saved, row, sealed, pc, state, plan, run>>
      BY <2>1, <2>2 DEF Idle
    <3> QED
      BY <2>1, <3>1 DEF GenInv, NotBehind, Doomed, Aead, Live, Published
  <2>3. CASE saved' # saved
    <3>1. ~Opens(saved)
      BY <2>1, <2>3 DEF GenInv, NotBehind
    <3>2. ~Opens(saved') /\ saved'.gen = saved.gen
      BY <2>1, <2>3, <3>1 DEF Opens
    <3> QED
      BY <1>5, <2>1, <3>2
  <2> QED
    BY <2>2, <2>3
<1> QED
  BY <1>3, <1>4, <1>6, <1>7, <1>8, <1>9 DEF Environment

LEMMA InitGen == PublishConstants /\ Init => GenInv
<1> SUFFICES ASSUME PublishConstants, Init
             PROVE  GenInv
  OBVIOUS
<1>1. pc = "idle" /\ run = NoRun /\ row.status = "absent"
  BY DEF Init
<1>2. ~Opens(saved)
  BY DEF Init, Opens, Fresh
<1> QED
  BY <1>1, <1>2 DEF GenInv, NoRun, NotBehind, Aead, Verifying, Registering

GenSafe == KnownInv /\ Unless(Hidden, GenInv)

LEMMA GenSafeInductive ==
  ASSUME PublishConstants
  PROVE  /\ Init => GenSafe
         /\ GenSafe /\ [Next]_vars => GenSafe'
<1>1. Init => GenSafe
  BY KnownInvInductive, InitGen DEF GenSafe, Unless
<1>2. ASSUME GenSafe, [Next]_vars
      PROVE  GenSafe'
  <2>1. KnownInv'
    BY <1>2, KnownInvInductive DEF GenSafe
  <2>2. KnownInv /\ TypeOK
    BY <1>2 DEF GenSafe, KnownInv, ByteInv, TypeInv
  <2>3. mishaps \subseteq mishaps'
    BY <1>2, <2>2, MishapsStay
  <2>4. ASSUME mishaps' \cap Hidden = {}
        PROVE  GenInv'
    <3>1. GenInv /\ mishaps \cap Hidden = {}
      BY <1>2, <2>3, <2>4 DEF GenSafe, Unless
    <3>2. CASE UNCHANGED vars
      BY <3>1, <3>2 DEF vars, file, store, local, history, GenInv, NotBehind, Doomed, Aead, Live
    <3>3. CASE (\E mode \in Modes : Begin(mode)) \/ RunStep
      BY <2>2, <3>1, <3>3, RunGen
    <3>4. CASE Environment
      BY <2>2, <2>4, <3>1, <3>4, EnvironmentGen
    <3> QED
      BY <1>2, <3>2, <3>3, <3>4 DEF Next, RunStep, Environment
  <2> QED
    BY <2>1, <2>4 DEF GenSafe, Unless
<1> QED
  BY <1>1, <1>2

(* _setup_cipher: "the new gen is strictly greater than anything either side *)
(* has ever encrypted under".  For every number of rewrites, conflicts, lost *)
(* state files and ends of runs, for every set of keys and every MaxChunk:   *)
(* unless a tombstone hides a generation that nobody else remembers.         *)
THEOREM NewGenerationAlways == Spec => []NewGenerationUnlessTombstone
<1>1. GenSafe => NewGenerationUnlessTombstone
  <2> SUFFICES ASSUME GenSafe, mishaps \cap Hidden = {}
               PROVE  NewGenerationIsNew
    BY DEF NewGenerationUnlessTombstone, Unless, Hidden
  <2>1. GenInv /\ RowInv
    BY DEF GenSafe, KnownInv, Unless
  <2> QED
    BY <2>1 DEF NewGenerationIsNew, GenInv, RowInv
<1> QED
  BY <1>1, PublishConstants, GenSafeInductive, PTL DEF Spec

(* "Every recovery here is automatic": put_session never answers a run that  *)
(* has chunks to send with a 400 for its generation, unless a tombstone hid  *)
(* the generation it still enforces.                                         *)
THEOREM NeverRefusedAlways == Spec => []RefusedOnlyByTombstone
<1>1. GenSafe => RefusedOnlyByTombstone
  <2> SUFFICES ASSUME GenSafe, mishaps \cap Hidden = {}
               PROVE  NeverRefused
    BY DEF RefusedOnlyByTombstone, Unless, Hidden
  <2>1. GenInv
    BY DEF GenSafe, Unless
  <2> QED
    BY <2>1 DEF NeverRefused, AcceptsSession, GenInv, Registering
<1> QED
  BY <1>1, PublishConstants, GenSafeInductive, PTL DEF Spec

-----------------------------------------------------------------------------
(* Addresses and wraps                                                      *)

Unsettled == {"unsaved", "rewritten", "lost", "crossed"}

Keyed(s) == Published(s) /\ s.enc => s.dk # NoKey /\ s.gen >= 1

(* Where nothing of the kind happens a run meets no conflict, and what it    *)
(* plans it finds in the file.  A run that mints a key does not resume from  *)
(* the state file, and no later run will.                                    *)
CalmRun ==
    /\ pc \notin Recovering
    /\ pc = "delete" => run.deleting
    /\ Aead /\ pc \in {"plan", "delete"} /\ run.deleting => run.wraps
    /\ Aead /\ pc \in Planning => state.gen >= 1
    /\ InRun /\ ~Aead => ~saved.enc
    /\ pc = "plan" => ~Doomed(state)
    /\ pc \in Sending => \A i \in 1 .. Len(plan) : plan[i].end <= Len(transcript)
    /\ pc \in {"wrap", "send", "save"} => Live
    /\ Keyed(saved)
    /\ Keyed(state)
    /\ pc \in Verifying /\ Opens(saved) => saved = state
    /\ pc \in Registering \cup {"wrap"} /\ run.wraps /\ Opens(saved) => Doomed(saved)

(* Every chunk begins before the next one to come.                           *)
ChunksBelow ==
    /\ pc # "save" => \A c \in chunks : Published(saved) /\ c.off < saved.offset
    /\ pc \in Verifying => \A c \in chunks : Published(state) /\ c.off < state.offset
    /\ pc = "plan" /\ ~run.deleting => \A c \in chunks : c.off < state.offset
    /\ pc \in {"register", "wrap", "send"} => \A c \in chunks : c.off < plan[1].off
    /\ pc = "save" => \A c \in chunks : c.off <= plan[1].off
    /\ pc \in {"register", "wrap"} \/ (pc = "plan" /\ ~run.deleting) => (run.wraps => chunks = {})

(* And so does everything that was encrypted under the key in use.           *)
SealedBelow ==
    /\ AddressSealedOnce
    /\ pc # "save" => \A b \in sealed : b.dk = saved.dk => b.off < saved.offset
    /\ pc \in {"reconcile", "verify", "plan"} =>
         \A b \in sealed : b.dk = state.dk => b.off < state.offset
    /\ pc \in {"delete", "register", "wrap", "send"} =>
         \A b \in sealed : b.dk = state.dk => b.off < plan[1].off
    /\ pc = "save" => \A b \in sealed : b.dk = state.dk => b.off <= plan[1].off

WrapOf(s) == wrap = [gen |-> s.gen, dk |-> s.dk] /\ s.gen = row.gen

(* The wrap in the store is of the key of whatever state will be resumed     *)
(* from, and of the chunks.                                                  *)
WrapFits ==
    /\ row.enc => \A c \in chunks : /\ c.body.gen = row.gen
                                    /\ wrap = [gen |-> row.gen, dk |-> c.body.dk]
    /\ Opens(saved) => Doomed(saved) \/ WrapOf(saved)
    /\ pc \in Verifying /\ Opens(state) => Doomed(state) \/ WrapOf(state)
    /\ Aead /\ pc \in Registering /\ ~run.wraps => WrapOf(state)
    /\ Aead /\ pc \in {"send", "save"} => WrapOf(state)

CalmInv == CalmRun /\ ChunksBelow /\ SealedBelow /\ WrapFits

LEMMA SavedStill ==
  ASSUME UNCHANGED <<transcript, epoch, saved>>
  PROVE  /\ Opens(saved)' <=> Opens(saved)
         /\ Doomed(saved)' <=> Doomed(saved)
         /\ Keyed(saved)' <=> Keyed(saved)
         /\ Published(saved)' <=> Published(saved)
BY DEF Opens, Doomed, Keyed, Published

LEMMA StateStill ==
  ASSUME UNCHANGED <<transcript, epoch, state>>
  PROVE  /\ Opens(state)' <=> Opens(state)
         /\ Doomed(state)' <=> Doomed(state)
         /\ Keyed(state)' <=> Keyed(state)
         /\ Published(state)' <=> Published(state)
BY DEF Opens, Doomed, Keyed, Published

LEMMA WrapStill ==
  ASSUME UNCHANGED <<wrap, row>>
  PROVE  /\ saved' = saved => (WrapOf(saved)' <=> WrapOf(saved))
         /\ state' = state => (WrapOf(state)' <=> WrapOf(state))
         /\ state' = saved => (WrapOf(state)' <=> WrapOf(saved))
BY DEF WrapOf

LEMMA EndCalm ==
  ASSUME CalmInv, End, pc # "save",
         UNCHANGED <<transcript, epoch, saved, row, chunks, wrap, sealed>>
  PROVE  CalmInv'
<1>1. pc' = "idle" /\ state' = Fresh
  BY DEF End
<1>2. Keyed(state)'
  BY <1>1 DEF Keyed, Published, Fresh
<1>3. CalmRun'
  BY <1>1, <1>2, SavedStill
     DEF CalmInv, CalmRun, Recovering, Planning, Sending, Verifying, Registering, InRun
<1>4. ChunksBelow'
  BY <1>1, SavedStill DEF CalmInv, ChunksBelow, Verifying
<1>5. SealedBelow'
  BY <1>1 DEF CalmInv, SealedBelow, AddressSealedOnce
<1>6. WrapFits'
  BY <1>1, SavedStill, WrapStill DEF CalmInv, WrapFits, Verifying, Registering
<1> QED
  BY <1>3, <1>4, <1>5, <1>6 DEF CalmInv

LEMMA BeginCalm ==
  ASSUME PublishConstants, KnownInv, CalmInv, NEW mode \in Modes, Begin(mode)
  PROVE  CalmInv'
<1>1. /\ pc = "idle" /\ state' = saved /\ run'.mode = mode /\ ~(saved.enc /\ mode = "plain")
      /\ pc' = (IF Published(saved) THEN "verify" ELSE "reconcile")
      /\ UNCHANGED <<transcript, epoch, saved, row, chunks, wrap, sealed>>
  BY BeginFacts DEF RunFields
<1>2. pc' \in {"reconcile", "verify"}
  BY <1>1
<1>3. /\ Opens(state)' <=> Opens(saved)
      /\ Doomed(state)' <=> Doomed(saved)
      /\ Keyed(state)' <=> Keyed(saved)
      /\ Published(state)' <=> Published(saved)
  BY <1>1 DEF Opens, Doomed, Keyed, Published
<1>4. CalmRun'
  <2>1. ~Aead' => ~saved'.enc
    BY <1>1 DEF PublishConstants, Aead
  <2> QED
    BY <1>1, <1>2, <1>3, <2>1, SavedStill
       DEF CalmInv, CalmRun, Recovering, Planning, Sending, Verifying, Registering, InRun
<1>5. ChunksBelow'
  BY <1>1, <1>2, <1>3, SavedStill DEF CalmInv, ChunksBelow, Verifying
<1>6. SealedBelow'
  BY <1>1, <1>2 DEF CalmInv, SealedBelow, AddressSealedOnce
<1>7. WrapFits'
  BY <1>1, <1>2, <1>3, SavedStill, WrapStill DEF CalmInv, WrapFits, Verifying, Registering
<1> QED
  BY <1>4, <1>5, <1>6, <1>7 DEF CalmInv

(* There is nothing to reconcile with.                                       *)
LEMMA ReconcileCalm ==
  ASSUME PublishConstants, KnownInv, CalmInv, "crossed" \notin mishaps, Reconcile
  PROVE  CalmInv'
<1>1. pc = "reconcile" /\ UNCHANGED <<transcript, epoch, saved, row, chunks, wrap, sealed>>
  BY KnownTypes, ReconcileFacts DEF CalmInv, CalmRun, Recovering, Reading
<1>2. CASE End
  BY <1>1, <1>2, EndCalm
<1>3. CASE ~End
  <2>1. ~Published(state)
    BY <1>1 DEF KnownInv, RowInv
  <2>2. chunks = {}
    BY <1>1, <2>1 DEF CalmInv, ChunksBelow, Verifying
  <2>3. run.look.at # "digest"
    BY <2>2, KnownTypes DEF TypeInv, LookInv, LookStore, Undone
  <2>4. /\ pc' \in {"reconcile", "verify"} /\ state' = state
        /\ run'.mode = run.mode /\ run'.deleting = run.deleting /\ run'.wraps = run.wraps
    BY <1>1, <1>3, <2>3, KnownTypes, ReconcileEffect DEF OnlyLooks
  <2>5. CalmRun'
    BY <1>1, <2>4, SavedStill, StateStill
       DEF CalmInv, CalmRun, Recovering, Planning, Sending, Verifying, Registering, InRun, Aead
  <2>6. ChunksBelow'
    BY <1>1, <2>2, <2>4 DEF ChunksBelow
  <2>7. SealedBelow'
    BY <1>1, <2>4 DEF CalmInv, SealedBelow, AddressSealedOnce
  <2>8. WrapFits'
    BY <1>1, <2>2, <2>4, SavedStill, StateStill, WrapStill
       DEF CalmInv, WrapFits, Verifying, Registering
  <2> QED
    BY <2>5, <2>6, <2>7, <2>8 DEF CalmInv
<1> QED
  BY <1>2, <1>3

(* A run that goes on from published bytes without a new key keeps the state *)
(* that the chunks and the wrap in the store belong to; one that takes a new *)
(* key takes one that nothing was encrypted under.                           *)
LEMMA VerifyCalm ==
  ASSUME PublishConstants, KnownInv, CalmInv, Verify
  PROVE  CalmInv'
<1>1. /\ pc = "verify" /\ pc' = "plan"
      /\ UNCHANGED <<transcript, epoch, saved, row, chunks, wrap, sealed>>
      /\ run' = [run EXCEPT !.deleting = run'.deleting, !.wraps = run'.wraps]
      /\ run'.deleting \in BOOLEAN /\ run'.wraps \in BOOLEAN
      /\ state' \in PublishState
  BY KnownTypes, VerifyFacts DEF RunFields
<1>2. /\ run'.deleting => Wiped(state', state)
      /\ ~run'.deleting => Same(state', state) \/ Wiped(state', state)
      /\ ~run'.deleting /\ state.dk # Unreadable => Same(state', state)
      /\ ~run'.deleting => Verified(state, run.size) /\ ~Migrates(state)
  BY KnownTypes, VerifyFacts
<1>3. /\ ~Aead => ~run'.wraps /\ state'.enc = state.enc /\ (~state.enc => state'.dk = state.dk)
      /\ Aead /\ ~run'.wraps => Opens(state) /\ state' = state /\ ~run'.deleting
  BY KnownTypes, VerifyFacts
<1>4. run'.wraps => /\ Aead /\ state'.dk \in NewKey
                    /\ state'.gen > state.gen
                    /\ ~Opens(state) \/ ~Verified(state, run.size)
  BY KnownTypes, VerifyFacts
<1>5. (Aead' <=> Aead) /\ pc \in Verifying
  BY <1>1, KnownTypes DEF Aead, TypeOK, RunTypeOK, Verifying
<1>6. Verified(state, run.size) <=> ~Doomed(state)
  BY <1>1, KnownTypes, Verdict DEF InRun
<1>7. state.gen \in Nat /\ state'.gen \in Nat
  BY <1>1, KnownTypes, StateFields
<1>8. /\ ~Aead => ~state.enc
      /\ ~state.enc => state.dk = NoKey
  BY KnownTypes DEF RowInv, BytesInv, KeysKnown
<1>9. Aead => state'.gen >= 1
  BY <1>3, <1>4, <1>7 DEF Opens
<1>10. ~Doomed(state)'
  <2>1. Wiped(state', state) => ~Published(state')
    BY KnownTypes, WipedUnpublished
  <2>2. Same(state', state) /\ ~Doomed(state) => ~Doomed(state)'
    BY <1>1 DEF Doomed, DoomedIn, Same, Published
  <2>3. ~Published(state') => ~Doomed(state)'
    BY DEF Doomed, DoomedIn
  <2> QED
    BY <1>2, <1>6, <2>1, <2>2, <2>3
<1>11. Keyed(state)'
  <2>1. CASE Aead
    <3>1. CASE run'.wraps
      BY <1>4, <1>9, <2>1, <3>1 DEF Keyed, NewKey, PublishConstants, NoKey
    <3>2. CASE ~run'.wraps
      BY <1>1, <1>3, <2>1, <3>2, StateStill DEF CalmInv, CalmRun
    <3> QED
      BY <3>1, <3>2
  <2>2. CASE ~Aead
    BY <1>3, <1>8, <2>2 DEF Keyed
  <2> QED
    BY <2>1, <2>2
<1>12. run'.wraps /\ Opens(saved)' => Doomed(saved)'
  <2> SUFFICES ASSUME run'.wraps, Opens(saved)
               PROVE  Doomed(saved)'
    BY <1>1, SavedStill
  <2>1. saved = state
    BY <1>5 DEF CalmInv, CalmRun
  <2>2. ~Verified(state, run.size)
    BY <1>4, <2>1
  <2> QED
    BY <1>1, <1>6, <2>1, <2>2, SavedStill
<1>13. CalmRun'
  <2>1. Keyed(saved)' /\ (InRun' /\ ~Aead' => ~saved'.enc)
    BY <1>1, <1>5, SavedStill DEF CalmInv, CalmRun, InRun
  <2> QED
    BY <1>1, <1>3, <1>5, <1>9, <1>10, <1>11, <1>12, <2>1
       DEF CalmRun, Recovering, Sending, Verifying
<1>14. ~run'.deleting /\ chunks # {} =>
         /\ Same(state', state)
         /\ \A c \in chunks : Published(state) /\ c.off < state.offset
         /\ ~run'.wraps
  <2> SUFFICES ASSUME ~run'.deleting, chunks # {}
               PROVE  /\ Same(state', state)
                      /\ \A c \in chunks : Published(state) /\ c.off < state.offset
                      /\ ~run'.wraps
    OBVIOUS
  <2>1. \A c \in chunks : Published(state) /\ c.off < state.offset
    BY <1>5 DEF CalmInv, ChunksBelow
  <2>2. ~(Aead /\ state.enc /\ state.dk = Unreadable)
    BY KnownTypes, VerifyKeeps
  <2>3. state.dk # Unreadable
    BY <1>8, <2>2 DEF NoKey, Unreadable
  <2>4. Aead => state.enc
    BY <1>2, <2>1 DEF Migrates
  <2>5. Aead => Opens(state)
    <3>1. Keyed(state) /\ Published(state)
      BY <2>1 DEF CalmInv, CalmRun
    <3>2. state.dk \in Keys \cup {NoKey, Unreadable}
      BY KnownTypes, StateFields
    <3> QED
      BY <2>3, <2>4, <3>1, <3>2 DEF Opens, Keyed
  <2>6. ~run'.wraps
    BY <1>2, <1>4, <2>5
  <2> QED
    BY <1>2, <2>1, <2>3, <2>6
<1>15. ChunksBelow'
  <2>1. \A c \in chunks' : Published(saved)' /\ c.off < saved'.offset
    BY <1>1, SavedStill DEF CalmInv, ChunksBelow
  <2>2. ~run'.deleting => \A c \in chunks' : c.off < state'.offset
    BY <1>1, <1>14 DEF Same
  <2>3. ~run'.deleting => (run'.wraps => chunks' = {})
    BY <1>1, <1>14
  <2> QED
    BY <1>1, <2>1, <2>2, <2>3 DEF ChunksBelow, Verifying
<1>16. SealedBelow'
  <2>1. \A b \in sealed : b.dk \in Keys
    BY KnownTypes DEF RowInv
  <2>2. \A b \in sealed : b.dk = state'.dk => b.off < state'.offset
    <3>1. CASE run'.wraps
      BY <1>4, <3>1 DEF NewKey, KeysInUse
    <3>2. CASE ~run'.wraps /\ Aead
      BY <1>3, <1>5, <3>2 DEF CalmInv, SealedBelow, Verifying
    <3>3. CASE ~Aead
      BY <1>3, <1>8, <2>1, <3>3 DEF PublishConstants, NoKey
    <3> QED
      BY <3>1, <3>2, <3>3
  <2> QED
    BY <1>1, <2>2 DEF CalmInv, SealedBelow, AddressSealedOnce
<1>17. WrapFits'
  <2>1. Aead /\ ~run'.wraps => WrapOf(state)'
    <3> SUFFICES ASSUME Aead, ~run'.wraps
                 PROVE  WrapOf(state)'
      OBVIOUS
    <3>1. Opens(state) /\ state' = state /\ ~Doomed(state)
      BY <1>2, <1>3, <1>6
    <3> QED
      BY <1>1, <1>5, <3>1, WrapStill DEF CalmInv, WrapFits
  <2> QED
    BY <1>1, <1>5, <2>1, SavedStill, WrapStill DEF CalmInv, WrapFits, Verifying
<1> QED
  BY <1>13, <1>15, <1>16, <1>17 DEF CalmInv

LEMMA PlanCalm ==
  ASSUME PublishConstants, KnownInv, CalmInv, Plan
  PROVE  CalmInv'
<1>1. pc = "plan" /\ UNCHANGED <<transcript, epoch, saved, row, chunks, wrap, sealed>>
  BY PlanStepFacts DEF RunFields
<1>2. CASE End
  BY <1>1, <1>2, EndCalm
<1>3. CASE ~End
  <2>1. /\ pc' = (IF run.deleting THEN "delete" ELSE "register")
        /\ plan' = PlanChunks(state, run.size) /\ plan' # <<>> /\ UNCHANGED <<state, run>>
    BY <1>3, PlanStepFacts
  <2>2. Verified(state, run.size)
    BY <1>1, KnownTypes, Verdict DEF CalmInv, CalmRun, InRun
  <2>3. /\ \A i \in 1 .. Len(plan') : plan'[i].end <= Len(transcript)
        /\ plan'[1].off = PlanStart(state)
    BY <2>1, <2>2, KnownTypes, PlanPieces
  <2>4. state.start \in Nat /\ state.offset \in Nat
    BY KnownTypes, StateFields
  <2>5. state.offset <= plan'[1].off /\ plan'[1].off \in Nat
    BY <2>3, <2>4 DEF PlanStart, Most
  <2>6. CalmRun'
    BY <1>1, <2>1, <2>3, SavedStill, StateStill
       DEF CalmInv, CalmRun, Recovering, Planning, Sending, Verifying, Registering, InRun, Aead
  <2>7. /\ \A c \in chunks : c.off \in Nat
        /\ \A b \in sealed : b.off \in Nat
    BY KnownTypes DEF Chunk, TypeOK, HistoryTypeOK, Body
  <2>8. ChunksBelow'
    <3>1. ~run.deleting => \A c \in chunks : c.off < plan'[1].off
      BY <1>1, <2>4, <2>5, <2>7 DEF CalmInv, ChunksBelow
    <3> QED
      BY <1>1, <2>1, <3>1, SavedStill DEF CalmInv, ChunksBelow, Verifying
  <2>9. SealedBelow'
    <3>1. \A b \in sealed : b.dk = state.dk => b.off < plan'[1].off
      BY <1>1, <2>4, <2>5, <2>7 DEF CalmInv, SealedBelow
    <3> QED
      BY <1>1, <2>1, <3>1 DEF CalmInv, SealedBelow, AddressSealedOnce
  <2>10. WrapFits'
    BY <1>1, <2>1, SavedStill, StateStill, WrapStill
       DEF CalmInv, WrapFits, Verifying, Registering, Aead
  <2> QED
    BY <2>6, <2>8, <2>9, <2>10 DEF CalmInv
<1> QED
  BY <1>2, <1>3

LEMMA DeleteCalm ==
  ASSUME PublishConstants, KnownInv, CalmInv, Delete
  PROVE  CalmInv'
<1>1. /\ pc = "delete" /\ pc' = "register"
      /\ UNCHANGED <<transcript, epoch, saved, state, plan, run, sealed>>
      /\ chunks' = {} /\ row'.gen = row.gen /\ row'.enc = row.enc
  BY KnownTypes, DeleteFacts, DeletedFacts DEF RunFields
<1>2. run.deleting /\ (Aead => run.wraps) /\ (Aead' <=> Aead)
  BY <1>1 DEF CalmInv, CalmRun, Aead
<1>3. CalmRun'
  BY <1>1, <1>2, SavedStill, StateStill
     DEF CalmInv, CalmRun, Recovering, Planning, Sending, Verifying, Registering, InRun
<1>4. ChunksBelow'
  BY <1>1 DEF ChunksBelow
<1>5. SealedBelow'
  BY <1>1 DEF CalmInv, SealedBelow, AddressSealedOnce
<1>6. WrapFits'
  <2>1. Opens(saved)' => Doomed(saved)'
    <3>1. Opens(saved) => Doomed(saved)
      BY <1>1, <1>2 DEF CalmInv, CalmRun, Registering, InRun, Opens
    <3> QED
      BY <1>1, <3>1, SavedStill
  <2> QED
    BY <1>1, <1>2, <2>1 DEF WrapFits, Verifying
<1> QED
  BY <1>3, <1>4, <1>5, <1>6 DEF CalmInv

(* A registration moves the row's generation only for a new key, which finds *)
(* no chunk.                                                                 *)
LEMMA RegisterCalm ==
  ASSUME PublishConstants, KnownInv, CalmInv, Register
  PROVE  CalmInv'
<1>1. /\ pc = "register" /\ UNCHANGED <<transcript, epoch, saved, chunks, wrap, sealed>>
      /\ \/ End /\ row' = row
         \/ /\ row' = [status |-> "live", enc |-> row.enc \/ Aead,
                       gen |-> IF Aead THEN state.gen ELSE row.gen]
            /\ \/ run.wraps /\ pc' = "wrap" /\ UNCHANGED <<state, plan, run>>
               \/ ~run.wraps /\ EnterLoop
  BY RegisterFacts DEF RunFields
<1>2. CASE End /\ row' = row
  BY <1>1, <1>2, EndCalm
<1>3. CASE ~(End /\ row' = row)
  <2>1. /\ row'.status = "live" /\ row'.enc = (row.enc \/ Aead)
        /\ row'.gen = IF Aead THEN state.gen ELSE row.gen
        /\ pc' = (IF run.wraps THEN "wrap" ELSE "send") /\ run'.wraps = run.wraps
        /\ run'.mode = run.mode /\ UNCHANGED <<state, plan>>
    <3>1. ~run.wraps => /\ pc' = "send" /\ RunKept /\ ~run'.wraps /\ UNCHANGED <<state, plan>>
      BY <1>1, <1>3, KnownTypes, EnterFacts
    <3>2. run.wraps \in BOOLEAN
      BY KnownTypes DEF TypeOK, RunTypeOK
    <3>3. ~run.wraps => ~run'.wraps /\ run'.wraps = run.wraps
      <4>1. TypeOK'
        BY KnownTypes, NextType DEF Next, RunStep, TypeInv
      <4>2. run'.wraps \in BOOLEAN
        BY <4>1 DEF TypeOK, RunTypeOK
      <4> QED
        BY <3>1, <3>2, <4>2
    <3>4. run.wraps => pc' = "wrap" /\ UNCHANGED <<state, plan, run>>
      BY <1>1, <1>3
    <3> QED
      BY <1>1, <1>3, <3>1, <3>3, <3>4 DEF RunKept
  <2>2. Aead' <=> Aead
    BY <2>1 DEF Aead
  <2>3. ASSUME Aead, ~run.wraps
        PROVE  WrapOf(state) /\ row.enc /\ row'.gen = row.gen
    <3>1. WrapOf(state) /\ state.gen >= 1
      BY <1>1, <2>3 DEF CalmInv, WrapFits, CalmRun, Registering, Planning, Sending
    <3>2. ~row.enc => row.gen = 0
      BY DEF KnownInv, RowInv
    <3> QED
      BY <2>1, <2>3, <3>1, <3>2, KnownTypes DEF WrapOf
  <2>4. CalmRun'
    BY <1>1, <2>1, <2>2, SavedStill, StateStill
       DEF CalmInv, CalmRun, Recovering, Planning, Sending, Verifying, Registering, InRun, Live
  <2>5. ChunksBelow'
    BY <1>1, <2>1, SavedStill DEF CalmInv, ChunksBelow, Verifying
  <2>6. SealedBelow'
    BY <1>1, <2>1 DEF CalmInv, SealedBelow, AddressSealedOnce
  <2>7. WrapFits'
    <3>1. CASE run.wraps
      <4>1. chunks' = {} /\ Aead
        BY <1>1, <3>1, KnownTypes DEF CalmInv, ChunksBelow, TypeInv, KeyInv
      <4>2. Opens(saved)' => Doomed(saved)'
        BY <1>1, <3>1, SavedStill DEF CalmInv, CalmRun, Registering
      <4> QED
        BY <2>1, <3>1, <4>1, <4>2 DEF WrapFits, Verifying, Registering
    <3>2. CASE ~run.wraps /\ Aead
      <4>1. /\ row'.gen = row.gen /\ row'.enc = row.enc /\ row.enc
            /\ WrapOf(saved)' <=> WrapOf(saved)
            /\ WrapOf(state)' <=> WrapOf(state)
        BY <1>1, <2>1, <2>3, <3>2, KnownTypes DEF WrapOf
      <4> QED
        BY <1>1, <2>1, <2>3, <3>2, <4>1, SavedStill
           DEF CalmInv, WrapFits, Verifying, Registering
    <3>3. CASE ~Aead
      <4>1. /\ row'.gen = row.gen /\ row'.enc = row.enc
            /\ WrapOf(saved)' <=> WrapOf(saved)
        BY <1>1, <2>1, <3>3, KnownTypes DEF WrapOf
      <4> QED
        BY <1>1, <2>1, <2>2, <3>3, <4>1, SavedStill
           DEF CalmInv, WrapFits, Verifying, Registering
    <3> QED
      BY <3>1, <3>2, <3>3
  <2> QED
    BY <2>4, <2>5, <2>6, <2>7 DEF CalmInv
<1> QED
  BY <1>2, <1>3

LEMMA WrapCalm ==
  ASSUME PublishConstants, KnownInv, CalmInv, PutWraps
  PROVE  CalmInv'
<1>1. /\ pc = "wrap" /\ UNCHANGED <<transcript, epoch, saved, row, chunks, sealed>>
      /\ \/ End /\ wrap' = wrap
         \/ /\ EnterLoop
            /\ wrap' = IF state.gen >= wrap.gen THEN [gen |-> state.gen, dk |-> state.dk]
                                                ELSE wrap
  BY WrapFacts DEF RunFields
<1>2. CASE End /\ wrap' = wrap
  BY <1>1, <1>2, EndCalm
<1>3. CASE ~(End /\ wrap' = wrap)
  <2>1. pc' = "send" /\ UNCHANGED <<state, plan>> /\ run'.mode = run.mode
    BY <1>1, <1>3, KnownTypes, EnterFacts DEF RunKept
  <2>2. run.wraps /\ Aead /\ (Aead' <=> Aead) /\ Live
    BY <1>1, <2>1, KnownTypes DEF RowInv, TypeInv, KeyInv, CalmInv, CalmRun, Aead
  <2>3. state.gen = row.gen /\ wrap.gen <= row.gen
    BY <1>1, <2>2, KnownTypes DEF RowInv
  <2>4. WrapOf(state)'
    <3>1. state.gen >= wrap.gen
      BY <2>3, KnownTypes DEF TypeOK, StoreTypeOK
    <3> QED
      BY <1>1, <1>3, <2>1, <2>3, <3>1 DEF WrapOf
  <2>5. CalmRun'
    BY <1>1, <2>1, <2>2, SavedStill, StateStill
       DEF CalmInv, CalmRun, Recovering, Planning, Sending, Verifying, Registering, InRun, Live
  <2>6. chunks = {}
    BY <1>1, <2>2 DEF CalmInv, ChunksBelow
  <2>7. ChunksBelow'
    BY <1>1, <2>6 DEF ChunksBelow
  <2>8. SealedBelow'
    BY <1>1, <2>1 DEF CalmInv, SealedBelow, AddressSealedOnce
  <2>9. WrapFits'
    <3>1. Opens(saved)' => Doomed(saved)'
      BY <1>1, <2>2, SavedStill DEF CalmInv, CalmRun
    <3> QED
      BY <1>1, <2>1, <2>4, <2>6, <3>1 DEF WrapFits, Verifying, Registering
  <2> QED
    BY <2>5, <2>7, <2>8, <2>9 DEF CalmInv
<1> QED
  BY <1>2, <1>3

(* A run that encrypts sends exactly what it planned, at a place nothing was *)
(* encrypted for under its key.                                              *)
LEMMA SendCalm ==
  ASSUME PublishConstants, KnownInv, CalmInv, Send
  PROVE  CalmInv'
<1>1. /\ pc = "send" /\ UNCHANGED <<transcript, epoch, saved, row, wrap>>
      /\ sealed' = IF Aead THEN sealed \cup {BodyOf(ReadNow)} ELSE sealed
  BY KnownTypes, SendFacts DEF RunFields
<1>2. plan # <<>>
  BY <1>1, KnownTypes DEF PlanInv, Sending
<1>3. /\ Head(plan) = plan[1] /\ 1 \in 1 .. Len(plan)
      /\ Head(plan).off \in Nat /\ Head(plan).end \in Nat
  BY <1>2, KnownTypes, HeadPiece
<1>4. Head(plan).off < Head(plan).end /\ Head(plan).end <= Len(transcript)
  BY <1>1, <1>3, KnownTypes DEF BytesInv, PlanKnown, CalmInv, CalmRun, Sending
<1>5. \A d \in chunks : d.off < Head(plan).off /\ d.off # Head(plan).off
  BY <1>1, <1>3, KnownTypes DEF CalmInv, ChunksBelow, Chunk
<1>6. pc' # "conflict"
  BY <1>5, KnownTypes, SendFacts DEF End
<1>7. Aead => pc' = "save"
  <2> SUFFICES ASSUME Aead, End
               PROVE  FALSE
    BY <1>6, KnownTypes, SendFacts
  <2>1. Live /\ row.enc
    BY <1>1, KnownTypes DEF CalmInv, CalmRun, RowInv
  <2>2. Len(ReadNow) = Head(plan).end - Head(plan).off
    <3>1. Len(transcript) \in Nat
      BY KnownTypes
    <3>2. Least(Head(plan).end, Len(transcript)) = Head(plan).end
      BY <1>3, <1>4, <3>1 DEF Least
    <3> QED
      BY <1>3, <1>4, <3>2, KnownTypes, RangeElements DEF ReadNow
  <2>3. pc' \in {"save", "conflict"}
    BY <1>5, <2>1, <2>2 DEF Send, ReadNow, Goto
  <2> QED
    BY <2>3 DEF End
<1>8. CASE End /\ chunks' = chunks
  <2>1. ~Aead
    BY <1>7, <1>8 DEF End
  <2> QED
    BY <1>1, <1>8, <2>1, EndCalm
<1>9. CASE ~(End /\ chunks' = chunks)
  <2> DEFINE n == [off |-> Head(plan).off, end |-> Head(plan).end, body |-> BodyOf(ReadNow)]
  <2>1. /\ pc' = "save" /\ row.enc = Aead /\ chunks' = chunks \cup {n}
        /\ UNCHANGED <<state, plan>> /\ RunKept /\ Live
    BY <1>5, <1>6, <1>9, KnownTypes, SendFacts
  <2>2. Aead' <=> Aead
    BY <2>1 DEF Aead, RunKept
  <2>3. CalmRun'
    BY <1>1, <2>1, <2>2, SavedStill, StateStill
       DEF CalmInv, CalmRun, Recovering, Planning, Sending, Verifying, Registering, InRun, Live
  <2>4. n.off = Head(plan).off /\ n.body = BodyOf(ReadNow)
    OBVIOUS
  <2>5. Aead => /\ BodyOf(ReadNow).dk = state.dk /\ BodyOf(ReadNow).gen = state.gen
                /\ BodyOf(ReadNow).off = Head(plan).off
    BY DEF BodyOf, Seal
  <2> HIDE DEF n
  <2>6. ChunksBelow'
    <3>1. \A c \in chunks' : c.off <= plan'[1].off
      BY <1>3, <1>5, <2>1, <2>4, KnownTypes DEF Chunk
    <3> QED
      BY <2>1, <3>1 DEF ChunksBelow, Verifying
  <2>7. SealedBelow'
    <3>1. /\ \A b \in sealed : b.dk = state.dk => b.off < Head(plan).off
          /\ AddressSealedOnce
      BY <1>1, <1>3 DEF CalmInv, SealedBelow
    <3>2. \A b \in sealed : b.off \in Nat
      BY KnownTypes DEF TypeOK, HistoryTypeOK, Body
    <3>3. \A b \in sealed' : b \in sealed \/ (Aead /\ b = BodyOf(ReadNow))
      BY <1>1
    <3>4. \A b \in sealed' : b.dk = state.dk => b.off <= plan'[1].off
      BY <1>3, <2>1, <2>5, <3>1, <3>2, <3>3
    <3>5. AddressSealedOnce'
      <4> SUFFICES ASSUME NEW b \in sealed', NEW d \in sealed',
                          b.dk = d.dk, b.gen = d.gen, b.off = d.off
                   PROVE  b = d
        BY DEF AddressSealedOnce
      <4>1. CASE b \in sealed /\ d \in sealed
        BY <3>1, <4>1 DEF AddressSealedOnce
      <4>2. CASE Aead /\ b = BodyOf(ReadNow) /\ d \in sealed
        BY <1>3, <2>5, <3>1, <3>2, <4>2
      <4>3. CASE Aead /\ d = BodyOf(ReadNow) /\ b \in sealed
        BY <1>3, <2>5, <3>1, <3>2, <4>3
      <4> QED
        BY <3>3, <4>1, <4>2, <4>3
    <3> QED
      BY <2>1, <3>4, <3>5 DEF SealedBelow
  <2>8. WrapFits'
    <3>1. Aead => WrapOf(state) /\ WrapOf(state)'
      BY <1>1, <2>1, WrapStill DEF CalmInv, WrapFits
    <3>2. row'.enc => \A c \in chunks' : /\ c.body.gen = row'.gen
                                         /\ wrap' = [gen |-> row'.gen, dk |-> c.body.dk]
      <4> SUFFICES ASSUME Aead, NEW c \in chunks'
                   PROVE  c.body.gen = row.gen /\ wrap = [gen |-> row.gen, dk |-> c.body.dk]
        BY <1>1, <2>1
      <4>1. CASE c \in chunks
        BY <2>1, <4>1 DEF CalmInv, WrapFits
      <4>2. CASE c = n
        BY <2>4, <2>5, <3>1, <4>2 DEF WrapOf
      <4> QED
        BY <2>1, <4>1, <4>2
    <3>3. Opens(saved)' => Doomed(saved)' \/ WrapOf(saved)'
      BY <1>1, SavedStill, WrapStill DEF CalmInv, WrapFits
    <3> QED
      BY <2>1, <2>2, <3>1, <3>2, <3>3 DEF WrapFits, Verifying, Registering
  <2> QED
    BY <2>3, <2>6, <2>7, <2>8 DEF CalmInv
<1> QED
  BY <1>8, <1>9

LEMMA SaveCalm ==
  ASSUME PublishConstants, KnownInv, CalmInv, Save
  PROVE  CalmInv'
<1>1. /\ pc = "save" /\ pc' = (IF Len(plan) = 1 THEN "done" ELSE "send")
      /\ saved' = state' /\ state'.offset = Head(plan).end
      /\ state'.enc = state.enc /\ state'.gen = state.gen /\ state'.dk = state.dk
      /\ plan' = Tail(plan) /\ run'.mode = run.mode
      /\ UNCHANGED <<transcript, epoch, row, chunks, wrap, sealed>>
  BY KnownTypes, SaveFacts DEF RunKept, RunFields
<1>2. /\ Published(state') /\ Published(saved')
      /\ plan # <<>> /\ 1 \in 1 .. Len(plan) /\ Head(plan) = plan[1]
      /\ Head(plan).off \in Nat /\ Head(plan).end \in Nat /\ Head(plan).off < Head(plan).end
  BY SavePublishes
<1>3. (Aead' <=> Aead) /\ Live
  BY <1>1 DEF Aead, CalmInv, CalmRun
<1>4. \A i \in 1 .. Len(Tail(plan)) :
        /\ i + 1 \in 1 .. Len(plan) /\ Tail(plan)[i] = plan[i + 1]
  BY <1>2, KnownTypes, TailPieces
<1>5. pc' = "send" => Tail(plan)[1].off = Head(plan).end
  <2> SUFFICES ASSUME Len(plan) # 1
               PROVE  Tail(plan)[1].off = plan[1].end
    BY <1>1, <1>2
  <2>1. 1 \in 1 .. Len(Tail(plan)) /\ 1 < Len(plan)
    BY <1>2, KnownTypes, TailPieces
  <2>2. Tail(plan)[1] = plan[1 + 1]
    BY <1>4, <2>1
  <2> QED
    BY <1>1, <1>2, <2>1, <2>2, KnownTypes DEF BytesInv, PlanKnown, Sending
<1>6. Aead => state.enc /\ state.gen >= 1 /\ state.dk \in Keys /\ WrapOf(state)
  BY <1>1, KnownTypes
     DEF TypeInv, KeyInv, RowInv, CalmInv, CalmRun, WrapFits, Planning, Sending
<1>7. ~Aead => ~state.enc
  BY DEF KnownInv, RowInv
<1>8. CalmRun'
  <2>1. Keyed(state)' /\ Keyed(saved)'
    BY <1>1, <1>6, <1>7 DEF Keyed, PublishConstants, NoKey
  <2>2. \A i \in 1 .. Len(plan') : plan'[i].end <= Len(transcript')
    BY <1>1, <1>4 DEF CalmInv, CalmRun, Sending
  <2> QED
    BY <1>1, <1>3, <1>6, <1>7, <2>1, <2>2
       DEF CalmRun, Recovering, Planning, Sending, Verifying, Registering, InRun, Live
<1>9. ChunksBelow'
  <2>1. \A c \in chunks : c.off < Head(plan).end
    BY <1>1, <1>2, KnownTypes DEF CalmInv, ChunksBelow, Chunk
  <2> QED
    BY <1>1, <1>2, <1>5, <2>1 DEF ChunksBelow, Verifying, Published
<1>10. SealedBelow'
  <2>1. \A b \in sealed : b.dk = state.dk => b.off < Head(plan).end
    <3>1. \A b \in sealed : b.off \in Nat
      BY KnownTypes DEF TypeOK, HistoryTypeOK, Body
    <3> QED
      BY <1>1, <1>2, <3>1 DEF CalmInv, SealedBelow
  <2> QED
    BY <1>1, <1>5, <2>1 DEF CalmInv, SealedBelow, AddressSealedOnce
<1>11. WrapFits'
  <2>1. Opens(saved)' => WrapOf(saved)'
    BY <1>1, <1>6, <1>7 DEF Opens, WrapOf
  <2>2. Aead => WrapOf(state)'
    BY <1>1, <1>6 DEF WrapOf
  <2> QED
    BY <1>1, <1>3, <2>1, <2>2 DEF CalmInv, WrapFits, Verifying, Registering
<1> QED
  BY <1>8, <1>9, <1>10, <1>11 DEF CalmInv

LEMMA RunCalm ==
  ASSUME PublishConstants, KnownInv, CalmInv, "crossed" \notin mishaps,
         (\E mode \in Modes : Begin(mode)) \/ RunStep
  PROVE  CalmInv'
<1>1. CASE \E mode \in Modes : Begin(mode)
  BY <1>1, BeginCalm
<1>2. CASE Return
  BY <1>2, ReturnFacts, EndCalm DEF RunFields
<1>3. ~(Conflict \/ Replace \/ Resave \/ Replan)
  BY DEF CalmInv, CalmRun, Recovering, Conflict, Replace, Resave, Replan
<1> QED
  BY <1>1, <1>2, <1>3, ReconcileCalm, VerifyCalm, PlanCalm, DeleteCalm, RegisterCalm, WrapCalm,
     SendCalm, SaveCalm DEF RunStep

(* An append breaks nothing that was not broken.                             *)
LEMMA AppendKeeps ==
  ASSUME NEW t \in Seq(Nat), NEW e \in Nat, NEW bytes \in Seq(Nat), NEW base \in Nat,
         Broken(bytes, base, Append(t, e), e)
  PROVE  Broken(bytes, base, t, e)
<1>1. PICK k \in 1 .. Len(bytes) :
        bytes[k] < e /\ ~(base + k <= Len(Append(t, e)) /\ Append(t, e)[base + k] = bytes[k])
  BY DEF Broken
<1>2. base + k \in Nat /\ base + k >= 1 /\ Len(t) \in Nat
  OBVIOUS
<1>3. ASSUME base + k <= Len(t)
      PROVE  Append(t, e)[base + k] = t[base + k] /\ base + k <= Len(Append(t, e))
  BY <1>2, <1>3
<1>4. ~(base + k <= Len(t) /\ t[base + k] = bytes[k])
  BY <1>1, <1>3
<1> QED
  BY <1>1, <1>4 DEF Broken

LEMMA AppendDooms ==
  ASSUME KnownInv, transcript' = Append(transcript, epoch), epoch' = epoch, UNCHANGED state,
         Doomed(state)'
  PROVE  Doomed(state)
<1>1. /\ state.digest \in Seq(Nat) /\ state.prefix \in Seq(Nat) /\ state.start \in Nat
      /\ transcript \in Seq(Nat) /\ epoch \in Nat
  BY KnownTypes, StateFields
<1>2. DoomedIn(state, Append(transcript, epoch), epoch)
  BY DEF Doomed
<1>3. /\ Broken(state.digest, state.start, Append(transcript, epoch), epoch)
           => Broken(state.digest, state.start, transcript, epoch)
      /\ Broken(state.prefix, 0, Append(transcript, epoch), epoch)
           => Broken(state.prefix, 0, transcript, epoch)
  BY <1>1, AppendKeeps
<1> QED
  BY <1>2, <1>3 DEF Doomed, DoomedIn

(* An edit of the transcript outside of a run, or an append.                 *)
LEMMA EditCalm ==
  ASSUME PublishConstants, KnownInv, CalmInv, mishaps' \cap Unsettled = {},
         Grow \/ (\E head, tail \in 0 .. MaxLength : Rewrite(head, tail))
  PROVE  CalmInv'
<1>1. /\ FileMoves(transcript, epoch, transcript', epoch')
      /\ \/ transcript' = Append(transcript, epoch) /\ epoch' = epoch
         \/ pc = "idle"
      /\ UNCHANGED <<saved, row, chunks, wrap, sealed>> /\ Idle
  BY KnownTypes, EditFacts DEF InRun, Unsettled
<1>2. UNCHANGED <<pc, state, plan, run>>
  BY <1>1 DEF Idle
<1>3. /\ Doomed(saved) => Doomed(saved)'
      /\ Doomed(state) => Doomed(state)'
  BY <1>1, KnownTypes, FileMovesBytes
<1>4. pc # "idle" => (Doomed(state)' => Doomed(state)) /\ Len(transcript) <= Len(transcript')
  BY <1>1, <1>2, KnownTypes, AppendDooms
<1>5. /\ (Opens(saved)' <=> Opens(saved)) /\ (Opens(state)' <=> Opens(state))
      /\ (Keyed(saved)' <=> Keyed(saved)) /\ (Keyed(state)' <=> Keyed(state))
      /\ (Published(saved)' <=> Published(saved)) /\ (Published(state)' <=> Published(state))
      /\ (Aead' <=> Aead) /\ (InRun' <=> InRun) /\ (Live' <=> Live)
  BY <1>1, <1>2 DEF Opens, Keyed, Published, Aead, InRun, Live
<1>6. CalmRun'
  <2>1. pc \in Sending => \A i \in 1 .. Len(plan') : plan'[i].end <= Len(transcript')
    <3> SUFFICES ASSUME pc \in Sending, NEW i \in 1 .. Len(plan)
                 PROVE  plan[i].end <= Len(transcript')
      BY <1>2
    <3>1. plan[i].end <= Len(transcript) /\ Len(transcript) <= Len(transcript')
      BY <1>4 DEF CalmInv, CalmRun, Sending
    <3>2. plan[i] \in PieceType
      BY KnownTypes
    <3>3. transcript' \in Seq(Nat)
      BY <1>1, KnownTypes, FileFacts
    <3> QED
      BY <3>1, <3>2, <3>3, KnownTypes DEF PieceType
  <2> QED
    BY <1>1, <1>2, <1>3, <1>4, <1>5, <2>1 DEF CalmInv, CalmRun
<1>7. ChunksBelow'
  BY <1>1, <1>2, <1>5 DEF CalmInv, ChunksBelow
<1>8. SealedBelow'
  BY <1>1, <1>2 DEF CalmInv, SealedBelow, AddressSealedOnce
<1>9. WrapFits'
  BY <1>1, <1>2, <1>3, <1>5, WrapStill DEF CalmInv, WrapFits
<1> QED
  BY <1>6, <1>7, <1>8, <1>9 DEF CalmInv

(* The state file changes in a way that nothing will be resumed under its    *)
(* key, or only its watermark does, where nothing is published.              *)
LEMMA SavedCalm ==
  ASSUME PublishConstants, KnownInv, CalmInv,
         UNCHANGED <<transcript, epoch, row, chunks, wrap, sealed>>, Idle,
         \/ /\ saved'.dk = Unreadable /\ Same(saved', saved) /\ saved'.enc = saved.enc
            /\ saved'.gen = saved.gen
         \/ /\ pc = "idle" /\ ~Published(saved) /\ ~Published(saved')
            /\ saved'.offset = saved.offset /\ saved'.enc = saved.enc
            /\ saved'.gen = saved.gen /\ saved'.dk = saved.dk
         \/ saved' = saved
  PROVE  CalmInv'
<1>1. UNCHANGED <<pc, state, plan, run>>
  BY DEF Idle
<1>2. /\ (Opens(state)' <=> Opens(state)) /\ (Doomed(state)' <=> Doomed(state))
      /\ (Keyed(state)' <=> Keyed(state)) /\ (Published(state)' <=> Published(state))
      /\ (Aead' <=> Aead) /\ (InRun' <=> InRun) /\ (Live' <=> Live)
  BY <1>1, StateStill DEF Aead, InRun, Live
<1>3. /\ Opens(saved)' => Opens(saved)
      /\ Opens(saved)' => saved' = saved \/ pc = "idle"
      /\ Opens(saved)' => saved'.gen = saved.gen /\ saved'.dk = saved.dk
  <2>1. Unreadable \notin Keys
    BY DEF PublishConstants, Unreadable
  <2> QED
    BY <2>1 DEF Opens
<1>4. Opens(saved)' /\ Doomed(saved) => Doomed(saved)'
  <2>1. ~Published(saved) => ~Doomed(saved)
    BY DEF Doomed, DoomedIn
  <2>2. saved' = saved => (Doomed(saved) => Doomed(saved)')
    BY SavedStill
  <2>3. saved'.dk = Unreadable => ~Opens(saved)'
    BY DEF Opens, PublishConstants, Unreadable
  <2> QED
    BY <2>1, <2>2, <2>3
<1>5. Keyed(saved)'
  <2>1. Keyed(saved)
    BY DEF CalmInv, CalmRun
  <2>2. CASE saved'.dk = Unreadable /\ Same(saved', saved) /\ saved'.enc = saved.enc
             /\ saved'.gen = saved.gen
    BY <2>1, <2>2 DEF Keyed, Same, Published, Unreadable, NoKey
  <2>3. CASE ~Published(saved')
    BY <2>3 DEF Keyed, Published
  <2>4. CASE saved' = saved
    BY <2>1, <2>4, SavedStill
  <2> QED
    BY <2>2, <2>3, <2>4
<1>6. CalmRun'
  BY <1>1, <1>2, <1>3, <1>4, <1>5 DEF CalmInv, CalmRun, Verifying, Registering
<1>7. ChunksBelow'
  <2>1. Published(saved) => Published(saved') /\ saved'.offset = saved.offset
    BY DEF Same, Published
  <2> QED
    BY <1>1, <1>2, <2>1 DEF CalmInv, ChunksBelow
<1>8. SealedBelow'
  <2>1. \A b \in sealed : b.dk # Unreadable
    BY KnownTypes DEF RowInv, PublishConstants, Unreadable
  <2> QED
    BY <1>1, <2>1 DEF CalmInv, SealedBelow, AddressSealedOnce
<1>9. WrapFits'
  <2>1. Opens(saved)' /\ WrapOf(saved) => WrapOf(saved)'
    BY <1>3 DEF WrapOf
  <2> QED
    BY <1>1, <1>2, <1>3, <1>4, <2>1, WrapStill DEF CalmInv, WrapFits
<1> QED
  BY <1>6, <1>7, <1>8, <1>9 DEF CalmInv

LEMMA EnvironmentCalm ==
  ASSUME PublishConstants, KnownInv, CalmInv, Environment, mishaps' \cap Unsettled = {}
  PROVE  CalmInv'
<1>1. "unsaved" \notin mishaps' /\ "lost" \notin mishaps' /\ "crossed" \notin mishaps'
  BY DEF Unsettled
<1>2. CASE Grow \/ (\E head, tail \in 0 .. MaxLength : Rewrite(head, tail))
  BY <1>2, EditCalm
<1>3. CASE EndEarly
  BY <1>1, <1>3, EndEarlyFacts, EndCalm
<1>4. CASE LoseState
  BY <1>1, <1>4, LoseFacts
<1>5. CASE SpoilKey
  BY <1>5, KnownTypes, SpoilFacts, SavedCalm
<1>6. CASE Unpublish
  <2>1. /\ pc = "idle" /\ Idle /\ saved' = Fresh /\ chunks' = {}
        /\ UNCHANGED <<transcript, epoch, sealed>>
    BY <1>1, <1>6, KnownTypes, UnpublishFacts, DeletedFacts DEF InRun
  <2>2. pc' = "idle" /\ UNCHANGED state
    BY <2>1 DEF Idle
  <2>3. ~Opens(saved)' /\ Keyed(saved)'
    BY <2>1 DEF Opens, Keyed, Published, Fresh
  <2>4. CalmRun'
    BY <2>1, <2>2, <2>3, StateStill
       DEF CalmInv, CalmRun, Recovering, Planning, Sending, Verifying, Registering, InRun
  <2>5. ChunksBelow'
    BY <2>1 DEF ChunksBelow
  <2>6. SealedBelow'
    <3>1. \A b \in sealed : b.dk # saved'.dk
      BY <2>1, KnownTypes DEF RowInv, PublishConstants, NoKey, Fresh
    <3> QED
      BY <2>1, <2>2, <3>1 DEF CalmInv, SealedBelow, AddressSealedOnce
  <2>7. WrapFits'
    BY <2>1, <2>2, <2>3 DEF WrapFits, Verifying, Registering
  <2> QED
    BY <2>4, <2>5, <2>6, <2>7 DEF CalmInv
<1>7. CASE ShareOff \/ ShareOn
  <2>1. /\ UNCHANGED <<transcript, epoch, row, chunks, wrap, sealed>> /\ Idle /\ pc = "idle"
        /\ \/ saved' = saved
           \/ /\ ~Published(saved)
              /\ saved'.start = Len(transcript) /\ saved'.offset = saved.offset
              /\ saved'.digest = saved.digest /\ saved'.prefix = saved.prefix
              /\ saved'.enc = saved.enc /\ saved'.gen = saved.gen /\ saved'.dk = saved.dk
    BY <1>1, <1>7, KnownTypes, ShareFacts DEF InRun
  <2>2. Len(transcript) \in Nat /\ StateKnownIn(saved, transcript, epoch)
    BY KnownTypes DEF BytesInv, StatesKnown
  <2>3. ~Published(saved) /\ saved' # saved => ~Published(saved')
    BY <2>1, <2>2, KnownTypes, MovedMark
  <2> QED
    BY <2>1, <2>3, SavedCalm
<1> QED
  BY <1>2, <1>3, <1>4, <1>5, <1>6, <1>7 DEF Environment

CalmSafe == KnownInv /\ Unless(Unsettled, CalmInv)

LEMMA CalmSafeInductive ==
  ASSUME PublishConstants
  PROVE  /\ Init => CalmSafe
         /\ CalmSafe /\ [Next]_vars => CalmSafe'
<1>1. Init => CalmSafe
  <2>1. Init => CalmInv
    <3> SUFFICES ASSUME Init
                 PROVE  CalmInv
      OBVIOUS
    <3>1. /\ pc = "idle" /\ chunks = {} /\ sealed = {} /\ row.enc = FALSE
          /\ ~saved.enc /\ ~state.enc
      BY DEF Init, Fresh
    <3>2. Keyed(saved) /\ Keyed(state) /\ ~Opens(saved)
      BY <3>1 DEF Keyed, Opens
    <3> QED
      BY <3>1, <3>2
         DEF CalmInv, CalmRun, ChunksBelow, SealedBelow, AddressSealedOnce, WrapFits,
             Recovering, Planning, Sending, Verifying, Registering, InRun
  <2> QED
    BY <2>1, KnownInvInductive DEF CalmSafe, Unless
<1>2. ASSUME CalmSafe, [Next]_vars
      PROVE  CalmSafe'
  <2>1. KnownInv /\ KnownInv' /\ TypeOK
    BY <1>2, KnownTypes, KnownInvInductive DEF CalmSafe
  <2>2. mishaps \subseteq mishaps'
    BY <1>2, <2>1, MishapsStay
  <2>3. ASSUME mishaps' \cap Unsettled = {}
        PROVE  CalmInv'
    <3>1. CalmInv /\ "crossed" \notin mishaps
      BY <1>2, <2>2, <2>3 DEF CalmSafe, Unless, Unsettled
    <3>2. CASE UNCHANGED vars
      <4>1. /\ UNCHANGED <<transcript, epoch, saved, row, chunks, wrap, sealed>> /\ Idle
        BY <3>2 DEF vars, file, store, local, history, Idle
      <4> QED
        BY <2>1, <3>1, <4>1, SavedCalm
    <3>3. CASE (\E mode \in Modes : Begin(mode)) \/ RunStep
      BY <2>1, <3>1, <3>3, RunCalm
    <3>4. CASE Environment
      BY <2>1, <2>3, <3>1, <3>4, EnvironmentCalm
    <3> QED
      BY <1>2, <3>2, <3>3, <3>4 DEF Next, RunStep, Environment
  <2> QED
    BY <2>1, <2>3 DEF CalmSafe, Unless
<1> QED
  BY <1>1, <1>2

(* "Encrypting *different* plaintext at a seen offset under this DK": R1     *)
(* makes it unreachable, for every chunk size and transcript, through edits  *)
(* between runs, migrations, rotations and unpublishes, as long as the state *)
(* file knows of every chunk.                                                *)
THEOREM AddressAlways == Spec => []AddressUnlessUnsaved
<1>1. CalmSafe => AddressUnlessUnsaved
  BY DEF CalmSafe, CalmInv, SealedBelow, AddressUnlessUnsaved, Unless, Unsettled
<1> QED
  BY <1>1, PublishConstants, CalmSafeInductive, PTL DEF Spec

(* "Wraps land before the first ciphertext byte": whatever chunk of an       *)
(* encrypted session a puller sees, the wrap in the store is of its key.     *)
THEOREM StoreDecryptsAlways == Spec => []StoreDecryptsUnlessUnsaved
<1>1. CalmSafe => StoreDecryptsUnlessUnsaved
  <2> SUFFICES ASSUME CalmSafe, mishaps \cap Unsettled = {}
               PROVE  StoreDecrypts
    BY DEF StoreDecryptsUnlessUnsaved, Unless, Unsettled
  <2>1. WrapFits
    BY DEF CalmSafe, CalmInv, Unless
  <2> QED
    BY <2>1 DEF WrapFits, StoreDecrypts, Remote
<1> QED
  BY <1>1, PublishConstants, CalmSafeInductive, PTL DEF Spec

-----------------------------------------------------------------------------
(* No plaintext beside an encrypted copy                                    *)

Unaware == {"unsaved", "lost"}

(* A run that encrypts finds plaintext chunks only where its state knows of  *)
(* them, and then it migrates: it deletes them before it registers.          *)
PlainInv ==
    /\ chunks # {} => Published(saved) \/ pc = "save"
    /\ row.enc => \A c \in chunks : c.body.dk # NoKey
    /\ Aead /\ ~row.enc /\ chunks # {} =>
         /\ pc \in {"verify", "plan", "delete"}
         /\ pc = "verify" => Published(state) /\ ~state.enc
         /\ pc \in {"plan", "delete"} => run.deleting
    /\ pc = "delete" => run.deleting
    /\ pc = "resave" => Published(state) \/ chunks = {}

LEMMA EndPlain ==
  ASSUME PlainInv, End, pc # "save", UNCHANGED <<saved, row, chunks>>
  PROVE  PlainInv'
BY DEF PlainInv, End, NoRun, Aead

LEMMA RunPlain ==
  ASSUME PublishConstants, KnownInv, PlainInv,
         (\E mode \in Modes : Begin(mode)) \/ RunStep
  PROVE  PlainInv'
<1>1. TypeOK /\ TypeInv /\ PlanInv /\ BytesInv /\ ByteInv /\ RowInv
  BY KnownTypes
<1>2. CASE \E mode \in Modes : Begin(mode)
  <2>1. PICK mode \in Modes : Begin(mode)
    BY <1>2
  <2>2. /\ pc = "idle" /\ state' = saved
        /\ pc' = IF Published(saved) THEN "verify" ELSE "reconcile"
        /\ UNCHANGED <<saved, row, chunks>>
    BY <2>1, BeginFacts
  <2>3. ~row.enc => ~saved.enc
    BY <1>1 DEF RowInv
  <2> QED
    BY <2>2, <2>3 DEF PlainInv
<1>3. CASE Reconcile
  <2>1. pc \in Reading /\ UNCHANGED <<saved, row, chunks>>
    BY <1>1, <1>3, ReconcileFacts
  <2>2. CASE End
    BY <2>1, <2>2, EndPlain DEF Reading
  <2>3. CASE ~End
    <3>1. /\ run'.mode = run.mode
          /\ \/ pc' = pc
             \/ pc' = IF pc = "reconcile" THEN "verify"
                      ELSE IF state'.offset <= state.offset THEN "replace" ELSE "resave"
          /\ state' = state \/ Published(state')
      BY <1>1, <1>3, <2>3, ReconcileEffect DEF OnlyLooks
    <3>2. state'.offset <= state.offset \/ state' # state
      BY KnownTypes, StateFields
    <3>3. pc' # "delete" /\ (pc' = "resave" => Published(state'))
      BY <2>1, <3>1, <3>2 DEF Reading
    <3>4. ~(Aead /\ ~row.enc /\ chunks # {})
      BY <2>1 DEF PlainInv, Reading
    <3>5. pc' # "save" /\ pc # "save"
      BY <2>1, <3>1 DEF Reading
    <3> QED
      BY <2>1, <3>1, <3>3, <3>4, <3>5 DEF PlainInv, Aead
  <2> QED
    BY <2>2, <2>3
<1>4. CASE Verify
  <2>1. /\ pc = "verify" /\ pc' = "plan" /\ UNCHANGED <<saved, row, chunks>>
        /\ run' = [run EXCEPT !.deleting = run'.deleting, !.wraps = run'.wraps]
        /\ run'.deleting \in BOOLEAN
        /\ ~run'.deleting => ~Migrates(state)
    BY <1>1, <1>4, VerifyFacts
  <2>2. run'.mode = run.mode
    BY <1>1, <2>1 DEF TypeOK, RunTypeOK
  <2> QED
    BY <2>1, <2>2 DEF PlainInv, Aead, Migrates
<1>5. CASE Plan
  <2>1. pc = "plan" /\ UNCHANGED <<saved, row, chunks>>
    BY <1>5, PlanStepFacts
  <2>2. CASE End
    BY <2>1, <2>2, EndPlain
  <2>3. CASE ~End
    <3>1. /\ pc' = (IF run.deleting THEN "delete" ELSE "register")
          /\ UNCHANGED <<state, run>>
      BY <1>5, <2>3, PlanStepFacts
    <3> QED
      BY <2>1, <3>1 DEF PlainInv, Aead
  <2> QED
    BY <2>2, <2>3
<1>6. CASE Delete
  <2>1. pc' = "register" /\ chunks' = {}
    BY <1>1, <1>6, DeleteFacts, DeletedFacts
  <2> QED
    BY <2>1 DEF PlainInv
<1>7. CASE Register
  <2>1. pc = "register" /\ UNCHANGED <<saved, chunks>>
    BY <1>7, RegisterFacts
  <2>2. CASE End /\ row' = row
    BY <2>1, <2>2, EndPlain
  <2>3. CASE ~(End /\ row' = row)
    <3>1. /\ row'.enc = (row.enc \/ Aead)
          /\ (pc' = "wrap" /\ run' = run) \/ EnterLoop
      BY <1>7, <2>3, RegisterFacts
    <3>2. pc' \in {"wrap", "send"} /\ run'.mode = run.mode
      BY <1>1, <3>1, EnterFacts DEF RunKept
    <3> QED
      BY <2>1, <3>1, <3>2 DEF PlainInv, Aead
  <2> QED
    BY <2>2, <2>3
<1>8. CASE PutWraps
  <2>1. pc = "wrap" /\ UNCHANGED <<saved, row, chunks>>
    BY <1>8, WrapFacts
  <2>2. CASE End
    BY <2>1, <2>2, EndPlain
  <2>3. CASE ~End
    <3>1. pc' = "send" /\ run'.mode = run.mode
      BY <1>1, <1>8, <2>3, WrapFacts, EnterFacts DEF RunKept
    <3> QED
      BY <2>1, <3>1 DEF PlainInv, Aead
  <2> QED
    BY <2>2, <2>3
<1>9. CASE Send
  <2>1. pc = "send" /\ UNCHANGED <<saved, row>>
    BY <1>1, <1>9, SendFacts
  <2>2. CASE End /\ chunks' = chunks
    BY <2>1, <2>2, EndPlain
  <2>3. CASE pc' = "conflict"
    <3>1. chunks' = chunks /\ run' = run
      BY <1>1, <1>9, <2>3, SendFacts DEF End
    <3> QED
      BY <2>1, <2>3, <3>1 DEF PlainInv, Aead
  <2>4. CASE pc' = "save"
    <3>1. /\ row.enc = Aead /\ run'.mode = run.mode
          /\ \A c \in chunks' : c \in chunks \/ c.body = BodyOf(ReadNow)
      BY <1>1, <1>9, <2>4, SendFacts DEF End, RunKept
    <3>2. Aead => BodyOf(ReadNow).dk # NoKey
      <4>1. Aead => state.dk \in Keys /\ BodyOf(ReadNow).dk = state.dk
        BY <1>1, <2>1 DEF TypeInv, KeyInv, Sending, BodyOf, Seal
      <4> QED
        BY <4>1 DEF PublishConstants, NoKey
    <3> QED
      BY <2>1, <2>4, <3>1, <3>2 DEF PlainInv, Aead
  <2> QED
    BY <1>1, <1>9, <2>2, <2>3, <2>4, SendFacts
<1>10. CASE Save
  <2>1. /\ pc = "save" /\ pc' \in {"done", "send"} /\ run'.mode = run.mode
        /\ UNCHANGED <<row, chunks>>
    BY <1>1, <1>10, SaveFacts DEF RunKept
  <2>2. Published(saved')
    BY <1>10, SavePublishes
  <2> QED
    BY <2>1, <2>2 DEF PlainInv, Aead
<1>11. CASE Return
  BY <1>11, ReturnFacts, EndPlain
<1>12. CASE Conflict
  <2>1. pc = "conflict" /\ UNCHANGED <<saved, row, chunks>>
    BY <1>1, <1>12, ConflictFacts
  <2>2. CASE End
    BY <2>1, <2>2, EndPlain
  <2>3. CASE ~End
    <3>1. pc' = "recover" /\ state' = state /\ run'.mode = run.mode
      BY <1>1, <1>12, <2>3, ConflictFacts DEF RunKept
    <3> QED
      BY <2>1, <3>1 DEF PlainInv, Aead
  <2> QED
    BY <2>2, <2>3
<1>13. CASE Replace
  <2>1. pc' = "resave" /\ chunks' = {}
    BY <1>1, <1>13, ReplaceFacts, DeletedFacts
  <2> QED
    BY <2>1 DEF PlainInv
<1>14. CASE Resave
  <2>1. /\ pc = "resave" /\ pc' = "replan" /\ saved' = state
        /\ UNCHANGED <<row, chunks, run>>
    BY <1>14, ResaveFacts
  <2> QED
    BY <2>1 DEF PlainInv, Aead
<1>15. CASE Replan
  <2>1. pc = "replan" /\ UNCHANGED <<saved, row, chunks>>
    BY <1>1, <1>15, ReplanEnds
  <2>2. CASE End
    BY <2>1, <2>2, EndPlain
  <2>3. CASE ~End
    <3>1. plan' # <<>>
      BY <1>1, <1>15, <2>3, ReplanEnds
    <3>2. Aead => state.dk # Unreadable
      BY <1>1, <2>1 DEF BytesInv, KeysKnown, Recovering
    <3>3. pc' = "register" /\ run' = [run EXCEPT !.wraps = run'.wraps]
      BY <1>1, <1>15, <3>1, <3>2, ReplanFacts
    <3>4. run'.mode = run.mode
      BY <1>1, <3>3 DEF TypeOK, RunTypeOK
    <3> QED
      BY <2>1, <3>3, <3>4 DEF PlainInv, Aead
  <2> QED
    BY <2>2, <2>3
<1> QED
  BY <1>2, <1>3, <1>4, <1>5, <1>6, <1>7, <1>8, <1>9, <1>10, <1>11, <1>12, <1>13, <1>14, <1>15
     DEF RunStep

LEMMA EnvironmentPlain ==
  ASSUME PublishConstants, KnownInv, PlainInv, Environment, mishaps' \cap Unaware = {}
  PROVE  PlainInv'
<1>1. TypeOK /\ StateKnownIn(saved, transcript, epoch) /\ saved \in PublishState
  BY KnownTypes DEF BytesInv, StatesKnown
<1>2. "unsaved" \notin mishaps' /\ "lost" \notin mishaps'
  BY DEF Unaware
<1>3. ASSUME UNCHANGED <<row, chunks>>, Idle, Published(saved) => Published(saved')
      PROVE  PlainInv'
  BY <1>3 DEF Idle, PlainInv, Aead, Published
<1>4. CASE Grow \/ (\E head, tail \in 0 .. MaxLength : Rewrite(head, tail))
  <2>1. UNCHANGED <<saved, row, chunks>> /\ Idle
    BY <1>1, <1>4, EditFacts
  <2> QED
    BY <1>3, <2>1
<1>5. CASE EndEarly
  BY <1>2, <1>5, EndEarlyFacts, EndPlain
<1>6. CASE LoseState
  BY <1>2, <1>6, LoseFacts
<1>7. CASE SpoilKey
  <2>1. Same(saved', saved) /\ UNCHANGED <<row, chunks>> /\ Idle
    BY <1>1, <1>7, SpoilFacts
  <2> QED
    BY <1>3, <2>1 DEF Same, Published
<1>8. CASE Unpublish
  <2>1. chunks' = {} /\ Idle
    BY <1>1, <1>8, UnpublishFacts, DeletedFacts
  <2> QED
    BY <2>1 DEF PlainInv, Idle
<1>9. CASE ShareOff \/ ShareOn
  <2>1. (saved' = saved \/ ~Published(saved)) /\ UNCHANGED <<row, chunks>> /\ Idle
    BY <1>1, <1>9, ShareFacts
  <2> QED
    BY <1>3, <2>1
<1> QED
  BY <1>4, <1>5, <1>6, <1>7, <1>8, <1>9 DEF Environment

PlainSafe == KnownInv /\ Unless(Unaware, PlainInv)

LEMMA PlainSafeInductive ==
  ASSUME PublishConstants
  PROVE  /\ Init => PlainSafe
         /\ PlainSafe /\ [Next]_vars => PlainSafe'
<1>1. Init => PlainSafe
  <2>1. Init => PlainInv
    BY DEF Init, PlainInv, NoRun, Aead
  <2> QED
    BY <2>1, KnownInvInductive DEF PlainSafe, Unless
<1>2. ASSUME PlainSafe, [Next]_vars
      PROVE  PlainSafe'
  <2>1. KnownInv'
    BY <1>2, KnownInvInductive DEF PlainSafe
  <2>2. KnownInv /\ TypeOK
    BY <1>2, KnownTypes DEF PlainSafe
  <2>3. mishaps \subseteq mishaps'
    BY <1>2, <2>2, MishapsStay
  <2>4. ASSUME mishaps' \cap Unaware = {}
        PROVE  PlainInv'
    <3>1. PlainInv
      BY <1>2, <2>3, <2>4 DEF PlainSafe, Unless
    <3>2. CASE UNCHANGED vars
      BY <3>1, <3>2 DEF vars, store, local, PlainInv, Aead, Published
    <3>3. CASE (\E mode \in Modes : Begin(mode)) \/ RunStep
      BY <2>2, <3>1, <3>3, RunPlain
    <3>4. CASE Environment
      BY <2>2, <2>4, <3>1, <3>4, EnvironmentPlain
    <3> QED
      BY <1>2, <3>2, <3>3, <3>4 DEF Next, RunStep, Environment
  <2> QED
    BY <2>1, <2>4 DEF PlainSafe, Unless
<1> QED
  BY <1>1, <1>2

(* On migration: "leaving a plaintext copy beside the encrypted one would    *)
(* defeat the migration".  Whatever edits, conflicts, unreadable keys,       *)
(* unpublishes and ends of runs come between the steps of it; a plaintext    *)
(* chunk that no state file knows of is the exception.                       *)
THEOREM NoPlaintextAlways == Spec => []NoPlaintextUnlessUnsaved
<1>1. PlainSafe => NoPlaintextUnlessUnsaved
  <2> SUFFICES ASSUME PlainSafe, mishaps \cap Unaware = {}
               PROVE  NoPlaintextBeside
    BY DEF NoPlaintextUnlessUnsaved, Unless, Unaware
  <2>1. PlainInv
    BY DEF PlainSafe, Unless
  <2> QED
    BY <2>1 DEF NoPlaintextBeside, PlainInv, Remote
<1> QED
  BY <1>1, PublishConstants, PlainSafeInductive, PTL DEF Spec

-----------------------------------------------------------------------------
(* What the state file calls published is in the store                      *)

Severed == {"abandoned", "crossed"}

(* A state file the next run will not resume from: it finds other bytes in   *)
(* the file, or migrates the session, or rotates the key.                    *)
Excused(s) == Doomed(s) \/ s.dk = Unreadable \/ s.enc # row.enc

(* The session is deleted and what replaces it is not sent yet.              *)
Between ==
    /\ row.status = "deleted"
    /\ pc = "resave" \/ (pc = "register" /\ Aead /\ ~row.enc)

(* A byte is in a chunk of the store, at the position it has in s; but for   *)
(* what a reconciliation adopted of a file rewritten under it.               *)
Held(s) == Holds(s) \/ ("reread" \in mishaps /\ chunks # {})

SavedInStore == Published(saved) => Held(saved) \/ Excused(saved) \/ Between

VerifiedInStore ==
    pc = "verify" =>
      /\ Published(saved) => saved = state \/ saved.dk = Unreadable
      /\ Published(state) => Held(state) \/ Excused(state)

(* A digest that is too long is one that was continued over a change of the  *)
(* file; a publisher of plaintext whose session is encrypted sends nothing.  *)
PlannedInStore ==
    pc \in Planning /\ Published(state) =>
      Held(state) \/ Len(state.digest) > state.offset - state.start \/ (~Aead /\ row.enc)

RecoveredInStore == pc \in {"resave", "replan"} /\ Published(state) => Held(state)

(* What is deleted is something no state file will be resumed from.          *)
DeletesUseless ==
    /\ run.deleting /\ pc \in {"plan", "delete"} =>
         /\ ~Published(state)
         /\ Published(saved) => Excused(saved) \/ (Aead /\ ~saved.enc)
    /\ pc = "delete" => run.deleting

SavesStored ==
    pc = "save" => \E c \in chunks : /\ c.off = Head(plan).off /\ c.end = Head(plan).end
                                     /\ c.body.data = run.data

RowThere ==
    /\ pc \in {"wrap", "send", "save", "conflict", "recover", "replace"} => Live
    /\ row.status = "absent" => ~Published(saved) /\ ~Published(state)
    /\ pc = "reconcile" => ~Published(saved)

StoreInv ==
    /\ SavedInStore /\ VerifiedInStore /\ PlannedInStore /\ RecoveredInStore
    /\ DeletesUseless /\ SavesStored /\ RowThere

(* A state that stays keeps what holds of it while no chunk goes away and    *)
(* the row does not turn plain.                                              *)
LEMMA HeldStays ==
  ASSUME KnownInv, chunks \subseteq chunks', mishaps \subseteq mishaps'
  PROVE  /\ saved' = saved /\ Held(saved) => Held(saved)'
         /\ Same(state', state) /\ Held(state) => Held(state)'
         /\ saved' = state /\ Held(state) => Held(saved)'
         /\ state' = saved /\ Held(saved) => Held(state)'
BY DEF Held, Holds, Same

LEMMA ExcuseStays ==
  ASSUME KnownInv, UNCHANGED <<transcript, epoch>>, row'.enc \in BOOLEAN, row.enc => row'.enc
  PROVE  /\ saved' = saved /\ Excused(saved) => Excused(saved)'
         /\ state' = saved /\ Excused(saved) => Excused(state)'
<1>1. saved.enc \in BOOLEAN /\ row.enc \in BOOLEAN /\ (saved.enc => row.enc)
  BY KnownTypes, StateFields DEF RowInv
<1>2. saved' = saved => (Doomed(saved) => Doomed(saved)')
  BY DEF Doomed
<1>3. state' = saved => (Doomed(saved) => Doomed(state)')
  BY DEF Doomed
<1> QED
  BY <1>1, <1>2, <1>3 DEF Excused

LEMMA EndStore ==
  ASSUME KnownInv, StoreInv, End, ~Between, UNCHANGED <<transcript, epoch, saved, row>>,
         chunks \subseteq chunks', mishaps \subseteq mishaps'
  PROVE  StoreInv'
<1>1. /\ pc' = "idle" /\ state' = Fresh /\ run'.deleting = FALSE /\ ~Published(state')
  BY DEF End, NoRun, Fresh, Published
<1>2. row'.enc \in BOOLEAN /\ (row.enc => row'.enc)
  BY KnownTypes
<1>3. Published(saved') => Held(saved)' \/ Excused(saved)'
  BY <1>2, HeldStays, ExcuseStays DEF StoreInv, SavedInStore
<1> QED
  BY <1>1, <1>3
     DEF StoreInv, SavedInStore, VerifiedInStore, PlannedInStore, RecoveredInStore, Planning,
         Sending, DeletesUseless, SavesStored, RowThere, Published

LEMMA BeginStore ==
  ASSUME PublishConstants, KnownInv, StoreInv, mishaps \subseteq mishaps',
         NEW mode \in Modes, Begin(mode)
  PROVE  StoreInv'
<1>1. /\ pc = "idle" /\ state' = saved /\ run'.deleting = FALSE
      /\ pc' = IF Published(saved) THEN "verify" ELSE "reconcile"
      /\ UNCHANGED <<transcript, epoch, saved, row, chunks>>
  BY BeginFacts DEF RunFields
<1>2. ~Between
  BY <1>1 DEF Between
<1>3. /\ Published(saved) => Held(saved)' \/ Excused(saved)'
      /\ Published(saved) => Held(state)' \/ Excused(state)'
  BY <1>1, <1>2, KnownTypes, HeldStays, ExcuseStays DEF StoreInv, SavedInStore
<1>4. /\ Published(saved') <=> Published(saved)
      /\ Published(state') <=> Published(saved)
  BY <1>1 DEF Published
<1> QED
  BY <1>1, <1>3, <1>4
     DEF StoreInv, SavedInStore, VerifiedInStore, PlannedInStore, RecoveredInStore, Planning,
         Sending, DeletesUseless, SavesStored, RowThere

(* Every byte of a range was in the store when it was compared, and in the   *)
(* file; and in the file it is, unless that was rewritten there.             *)
LookHeld ==
    run.look.base < run.look.cursor =>
      \/ "reread" \in mishaps
      \/ /\ run.look.cursor <= Len(transcript)
         /\ \A x \in run.look.base .. run.look.cursor - 1 : \E c \in chunks :
              c.off <= x /\ x < c.end /\ c.body.data[x - c.off + 1] = transcript[x + 1]

LEMMA RangeByte ==
  ASSUME NEW t \in Seq(Nat), NEW from \in Nat, NEW to \in Nat,
         NEW k \in 1 .. Len(Range(t, from, to))
  PROVE  from + k <= Len(t) /\ Range(t, from, to)[k] = t[from + k]
BY RangeElements

(* What is adopted after it was found equal is in the store.                 *)
LEMMA AdoptedHeld ==
  ASSUME PublishConstants, KnownInv, LookHeld, "crossed" \notin mishaps,
         Reconcile, ~End, state' # state
  PROVE  Live /\ Held(state')
<1>1. /\ run.look.at = "digest" /\ Published(state') /\ state' \in PublishState
      /\ state'.offset <= Len(transcript)
      /\ state'.start = run.look.base /\ state'.offset = run.look.cursor
      /\ state'.digest = Range(transcript, state'.start, state'.offset)
      /\ Len(state'.digest) = state'.offset - state'.start
  BY KnownTypes, ReconcileEffect
<1>2. LookStore
  BY <1>1, KnownTypes DEF TypeInv, LookInv, Undone
<1>3. Live /\ chunks # {}
  BY <1>2 DEF LookStore
<1>4. CASE "reread" \in mishaps
  BY <1>3, <1>4 DEF Held
<1>5. CASE "reread" \notin mishaps
  <2> DEFINE s == state'.start
             o == state'.offset
             d == Range(transcript, s, o)
  <2>1. s \in Nat /\ o \in Nat /\ s < o /\ transcript \in Seq(Nat)
    BY <1>1, KnownTypes, StateFields DEF Published
  <2>2. \A x \in s .. o - 1 : \E c \in chunks :
          c.off <= x /\ x < c.end /\ c.body.data[x - c.off + 1] = transcript[x + 1]
    BY <1>1, <1>5, <2>1 DEF LookHeld
  <2>3. state'.digest = d /\ Len(d) = o - s
    BY <1>1
  <2> HIDE DEF s, o
  <2>4. \A k \in 1 .. Len(d) : d[k] = transcript[s + k]
    BY <2>1, RangeElements
  <2> HIDE DEF d
  <2>5. ASSUME NEW x \in s .. o - 1
        PROVE  \E c \in chunks :
                 c.off <= x /\ x < c.end /\ c.body.data[x - c.off + 1] = d[x - s + 1]
    <3>1. x - s + 1 \in 1 .. Len(d) /\ s + (x - s + 1) = x + 1
      BY <2>1, <2>3, <2>5
    <3>2. d[x - s + 1] = transcript[x + 1]
      BY <2>4, <3>1
    <3> QED
      BY <2>2, <3>2
  <2> QED
    BY <1>3, <2>3, <2>5 DEF Held, Holds, s, o
<1> QED
  BY <1>3, <1>4, <1>5

LEMMA ReconcileStore ==
  ASSUME PublishConstants, KnownInv, StoreInv, LookHeld, "crossed" \notin mishaps, Reconcile
  PROVE  StoreInv'
<1>1. /\ pc \in Reading
      /\ UNCHANGED <<transcript, epoch, saved, row, chunks, mishaps>>
  BY KnownTypes, ReconcileFacts
<1>2. ~Between
  BY <1>1 DEF Between, Reading
<1>3. CASE End
  BY <1>1, <1>2, <1>3, EndStore
<1>4. CASE ~End
  <2>1. /\ run'.deleting = run.deleting
        /\ \/ pc' = pc /\ state' = state
           \/ pc' = IF pc = "reconcile" THEN "verify"
                    ELSE IF state'.offset <= state.offset THEN "replace" ELSE "resave"
    BY <1>4, KnownTypes, ReconcileEffect DEF OnlyLooks
  <2>2. state' # state => Live /\ Held(state)'
    <3>1. state' # state => Live /\ Held(state')
      BY <1>4, AdoptedHeld
    <3> QED
      BY <1>1, <3>1 DEF Held, Holds
  <2>3. /\ Published(saved') <=> Published(saved)
        /\ Held(saved) => Held(saved)'
        /\ Excused(saved) => Excused(saved)'
    BY <1>1, KnownTypes, HeldStays, ExcuseStays DEF Published
  <2>4. SavedInStore'
    BY <1>2, <2>3 DEF StoreInv, SavedInStore
  <2>5. PlannedInStore' /\ DeletesUseless' /\ SavesStored'
    BY <1>1, <2>1
       DEF PlannedInStore, Planning, Sending, DeletesUseless, SavesStored, Reading
  <2>6. CASE pc = "reconcile"
    <3>1. pc' \in {"reconcile", "verify"} /\ (pc' = "reconcile" => state' = state)
      BY <2>1, <2>6
    <3>2. ~Published(saved') /\ ~Published(state) /\ (state' = state => ~Published(state'))
      BY <2>3, <2>6 DEF StoreInv, RowThere, KnownInv, RowInv, Published
    <3>3. VerifiedInStore' /\ RecoveredInStore'
      BY <2>2, <3>1, <3>2 DEF VerifiedInStore, RecoveredInStore
    <3>4. RowThere'
      BY <1>1, <2>2, <3>1, <3>2 DEF RowThere, Live
    <3> QED
      BY <2>4, <2>5, <3>3, <3>4 DEF StoreInv
  <2>7. CASE pc = "recover"
    <3>1. /\ pc' \in {"recover", "replace", "resave"}
          /\ pc' = "resave" => state'.offset > state.offset
      BY <2>1, <2>7, KnownTypes, StateFields, ReconcileEffect, <1>4
    <3>2. pc' = "resave" => state' # state
      BY <3>1, KnownTypes, StateFields
    <3>3. VerifiedInStore' /\ RecoveredInStore'
      BY <2>2, <3>1, <3>2 DEF VerifiedInStore, RecoveredInStore
    <3>4. RowThere'
      BY <1>1, <2>7, <3>1 DEF StoreInv, RowThere, Live
    <3> QED
      BY <2>4, <2>5, <3>3, <3>4 DEF StoreInv
  <2> QED
    BY <1>1, <2>6, <2>7 DEF Reading
<1> QED
  BY <1>3, <1>4

LEMMA VerifyStore ==
  ASSUME PublishConstants, KnownInv, StoreInv, mishaps \subseteq mishaps',
         Verify
  PROVE  StoreInv'
<1>1. /\ pc = "verify" /\ pc' = "plan"
      /\ UNCHANGED <<transcript, epoch, saved, row, chunks>>
      /\ run'.deleting \in BOOLEAN
      /\ run'.deleting =>
           /\ Wiped(state', state)
           /\ \/ ~Verified(state, run.size)
              \/ Migrates(state)
              \/ Aead /\ state.enc /\ state.dk = Unreadable
      /\ ~run'.deleting => Same(state', state) \/ Wiped(state', state)
  BY KnownTypes, VerifyFacts DEF RunFields
<1>2. run'.mode = run.mode
  <2>1. run' = [run EXCEPT !.deleting = run'.deleting, !.wraps = run'.wraps]
    BY KnownTypes, VerifyFacts
  <2> QED
    BY <2>1, KnownTypes DEF TypeOK, RunTypeOK
<1>3. ~Between
  BY <1>1 DEF Between
<1>4. Published(saved') => Held(saved)' \/ Excused(saved)'
  BY <1>1, <1>3, KnownTypes, HeldStays, ExcuseStays DEF StoreInv, SavedInStore, Published
<1>5. Verified(state, run.size) <=> ~Doomed(state)
  BY <1>1, KnownTypes, Verdict DEF InRun
<1>6. Wiped(state', state) => ~Published(state')
  BY KnownTypes, WipedUnpublished
<1>7. Same(state', state) => (Published(state') <=> Published(state))
  BY DEF Same, Published
<1>8. ASSUME Published(state'), ~run'.deleting
      PROVE  Held(state)' \/ (~Aead /\ row.enc)
  <2>1. Same(state', state) /\ Published(state)
    BY <1>1, <1>6, <1>7, <1>8
  <2>2. ~Doomed(state) /\ ~Migrates(state) /\ ~(Aead /\ state.enc /\ state.dk = Unreadable)
    BY <1>5, <1>8, KnownTypes, VerifyKeeps
  <2>3. Held(state) \/ Excused(state)
    BY <1>1, <2>1 DEF StoreInv, VerifiedInStore
  <2>4. state.dk # Unreadable
    <3>1. ~Aead => ~state.enc
      BY DEF KnownInv, RowInv
    <3>2. ~state.enc => state.dk = NoKey
      BY KnownTypes DEF BytesInv, KeysKnown
    <3> QED
      BY <2>2, <3>1, <3>2 DEF NoKey, Unreadable
  <2>5. state.enc # row.enc => ~Aead /\ row.enc
    <3>1. state.enc => row.enc
      BY <1>1 DEF KnownInv, RowInv, Registering
    <3>2. state.enc \in BOOLEAN /\ row.enc \in BOOLEAN
      BY KnownTypes, StateFields
    <3>3. ~state.enc => ~Aead
      BY <2>1, <2>2 DEF Migrates
    <3> QED
      BY <3>1, <3>2, <3>3
  <2>6. Held(state) => Held(state)'
    BY <1>1, <2>1, HeldStays
  <2> QED
    BY <2>2, <2>3, <2>4, <2>5, <2>6 DEF Excused
<1>9. ASSUME run'.deleting, Published(saved')
      PROVE  Excused(saved)' \/ (Aead /\ ~saved.enc)
  <2>1. saved = state \/ saved.dk = Unreadable
    BY <1>1, <1>9 DEF StoreInv, VerifiedInStore, Published
  <2>2. CASE saved.dk = Unreadable
    BY <1>1, <2>2 DEF Excused
  <2>3. CASE saved = state
    <3>1. CASE ~Verified(state, run.size)
      <4>1. Doomed(saved)
        BY <1>5, <2>3, <3>1
      <4> QED
        BY <1>1, <4>1, KnownTypes, ExcuseStays DEF Excused
    <3>2. CASE Migrates(state)
      BY <2>3, <3>2 DEF Migrates
    <3>3. CASE Aead /\ state.enc /\ state.dk = Unreadable
      BY <1>1, <2>3, <3>3 DEF Excused
    <3> QED
      BY <1>1, <1>9, <3>1, <3>2, <3>3
  <2> QED
    BY <2>1, <2>2, <2>3
<1>10. row.status = "absent" => ~Published(saved') /\ ~Published(state')
  BY <1>1, <1>6, <1>7 DEF StoreInv, RowThere, Published
<1> QED
  BY <1>1, <1>2, <1>4, <1>6, <1>8, <1>9, <1>10
     DEF StoreInv, SavedInStore, VerifiedInStore, PlannedInStore, RecoveredInStore, Planning,
         Sending, DeletesUseless, SavesStored, RowThere, Aead

LEMMA PlanStore ==
  ASSUME PublishConstants, KnownInv, StoreInv, mishaps \subseteq mishaps',
         Plan
  PROVE  StoreInv'
<1>1. pc = "plan" /\ UNCHANGED <<transcript, epoch, saved, row, chunks>>
  BY PlanStepFacts DEF RunFields
<1>2. ~Between
  BY <1>1 DEF Between
<1>3. CASE End
  BY <1>1, <1>2, <1>3, EndStore
<1>4. CASE ~End
  <2>1. /\ pc' = (IF run.deleting THEN "delete" ELSE "register")
        /\ UNCHANGED <<state, run>>
    BY <1>4, PlanStepFacts
  <2>2. /\ Published(saved') <=> Published(saved)
        /\ Published(state') <=> Published(state)
        /\ Same(state', state) /\ (Aead' <=> Aead)
    BY <1>1, <2>1 DEF Published, Same, Aead
  <2>3. /\ Held(saved) => Held(saved)'
        /\ Held(state) => Held(state)'
        /\ Excused(saved) => Excused(saved)'
    BY <1>1, <2>2, KnownTypes, HeldStays, ExcuseStays
  <2>4. SavedInStore' /\ PlannedInStore'
    BY <1>1, <1>2, <2>1, <2>2, <2>3
       DEF StoreInv, SavedInStore, PlannedInStore, Planning, Sending
  <2>5. DeletesUseless'
    BY <1>1, <2>1, <2>2, <2>3 DEF StoreInv, DeletesUseless
  <2>6. VerifiedInStore' /\ RecoveredInStore' /\ SavesStored' /\ RowThere'
    BY <1>1, <2>1, <2>2
       DEF StoreInv, VerifiedInStore, RecoveredInStore, SavesStored, RowThere
  <2> QED
    BY <2>4, <2>5, <2>6 DEF StoreInv
<1> QED
  BY <1>3, <1>4

LEMMA DeleteStore ==
  ASSUME PublishConstants, KnownInv, StoreInv, mishaps \subseteq mishaps',
         Delete
  PROVE  StoreInv'
<1>1. /\ pc = "delete" /\ pc' = "register"
      /\ UNCHANGED <<transcript, epoch, saved, state, run>>
      /\ row'.status = (IF row.status = "absent" THEN "absent" ELSE "deleted")
      /\ row'.enc = row.enc
  BY KnownTypes, DeleteFacts, DeletedFacts DEF RunFields
<1>2. /\ ~Published(state)
      /\ Published(saved) => Excused(saved) \/ (Aead /\ ~saved.enc)
  BY <1>1 DEF StoreInv, DeletesUseless
<1>3. /\ Published(saved') <=> Published(saved)
      /\ Published(state') <=> Published(state)
      /\ Aead' <=> Aead
  BY <1>1 DEF Published, Aead
<1>4. Excused(saved) => Excused(saved)'
  BY <1>1, KnownTypes, ExcuseStays
<1>5. SavedInStore'
  <2>1. Published(saved) => row'.status = "deleted"
    BY <1>1 DEF StoreInv, RowThere
  <2>2. ~saved.enc /\ row.enc => Excused(saved)'
    BY <1>1 DEF Excused
  <2> QED
    BY <1>1, <1>2, <1>3, <1>4, <2>1, <2>2 DEF SavedInStore, Between
<1>6. /\ VerifiedInStore' /\ PlannedInStore' /\ RecoveredInStore' /\ DeletesUseless'
      /\ SavesStored'
  BY <1>1, <1>2, <1>3
     DEF VerifiedInStore, PlannedInStore, RecoveredInStore, DeletesUseless, SavesStored
<1>7. RowThere'
  BY <1>1, <1>3 DEF StoreInv, RowThere
<1> QED
  BY <1>5, <1>6, <1>7 DEF StoreInv

(* What a step keeps that leaves the file, the state file, the state and the *)
(* row's scheme alone, and takes no chunk away.                              *)
LEMMA SentStays ==
  ASSUME KnownInv, StoreInv, UNCHANGED <<transcript, epoch, saved, state>>,
         chunks \subseteq chunks', mishaps \subseteq mishaps', run'.mode = run.mode,
         row'.enc \in BOOLEAN, row.enc => row'.enc
  PROVE  /\ Published(saved') <=> Published(saved)
         /\ Published(state') <=> Published(state)
         /\ Aead' <=> Aead
         /\ Held(saved) => Held(saved)'
         /\ Held(state) => Held(state)'
         /\ Excused(saved) => Excused(saved)'
         /\ pc \in Planning /\ pc' \in Planning => PlannedInStore'
<1>1. /\ Published(saved') <=> Published(saved)
      /\ Published(state') <=> Published(state)
      /\ Same(state', state) /\ (Aead' <=> Aead)
  BY DEF Published, Same, Aead
<1>2. /\ Held(saved) => Held(saved)'
      /\ Held(state) => Held(state)'
      /\ Excused(saved) => Excused(saved)'
  BY <1>1, HeldStays, ExcuseStays
<1>3. pc \in Planning /\ pc' \in Planning => PlannedInStore'
  BY <1>1, <1>2 DEF StoreInv, PlannedInStore
<1> QED
  BY <1>1, <1>2, <1>3

LEMMA RegisterStore ==
  ASSUME PublishConstants, KnownInv, StoreInv, mishaps \subseteq mishaps',
         Register
  PROVE  StoreInv'
<1>1. /\ pc = "register" /\ UNCHANGED <<transcript, epoch, saved, chunks>>
      /\ \/ End /\ row' = row /\ ~AcceptsSession(Aead, state.gen)
         \/ /\ row'.status = "live" /\ row'.enc = (row.enc \/ Aead)
            /\ (pc' = "wrap" /\ UNCHANGED <<state, plan, run>>) \/ EnterLoop
  BY RegisterFacts DEF RunFields
<1>2. CASE End /\ row' = row /\ ~AcceptsSession(Aead, state.gen)
  <2>1. ~row.enc => row.gen = 0
    BY DEF KnownInv, RowInv
  <2>2. state.gen \in Nat
    BY KnownTypes, StateFields
  <2>3. row.enc
    BY <1>2, <2>1, <2>2 DEF AcceptsSession
  <2>4. ~Between
    BY <1>1, <2>3 DEF Between
  <2> QED
    BY <1>1, <1>2, <2>4, EndStore
<1>3. CASE ~(End /\ row' = row /\ ~AcceptsSession(Aead, state.gen))
  <2>1. /\ row'.status = "live" /\ row'.enc = (row.enc \/ Aead)
        /\ pc' \in {"wrap", "send"} /\ UNCHANGED state /\ run'.mode = run.mode
    BY <1>1, <1>3, KnownTypes, EnterFacts DEF RunKept
  <2>2. row'.enc \in BOOLEAN /\ row.enc \in BOOLEAN /\ saved.enc \in BOOLEAN
    BY <2>1, KnownTypes, StateFields DEF Aead
  <2>3. /\ Published(saved') <=> Published(saved)
        /\ Published(state') <=> Published(state)
        /\ Held(saved) => Held(saved)'
        /\ Excused(saved) => Excused(saved)'
        /\ PlannedInStore'
    BY <1>1, <2>1, <2>2, SentStays DEF Planning, Sending
  <2>4. SavedInStore'
    <3>1. saved.enc => row.enc
      BY DEF KnownInv, RowInv
    <3>2. Between /\ Published(saved) => Excused(saved)'
      BY <1>1, <2>1, <2>2, <3>1 DEF Between, Excused
    <3> QED
      BY <2>3, <3>2 DEF StoreInv, SavedInStore
  <2>5. /\ VerifiedInStore' /\ RecoveredInStore' /\ DeletesUseless' /\ SavesStored'
    BY <2>1 DEF VerifiedInStore, RecoveredInStore, DeletesUseless, SavesStored
  <2>6. RowThere'
    BY <2>1, <2>2 DEF RowThere, Live
  <2> QED
    BY <2>3, <2>4, <2>5, <2>6 DEF StoreInv
<1> QED
  BY <1>2, <1>3

LEMMA WrapStore ==
  ASSUME PublishConstants, KnownInv, StoreInv, mishaps \subseteq mishaps',
         PutWraps
  PROVE  StoreInv'
<1>1. /\ pc = "wrap" /\ UNCHANGED <<transcript, epoch, saved, row, chunks>>
      /\ End \/ EnterLoop
  BY WrapFacts DEF RunFields
<1>2. ~Between
  BY <1>1 DEF Between
<1>3. CASE End
  BY <1>1, <1>2, <1>3, EndStore
<1>4. CASE ~End
  <2>1. pc' = "send" /\ UNCHANGED state /\ run'.mode = run.mode
    BY <1>1, <1>4, KnownTypes, EnterFacts DEF RunKept
  <2>2. /\ Published(saved') <=> Published(saved)
        /\ Published(state') <=> Published(state)
        /\ Held(saved) => Held(saved)'
        /\ Excused(saved) => Excused(saved)'
        /\ PlannedInStore'
    BY <1>1, <2>1, KnownTypes, SentStays DEF Planning, Sending
  <2>3. SavedInStore'
    BY <1>2, <2>2 DEF StoreInv, SavedInStore
  <2>4. VerifiedInStore' /\ RecoveredInStore' /\ DeletesUseless' /\ SavesStored'
    BY <2>1 DEF VerifiedInStore, RecoveredInStore, DeletesUseless, SavesStored
  <2>5. RowThere'
    BY <1>1, <2>1, <2>2 DEF StoreInv, RowThere, Live
  <2> QED
    BY <2>2, <2>3, <2>4, <2>5 DEF StoreInv
<1> QED
  BY <1>3, <1>4

LEMMA SendStore ==
  ASSUME PublishConstants, KnownInv, StoreInv, mishaps \subseteq mishaps',
         Send
  PROVE  StoreInv'
<1>1. pc = "send" /\ UNCHANGED <<transcript, epoch, saved, row>>
  BY KnownTypes, SendFacts DEF RunFields
<1>2. ~Between
  BY <1>1 DEF Between
<1>3. chunks \subseteq chunks'
  BY KnownTypes, SendFacts
<1>4. CASE End
  BY <1>1, <1>2, <1>3, <1>4, EndStore
<1>5. CASE ~End
  <2>1. /\ pc' \in {"save", "conflict"} /\ UNCHANGED <<state, plan>>
        /\ run'.mode = run.mode /\ Live
    BY <1>5, KnownTypes, SendFacts DEF RunKept
  <2>2. /\ Published(saved') <=> Published(saved)
        /\ Published(state') <=> Published(state)
        /\ Held(saved) => Held(saved)'
        /\ Excused(saved) => Excused(saved)'
        /\ pc' = "save" => PlannedInStore'
    BY <1>1, <1>3, <2>1, KnownTypes, SentStays DEF Planning, Sending
  <2>3. SavedInStore'
    BY <1>2, <2>2 DEF StoreInv, SavedInStore
  <2>4. pc' = "conflict" => PlannedInStore'
    BY DEF PlannedInStore, Planning, Sending
  <2>5. VerifiedInStore' /\ RecoveredInStore' /\ DeletesUseless'
    BY <2>1 DEF VerifiedInStore, RecoveredInStore, DeletesUseless
  <2>6. SavesStored'
    <3> SUFFICES ASSUME pc' = "save"
                 PROVE  \E c \in chunks' : /\ c.off = Head(plan).off /\ c.end = Head(plan).end
                                           /\ c.body.data = run'.data
      BY <2>1 DEF SavesStored
    <3>1. run'.data = ReadNow
      BY <1>5, KnownTypes, SendFacts
    <3>2. \/ [off |-> Head(plan).off, end |-> Head(plan).end, body |-> BodyOf(ReadNow)] \in chunks'
          \/ \E d \in chunks : /\ d.off = Head(plan).off /\ d.end = Head(plan).end
                               /\ d.body = BodyOf(ReadNow)
      <4>1. pc' # "conflict"
        OBVIOUS
      <4> QED
        BY <1>5, <4>1, KnownTypes, SendFacts
    <3> QED
      BY <1>3, <3>1, <3>2, BodyData
  <2>7. RowThere'
    BY <1>1, <2>1, <2>2 DEF StoreInv, RowThere, Live
  <2> QED
    BY <2>1, <2>2, <2>3, <2>4, <2>5, <2>6, <2>7 DEF StoreInv
<1> QED
  BY <1>4, <1>5

LEMMA ConcatIndex ==
  ASSUME NEW x \in Seq(Nat), NEW y \in Seq(Nat)
  PROVE  /\ Len(x) \in Nat /\ Len(y) \in Nat /\ Len(x \o y) = Len(x) + Len(y)
         /\ \A k \in 1 .. Len(x) : (x \o y)[k] = x[k]
         /\ \A k \in 1 .. Len(y) : (x \o y)[Len(x) + k] = y[k]
<1>1. Len(x) \in Nat /\ Len(y) \in Nat /\ Len(x \o y) = Len(x) + Len(y)
  OBVIOUS
<1>2. ASSUME NEW k \in 1 .. Len(x)
      PROVE  (x \o y)[k] = x[k]
  OBVIOUS
<1>3. ASSUME NEW k \in 1 .. Len(y)
      PROVE  (x \o y)[Len(x) + k] = y[k]
  OBVIOUS
<1> QED
  BY <1>1, <1>2, <1>3

(* The chunk that was stored continues what the state calls published.       *)
LEMMA SaveHolds ==
  ASSUME PublishConstants, KnownInv, StoreInv, Save, mishaps \subseteq mishaps',
         ~(Len(state'.digest) > state'.offset - state'.start)
  PROVE  Held(state)' \/ (~Aead /\ row.enc)
<1>1. /\ pc = "save" /\ UNCHANGED chunks /\ pc \in Sending /\ pc \in Planning
      /\ state'.start = state.start /\ state'.offset = Head(plan).end
      /\ state'.digest = state.digest \o run.data
  BY KnownTypes, SaveFacts DEF Sending, Planning
<1>2. /\ Head(plan) = plan[1] /\ Head(plan).off \in Nat /\ Head(plan).end \in Nat
      /\ state.start <= Head(plan).off /\ Head(plan).off < Head(plan).end
  BY SavePublishes
<1>3. /\ state.start \in Nat /\ state.offset \in Nat /\ state.digest \in Seq(Nat)
      /\ run.data \in Seq(Nat)
  BY KnownTypes, StateFields DEF TypeOK, RunTypeOK
<1>4. /\ Len(run.data) = Head(plan).end - Head(plan).off
      /\ Head(plan).off - state.start <= Len(state.digest)
      /\ Published(state) => Head(plan).off <= state.offset
  BY <1>1, <1>2, KnownTypes DEF BytesInv, RunSettled, PlanKnown
<1>5. /\ Published(state) => Len(state.digest) >= state.offset - state.start
      /\ ~Published(state) => state.digest = <<>>
  BY KnownTypes DEF BytesInv, StatesKnown, StateKnownIn
<1> DEFINE off == Head(plan).off
           end == Head(plan).end
           d == Len(state.digest)
           n == Len(run.data)
<1>6. /\ d \in Nat /\ n \in Nat /\ n = end - off
      /\ Len(state.digest \o run.data) = d + (end - off)
      /\ \A k \in 1 .. d : (state.digest \o run.data)[k] = state.digest[k]
      /\ \A k \in 1 .. n : (state.digest \o run.data)[d + k] = run.data[k]
  <2>1. /\ d \in Nat /\ n \in Nat /\ Len(state.digest \o run.data) = d + n
        /\ \A k \in 1 .. d : (state.digest \o run.data)[k] = state.digest[k]
        /\ \A k \in 1 .. n : (state.digest \o run.data)[d + k] = run.data[k]
    BY <1>3, ConcatIndex
  <2>2. n = end - off
    BY <1>4
  <2> HIDE DEF d, n, off, end
  <2> QED
    BY <2>1, <2>2
<1>7. d = off - state.start
  <2>1. ~(d + (end - off) > end - state.start)
    BY <1>1, <1>6
  <2>2. off - state.start <= d
    BY <1>4
  <2> HIDE DEF d, off, end
  <2> QED
    BY <1>2, <1>3, <1>6, <2>1, <2>2 DEF off, end
<1>8. /\ Published(state) => state.offset = off
      /\ ~Published(state) => off = state.start
  <2>1. Published(state) => d >= state.offset - state.start /\ off <= state.offset
    BY <1>4, <1>5
  <2>2. ~Published(state) => d = 0
    BY <1>5
  <2> HIDE DEF d, off, end
  <2> QED
    BY <1>2, <1>3, <1>7, <2>1, <2>2 DEF off
<1>9. PICK c \in chunks : c.off = off /\ c.end = end /\ c.body.data = run.data
  BY <1>1 DEF StoreInv, SavesStored
<1>10. Published(state) => Held(state) \/ (~Aead /\ row.enc)
  <2>1. Published(state) => ~(d > state.offset - state.start)
    BY <1>7, <1>8
  <2> QED
    BY <1>1, <2>1 DEF StoreInv, PlannedInStore
<1>11. CASE "reread" \in mishaps
  <2>1. "reread" \in mishaps' /\ chunks' # {}
    BY <1>1, <1>9, <1>11
  <2> QED
    BY <2>1 DEF Held
<1> SUFFICES ASSUME Published(state) => Holds(state)
             PROVE  Holds(state)'
  BY <1>10, <1>11 DEF Held
<1>12. ASSUME NEW b \in state.start .. end - 1
       PROVE  \E e \in chunks :
                /\ e.off <= b /\ b < e.end
                /\ e.body.data[b - e.off + 1]
                     = (state.digest \o run.data)[b - state.start + 1]
  <2>1. CASE b < off
    <3>1. Published(state) /\ b \in state.start .. state.offset - 1
      BY <1>2, <1>3, <1>8, <1>12, <2>1
    <3>2. PICK e \in chunks : /\ e.off <= b /\ b < e.end
                              /\ e.body.data[b - e.off + 1] = state.digest[b - state.start + 1]
      BY <3>1 DEF Holds
    <3>3. b - state.start + 1 \in 1 .. d
      <4> HIDE DEF d, off, end
      <4> QED
        BY <1>2, <1>3, <1>6, <1>7, <1>12, <2>1 DEF off
    <3>4. (state.digest \o run.data)[b - state.start + 1] = state.digest[b - state.start + 1]
      BY <1>6, <3>3
    <3> QED
      BY <3>2, <3>4
  <2>2. CASE ~(b < off)
    <3>1. b - off + 1 \in 1 .. n /\ b - state.start + 1 = d + (b - off + 1)
      <4> HIDE DEF d, n
      <4>1. b \in Int /\ off <= b /\ b < end /\ off \in Nat /\ end \in Nat
        BY <1>2, <1>3, <1>12, <2>2
      <4>2. d \in Nat /\ n \in Nat /\ state.start \in Nat /\ n = end - off /\ d = off - state.start
        BY <1>2, <1>3, <1>6, <1>7
      <4> DEFINE s == state.start
      <4> HIDE DEF s, off, end
      <4>3. b - off + 1 \in 1 .. n
        BY <4>1, <4>2
      <4>4. b - s + 1 = d + (b - off + 1)
        BY <4>1, <4>2 DEF s
      <4> QED
        BY <4>3, <4>4 DEF s
    <3>2. (state.digest \o run.data)[d + (b - off + 1)] = run.data[b - off + 1]
      BY <1>6, <3>1
    <3>3. c.off <= b /\ b < c.end
      BY <1>2, <1>3, <1>9, <1>12, <2>2
    <3> QED
      BY <1>9, <3>1, <3>2, <3>3
  <2> QED
    BY <2>1, <2>2
<1> QED
  BY <1>1, <1>12 DEF Holds

LEMMA SaveStore ==
  ASSUME PublishConstants, KnownInv, StoreInv, mishaps \subseteq mishaps',
         Save
  PROVE  StoreInv'
<1>1. /\ pc = "save" /\ pc' \in {"done", "send"} /\ saved' = state'
      /\ UNCHANGED <<row, chunks>> /\ run'.mode = run.mode
      /\ state'.enc = state.enc /\ state'.dk = state.dk
  BY KnownTypes, SaveFacts DEF RunKept
<1>2. Published(state') /\ Published(saved')
  BY SavePublishes
<1>3. Len(state'.digest) > state'.offset - state'.start \/ Held(state)' \/ (~Aead /\ row.enc)
  BY SaveHolds
<1>4. Held(state)' => Held(saved)'
  BY <1>1 DEF Held, Holds
<1>5. SavedInStore'
  <2>1. Len(state'.digest) > state'.offset - state'.start => Doomed(saved)'
    BY <1>1, <1>2 DEF Doomed, DoomedIn
  <2>2. ~Aead /\ row.enc => saved'.enc # row'.enc
    BY <1>1, KnownTypes DEF KnownInv, RowInv
  <2> QED
    BY <1>3, <1>4, <2>1, <2>2 DEF SavedInStore, Excused
<1>6. PlannedInStore'
  BY <1>1, <1>3 DEF PlannedInStore, Aead
<1>7. VerifiedInStore' /\ RecoveredInStore' /\ DeletesUseless' /\ SavesStored'
  BY <1>1 DEF VerifiedInStore, RecoveredInStore, DeletesUseless, SavesStored
<1>8. RowThere'
  BY <1>1 DEF StoreInv, RowThere, Live
<1> QED
  BY <1>5, <1>6, <1>7, <1>8 DEF StoreInv

LEMMA RecoverStore ==
  ASSUME PublishConstants, KnownInv, StoreInv, mishaps \subseteq mishaps',
         Conflict \/ Replace \/ Resave \/ Replan
  PROVE  StoreInv'
<1>1. CASE Conflict
  <2>1. pc = "conflict" /\ UNCHANGED <<transcript, epoch, saved, row, chunks>>
    BY <1>1, KnownTypes, ConflictFacts DEF RunFields
  <2>2. ~Between /\ Live
    BY <2>1 DEF Between, StoreInv, RowThere
  <2>3. CASE End
    BY <2>1, <2>2, <2>3, EndStore
  <2>4. CASE ~End
    <3>1. pc' = "recover"
      BY <1>1, <2>4, KnownTypes, ConflictFacts
    <3>2. /\ Published(saved') <=> Published(saved)
          /\ Held(saved) => Held(saved)'
          /\ Excused(saved) => Excused(saved)'
      BY <2>1, KnownTypes, HeldStays, ExcuseStays DEF Published
    <3>3. SavedInStore'
      BY <2>2, <3>2 DEF StoreInv, SavedInStore
    <3>4. RowThere'
      BY <2>1, <2>2, <3>1 DEF RowThere, Live
    <3> QED
      BY <3>1, <3>3, <3>4
         DEF StoreInv, VerifiedInStore, PlannedInStore, Planning, Sending, RecoveredInStore,
             DeletesUseless, SavesStored
  <2> QED
    BY <2>3, <2>4
<1>2. CASE Replace
  <2>1. /\ pc = "replace" /\ pc' = "resave" /\ state' = Reset(state) /\ UNCHANGED <<saved, run>>
        /\ row'.status = (IF row.status = "absent" THEN "absent" ELSE "deleted")
    BY <1>2, KnownTypes, ReplaceFacts, DeletedFacts
  <2>2. row'.status = "deleted"
    BY <2>1 DEF StoreInv, RowThere, Live
  <2>3. ~Published(state')
    BY <2>1, KnownTypes, ResetFields, WipedUnpublished
  <2> QED
    BY <2>1, <2>2, <2>3
       DEF StoreInv, SavedInStore, Between, VerifiedInStore, PlannedInStore, Planning, Sending,
           RecoveredInStore, DeletesUseless, SavesStored, RowThere
<1>3. CASE Resave
  <2>1. /\ pc = "resave" /\ pc' = "replan" /\ saved' = state /\ UNCHANGED <<row, chunks, state>>
    BY <1>3, ResaveFacts
  <2>2. /\ Published(saved') <=> Published(state)
        /\ Published(state') <=> Published(state)
    BY <2>1 DEF Published
  <2>3. /\ Held(state) => Held(saved)'
        /\ Held(state) => Held(state)'
    BY <2>1 DEF Held, Holds
  <2>4. RowThere'
    BY <2>1, <2>2 DEF StoreInv, RowThere
  <2> QED
    BY <2>1, <2>2, <2>3, <2>4
       DEF StoreInv, SavedInStore, VerifiedInStore, PlannedInStore, Planning, Sending,
           RecoveredInStore, DeletesUseless, SavesStored
<1>4. CASE Replan
  <2>1. pc = "replan" /\ UNCHANGED <<transcript, epoch, saved, row, chunks>>
    BY <1>4, KnownTypes, ReplanEnds DEF RunFields
  <2>2. ~Between
    BY <2>1 DEF Between
  <2>3. CASE End
    BY <2>1, <2>2, <2>3, EndStore
  <2>4. CASE ~End
    <3>1. plan' # <<>>
      BY <1>4, <2>4, KnownTypes, ReplanEnds
    <3>2. Aead => state.dk # Unreadable
      BY <2>1, KnownTypes DEF BytesInv, KeysKnown, Recovering
    <3>3. pc' = "register" /\ (Same(state', state) \/ Wiped(state', state))
      BY <1>4, <3>1, <3>2, KnownTypes, ReplanFacts
    <3>4. /\ Published(saved') <=> Published(saved)
          /\ Held(saved) => Held(saved)'
          /\ Excused(saved) => Excused(saved)'
      BY <2>1, KnownTypes, HeldStays, ExcuseStays DEF Published
    <3>5. SavedInStore'
      BY <2>2, <3>4 DEF StoreInv, SavedInStore
    <3>6. Published(state') => Published(state) /\ Held(state)'
      <4>1. Wiped(state', state) => ~Published(state')
        BY KnownTypes, WipedUnpublished
      <4>2. Same(state', state) => (Published(state') <=> Published(state))
        BY DEF Same, Published
      <4>3. Same(state', state) /\ Held(state) => Held(state)'
        BY <2>1, HeldStays
      <4> QED
        BY <2>1, <3>3, <4>1, <4>2, <4>3 DEF StoreInv, RecoveredInStore
    <3>7. RowThere'
      BY <2>1, <3>3, <3>4, <3>6 DEF StoreInv, RowThere
    <3> QED
      BY <3>3, <3>5, <3>6, <3>7
         DEF StoreInv, VerifiedInStore, PlannedInStore, RecoveredInStore, DeletesUseless,
             SavesStored
  <2> QED
    BY <2>3, <2>4
<1> QED
  BY <1>1, <1>2, <1>3, <1>4

LEMMA RunStore ==
  ASSUME PublishConstants, KnownInv, StoreInv, LookHeld,
         mishaps \subseteq mishaps', mishaps \cap Severed = {},
         (\E mode \in Modes : Begin(mode)) \/ RunStep
  PROVE  StoreInv'
<1>1. CASE \E mode \in Modes : Begin(mode)
  BY <1>1, BeginStore
<1>2. CASE Return
  <2>1. /\ pc = "done" /\ End /\ UNCHANGED <<transcript, epoch, saved, row, chunks>>
    BY <1>2, ReturnFacts DEF RunFields
  <2> QED
    BY <2>1, EndStore DEF Between
<1> QED
  BY <1>1, <1>2, ReconcileStore, VerifyStore, PlanStore, DeleteStore, RegisterStore, WrapStore,
     SendStore, SaveStore, RecoverStore DEF RunStep, Severed

LEMMA NoLookHeld == run'.look = NoLook => LookHeld'
BY DEF LookHeld, NoLook

(* A comparison reads the file.                                              *)
LEMMA RunLookHeld ==
  ASSUME PublishConstants, KnownInv, LookHeld, mishaps \cap Severed = {},
         (\E mode \in Modes : Begin(mode)) \/ RunStep
  PROVE  LookHeld'
<1>1. CASE ~Reconcile
  BY <1>1, KnownTypes, OthersLookAtNothing, NoLookHeld DEF TypeInv
<1>2. CASE Reconcile /\ End
  BY <1>2, NoLookHeld DEF End, NoRun
<1>3. CASE Reconcile /\ ~End
  <2>1. /\ UNCHANGED <<transcript, chunks, mishaps>>
        /\ run'.look = NoLook \/ Found(run'.look)
    BY <1>3, KnownTypes, ReconcileEffect
  <2>2. CASE Found(run'.look)
    <3> DEFINE l == run'.look
               base == run.look.base
               cursor == run.look.cursor
    <3>1. /\ run.look \in Looks /\ chunks \subseteq Chunk /\ base \in Nat /\ cursor \in Nat
          /\ transcript \in Seq(Nat)
      BY KnownTypes DEF TypeOK, RunTypeOK, Looks
    <3>2. l.base = base /\ l.cursor = cursor => LookHeld'
      BY <2>1 DEF LookHeld
    <3>3. Listed(l) => LookHeld'
      <4>1. ASSUME NEW c \in chunks
            PROVE  ~(c.off < c.off)
        BY <3>1 DEF Chunk
      <4> QED
        BY <4>1 DEF LookHeld, Listed
    <3>4. Asked(l) \/ HeadRead(l) => LookHeld'
      BY <3>2 DEF Asked, HeadRead, SameRange
    <3>5. CASE Compared(l)
      <4>1. CASE \E c \in run.look.left : /\ c.off = cursor /\ Matches(c)
                                           /\ l.left = run.look.left \ {c} /\ l.cursor = c.end
        <5>1. PICK c \in run.look.left : c.off = cursor /\ Matches(c) /\ l.cursor = c.end
          BY <4>1
        <5>2. l.base = base
          BY <3>5 DEF Compared
        <5>3. run.look.left \subseteq chunks
          BY <3>5, KnownTypes DEF Compared, TypeInv, LookInv, LookStore, Undone, Severed
        <5>4. c \in chunks /\ c.off \in Nat /\ c.end \in Nat
          BY <3>1, <5>1, <5>3 DEF Chunk
        <5> DEFINE n == c.end
                   data == Range(transcript, cursor, n)
        <5>5. c.body.data = data /\ Len(data) = n - cursor
          BY <5>1 DEF Matches, Seal, Plain
        <5>6. base <= cursor /\ cursor < n
          BY <5>1, KnownTypes DEF ByteInv, LookBytes
        <5>7. n \in Nat
          BY <5>4
        <5> HIDE DEF base, cursor, n
        <5>8. ASSUME NEW k \in 1 .. Len(data)
              PROVE  cursor + k <= Len(transcript) /\ data[k] = transcript[cursor + k]
          <6>1. transcript \in Seq(Nat) /\ cursor \in Nat /\ n \in Nat
            BY <3>1, <5>7
          <6> QED
            BY <6>1, RangeByte
        <5> HIDE DEF data
        <5>9. n <= Len(transcript)
          <6>1. n - cursor \in 1 .. Len(data) /\ cursor + (n - cursor) = n
            BY <3>1, <5>5, <5>6, <5>7
          <6> QED
            BY <5>8, <6>1
        <5>10. ASSUME NEW x \in base .. n - 1, "reread" \notin mishaps
               PROVE  \E e \in chunks :
                        e.off <= x /\ x < e.end /\ e.body.data[x - e.off + 1] = transcript[x + 1]
          <6>1. CASE x < cursor
            <7>1. x \in base .. cursor - 1 /\ base < cursor
              BY <3>1, <5>7, <5>10, <6>1
            <7> QED
              BY <5>10, <7>1 DEF LookHeld, base, cursor
          <6>2. CASE cursor <= x
            <7>1. /\ x - cursor + 1 \in 1 .. Len(data) /\ x < n
                  /\ cursor + (x - cursor + 1) = x + 1
              BY <3>1, <5>5, <5>7, <5>10, <6>2
            <7>2. data[x - cursor + 1] = transcript[x + 1]
              BY <5>8, <7>1
            <7>3. c.off = cursor /\ c.end = n
              BY <5>1 DEF n, cursor
            <7> QED
              BY <5>4, <5>5, <6>2, <7>1, <7>2, <7>3
          <6> QED
            BY <3>1, <5>7, <5>10, <6>1, <6>2
        <5>11. l.cursor = n
          BY <5>1 DEF n
        <5> QED
          BY <2>1, <5>2, <5>9, <5>10, <5>11 DEF LookHeld
      <4>2. CASE l.cursor = cursor
        BY <3>2, <3>5, <4>2 DEF Compared
      <4> QED
        BY <3>5, <4>1, <4>2 DEF Compared
    <3> QED
      BY <2>2, <3>3, <3>4, <3>5 DEF Found
  <2> QED
    BY <2>1, <2>2, NoLookHeld
<1> QED
  BY <1>1, <1>2, <1>3

(* A rewrite below what was found equal is on record.                        *)
LEMMA EnvironmentLookHeld ==
  ASSUME PublishConstants, KnownInv, LookHeld, Environment, mishaps' \cap Severed = {},
         mishaps \subseteq mishaps'
  PROVE  LookHeld'
<1> DEFINE cursor == run.look.cursor
<1>1. /\ TypeOK /\ transcript \in Seq(Nat) /\ cursor \in Nat /\ run.look.base \in Nat
      /\ LookInv
  BY KnownTypes DEF TypeInv, TypeOK, RunTypeOK, Looks
<1>2. ASSUME UNCHANGED <<chunks, run>>,
             cursor <= Len(transcript) /\ "reread" \notin mishaps' =>
               /\ cursor <= Len(transcript')
               /\ \A k \in 1 .. cursor : transcript'[k] = transcript[k]
      PROVE  LookHeld'
  <2> SUFFICES ASSUME run.look.base < cursor, "reread" \notin mishaps'
               PROVE  /\ cursor <= Len(transcript')
                      /\ \A x \in run.look.base .. cursor - 1 : \E c \in chunks :
                           /\ c.off <= x /\ x < c.end
                           /\ c.body.data[x - c.off + 1] = transcript'[x + 1]
    BY <1>2 DEF LookHeld
  <2>1. /\ cursor <= Len(transcript)
        /\ \A x \in run.look.base .. cursor - 1 : \E c \in chunks :
             c.off <= x /\ x < c.end /\ c.body.data[x - c.off + 1] = transcript[x + 1]
    BY DEF LookHeld
  <2>2. \A x \in run.look.base .. cursor - 1 : x + 1 \in 1 .. cursor
    BY <1>1
  <2> QED
    BY <1>2, <2>1, <2>2
<1>3. CASE EndEarly
  BY <1>3, NoLookHeld DEF EndEarly, End, NoRun
<1>4. CASE Grow
  <2>1. transcript' = Append(transcript, epoch) /\ UNCHANGED <<chunks, run>>
    BY <1>4 DEF Grow, Around, store, local
  <2> HIDE DEF cursor
  <2>2. cursor <= Len(transcript) =>
               /\ cursor <= Len(transcript')
               /\ \A k \in 1 .. cursor : transcript'[k] = transcript[k]
    BY <1>1, <2>1
  <2> QED
    BY <1>2, <2>1, <2>2
<1>5. CASE \E head, tail \in 0 .. MaxLength : Rewrite(head, tail)
  <2>1. PICK head \in 0 .. MaxLength, tail \in 0 .. MaxLength : Rewrite(head, tail)
    BY <1>5
  <2>2. /\ head < Len(transcript) /\ UNCHANGED <<chunks, run>>
        /\ transcript' = SubSeq(transcript, 1, head) \o [i \in 1 .. tail |-> epoch + 1]
        /\ run.look.base < cursor /\ head < cursor => "reread" \in mishaps'
    BY <2>1 DEF Rewrite, Suffers, Around, store, local
  <2>3. CASE run.look.base < cursor /\ head >= cursor
    <3> DEFINE x == SubSeq(transcript, 1, head)
               y == [i \in 1 .. tail |-> epoch + 1]
    <3>1. head \in Nat /\ tail \in Nat
      BY DEF PublishConstants
    <3>2. x \in Seq(Nat) /\ Len(x) = head /\ \A n \in 1 .. head : x[n] = transcript[n]
      BY <1>1, <2>2, <3>1
    <3>3. epoch + 1 \in Nat
      BY <1>1 DEF TypeOK, FileTypeOK
    <3>4. y \in Seq(Nat) /\ Len(y) = tail
      BY <3>1, <3>3
    <3> HIDE DEF x, y, cursor
    <3>5. transcript' = x \o y
      BY <2>2 DEF x, y
    <3>6. /\ Len(x \o y) = head + tail
          /\ \A k \in 1 .. head : (x \o y)[k] = x[k]
      BY <3>2, <3>4, ConcatIndex
    <3>7. /\ cursor <= Len(transcript')
          /\ \A k \in 1 .. cursor : transcript'[k] = transcript[k]
      BY <1>1, <2>3, <3>1, <3>2, <3>5, <3>6
    <3> QED
      BY <1>2, <2>2, <3>7
  <2>4. CASE ~(run.look.base < cursor)
    BY <1>1, <2>2, <2>4 DEF LookHeld
  <2>5. CASE run.look.base < cursor /\ head < cursor
    BY <2>2, <2>5 DEF LookHeld
  <2> QED
    BY <1>1, <2>3, <2>4, <2>5
<1>6. CASE Unpublish
  <2>1. ~InRun /\ run' = run
    BY <1>6 DEF Unpublish, Suffers, Crossing, Severed, local
  <2>2. run.look = NoLook
    BY <1>1, <2>1 DEF InRun, LookInv, Reading
  <2> QED
    BY <2>1, <2>2, NoLookHeld
<1>7. CASE LoseState \/ SpoilKey \/ ShareOff \/ ShareOn
  <2>1. UNCHANGED <<transcript, chunks, run>>
    BY <1>7 DEF LoseState, SpoilKey, ShareOff, ShareOn, file, Around, store, local
  <2> QED
    BY <1>2, <2>1
<1> QED
  BY <1>3, <1>4, <1>5, <1>6, <1>7 DEF Environment

(* Nothing in the store or in the run changes, and the state file stays or   *)
(* the next run will not resume from it: so between two steps of a run.      *)
LEMMA AroundStore ==
  ASSUME KnownInv, StoreInv, UNCHANGED <<row, chunks>>, Idle, mishaps \subseteq mishaps',
         Doomed(state) => Doomed(state)',
         Published(saved') => /\ Published(saved)
                              /\ saved' = saved \/ saved'.dk = Unreadable,
         saved' = saved => (Doomed(saved) => Doomed(saved)')
  PROVE  StoreInv'
<1>1. /\ UNCHANGED <<pc, state, plan, run, row, chunks>>
      /\ (Aead' <=> Aead) /\ (Between' <=> Between) /\ (Live' <=> Live)
      /\ Published(state') <=> Published(state)
  BY DEF Idle, Aead, Between, Live, Published
<1>2. /\ Held(state) => Held(state)'
      /\ Excused(state) => Excused(state)'
      /\ saved' = saved /\ Held(saved) => Held(saved)'
      /\ saved' = saved /\ Excused(saved) => Excused(saved)'
      /\ saved'.dk = Unreadable => Excused(saved)'
  BY <1>1 DEF Held, Holds, Excused
<1>3. SavedInStore'
  BY <1>1, <1>2 DEF StoreInv, SavedInStore
<1>4. VerifiedInStore'
  BY <1>1, <1>2 DEF StoreInv, VerifiedInStore
<1>5. PlannedInStore' /\ RecoveredInStore'
  BY <1>1, <1>2 DEF StoreInv, PlannedInStore, RecoveredInStore
<1>6. DeletesUseless'
  BY <1>1, <1>2 DEF StoreInv, DeletesUseless
<1>7. SavesStored' /\ RowThere'
  BY <1>1 DEF StoreInv, SavesStored, RowThere
<1> QED
  BY <1>3, <1>4, <1>5, <1>6, <1>7 DEF StoreInv

LEMMA EnvironmentStore ==
  ASSUME PublishConstants, KnownInv, StoreInv, Environment, mishaps' \cap Severed = {},
         mishaps \subseteq mishaps'
  PROVE  StoreInv'
<1>1. "abandoned" \notin mishaps' /\ "crossed" \notin mishaps'
  BY DEF Severed
<1>2. CASE Grow \/ (\E head, tail \in 0 .. MaxLength : Rewrite(head, tail))
  <2>1. /\ FileMoves(transcript, epoch, transcript', epoch')
        /\ UNCHANGED <<saved, row, chunks>> /\ Idle
    BY <1>2, KnownTypes, EditFacts
  <2>2. (Doomed(saved) => Doomed(saved)') /\ (Doomed(state) => Doomed(state)')
    BY <2>1, KnownTypes, FileMovesBytes
  <2>3. Published(saved') => Published(saved)
    BY <2>1 DEF Published
  <2> QED
    BY <2>1, <2>2, <2>3, AroundStore
<1>3. CASE EndEarly
  <2>1. /\ End /\ UNCHANGED <<transcript, epoch, saved, row, chunks>>
        /\ ~(pc \in {"register", "resave"} /\ row.status = "deleted")
    BY <1>1, <1>3, EndEarlyFacts
  <2>2. ~Between
    BY <2>1 DEF Between
  <2> QED
    BY <2>1, <2>2, EndStore
<1>4. CASE LoseState
  <2>1. /\ saved' = Fresh /\ UNCHANGED <<transcript, epoch, row, chunks, state>> /\ Idle
    BY <1>4, LoseFacts DEF Idle
  <2>2. ~Published(saved')
    BY <2>1 DEF Fresh, Published
  <2>3. /\ Doomed(state) => Doomed(state)'
        /\ saved' = saved => (Doomed(saved) => Doomed(saved)')
    BY <2>1 DEF Doomed
  <2> QED
    BY <2>1, <2>2, <2>3, AroundStore
<1>5. CASE SpoilKey
  <2>1. /\ saved'.dk = Unreadable /\ Same(saved', saved)
        /\ UNCHANGED <<transcript, epoch, row, chunks, state>> /\ Idle
    BY <1>5, KnownTypes, SpoilFacts DEF Idle
  <2>2. Published(saved') => Published(saved)
    BY <2>1 DEF Same, Published
  <2>3. /\ Doomed(state) => Doomed(state)'
        /\ saved' = saved => (Doomed(saved) => Doomed(saved)')
    BY <2>1 DEF Doomed
  <2> QED
    BY <2>1, <2>2, <2>3, AroundStore
<1>6. CASE Unpublish
  <2>1. /\ saved' = Fresh /\ Idle /\ ~InRun /\ row.status # "absent"
        /\ row'.status = (IF row.status = "absent" THEN "absent" ELSE "deleted")
    BY <1>1, <1>6, KnownTypes, UnpublishFacts, DeletedFacts DEF Unpublish
  <2>2. pc' = "idle" /\ ~Published(saved') /\ row'.status # "absent"
    BY <2>1 DEF InRun, Idle, Fresh, Published
  <2> QED
    BY <2>2
       DEF StoreInv, SavedInStore, VerifiedInStore, PlannedInStore, Planning, Sending,
           RecoveredInStore, DeletesUseless, SavesStored, RowThere
<1>7. CASE ShareOff \/ ShareOn
  <2>1. /\ UNCHANGED <<transcript, epoch, row, chunks, state>> /\ Idle
        /\ \/ saved' = saved
           \/ /\ ~Published(saved)
              /\ saved'.start = Len(transcript) /\ saved'.offset = saved.offset
              /\ saved'.digest = saved.digest /\ saved'.prefix = saved.prefix
    BY <1>7, KnownTypes, ShareFacts DEF Idle
  <2>2. Published(saved') => saved' = saved /\ Published(saved)
    <3>1. Len(transcript) \in Nat /\ StateKnownIn(saved, transcript, epoch)
      BY KnownTypes DEF BytesInv, StatesKnown
    <3>2. saved' # saved => ~Published(saved')
      BY <2>1, <3>1, KnownTypes, MovedMark
    <3> QED
      BY <3>2 DEF Published
  <2>3. /\ Doomed(state) => Doomed(state)'
        /\ saved' = saved => (Doomed(saved) => Doomed(saved)')
    BY <2>1 DEF Doomed
  <2> QED
    BY <2>1, <2>2, <2>3, AroundStore
<1> QED
  BY <1>2, <1>3, <1>4, <1>5, <1>6, <1>7 DEF Environment

StoreSafe == KnownInv /\ Unless(Severed, StoreInv /\ LookHeld)

LEMMA StoreSafeInductive ==
  ASSUME PublishConstants
  PROVE  /\ Init => StoreSafe
         /\ StoreSafe /\ [Next]_vars => StoreSafe'
<1>1. Init => StoreSafe
  <2>1. Init => StoreInv /\ LookHeld
    <3> SUFFICES ASSUME Init
                 PROVE  StoreInv /\ LookHeld
      OBVIOUS
    <3>1. pc = "idle" /\ state = Fresh /\ saved.offset = 0 /\ saved.start \in Nat
      BY DEF Init, Fresh
    <3>2. ~Published(saved) /\ ~Published(state)
      BY <3>1 DEF Published, Fresh
    <3>3. LookHeld
      BY DEF Init, NoRun, NoLook, LookHeld
    <3> QED
      BY <3>1, <3>2, <3>3
         DEF StoreInv, SavedInStore, VerifiedInStore, PlannedInStore, Planning, Sending,
             RecoveredInStore, DeletesUseless, SavesStored, RowThere
  <2> QED
    BY <2>1, KnownInvInductive DEF StoreSafe, Unless
<1>2. ASSUME StoreSafe, [Next]_vars
      PROVE  StoreSafe'
  <2>1. KnownInv /\ KnownInv' /\ TypeOK
    BY <1>2, KnownTypes, KnownInvInductive DEF StoreSafe
  <2>2. mishaps \subseteq mishaps'
    BY <1>2, <2>1, MishapsStay
  <2>3. ASSUME mishaps' \cap Severed = {}
        PROVE  StoreInv' /\ LookHeld'
    <3>1. StoreInv /\ LookHeld /\ mishaps \cap Severed = {}
      BY <1>2, <2>2, <2>3 DEF StoreSafe, Unless
    <3>2. CASE UNCHANGED vars
      <4>1. /\ UNCHANGED <<row, chunks>> /\ Idle
            /\ UNCHANGED <<transcript, epoch, saved, state, mishaps>>
        BY <3>2 DEF vars, file, store, local, history, Idle
      <4>2. /\ Doomed(state) => Doomed(state)'
            /\ Doomed(saved) => Doomed(saved)'
            /\ Published(saved') => Published(saved)
        BY <4>1 DEF Doomed, Published
      <4>3. LookHeld'
        BY <3>1, <4>1 DEF LookHeld, Idle
      <4> QED
        BY <2>1, <2>2, <3>1, <4>1, <4>2, <4>3, AroundStore
    <3>3. CASE (\E mode \in Modes : Begin(mode)) \/ RunStep
      BY <2>1, <2>2, <3>1, <3>3, RunStore, RunLookHeld
    <3>4. CASE Environment
      BY <2>1, <2>2, <2>3, <3>1, <3>4, EnvironmentStore, EnvironmentLookHeld
    <3> QED
      BY <1>2, <3>2, <3>3, <3>4 DEF Next, RunStep, Environment
  <2> QED
    BY <2>1, <2>3 DEF StoreSafe, Unless
<1> QED
  BY <1>1, <1>2

(* A state file the next run would resume from is true: every byte it calls  *)
(* published is in the store, as the transcript has it.  Conflicts, retries, *)
(* migrations, rotations, ends of a run at any step but right after a        *)
(* deletion, and rewrites between any two steps keep it so: but for a rewrite*)
(* of bytes a reconciliation found equal and hashes once more.               *)
THEOREM CheckpointAlways == Spec => []CheckpointUnlessAbandoned
<1>1. StoreSafe => CheckpointUnlessAbandoned
  <2> SUFFICES ASSUME StoreSafe, mishaps \cap Severed = {}, "reread" \notin mishaps, Resumable,
                      NEW b \in saved.start .. saved.offset - 1
               PROVE  \E c \in Remote :
                        /\ c.off <= b /\ b < c.end
                        /\ c.body.data[b - c.off + 1] = transcript[b + 1]
    BY DEF CheckpointUnlessAbandoned, CheckpointIsTrue, Unless, Severed, Covers
  <2>1. KnownInv /\ StoreInv
    BY DEF StoreSafe, Unless
  <2>2. /\ pc = "idle" /\ Published(saved) /\ Verified(saved, Len(transcript))
        /\ saved.enc = row.enc /\ saved.dk # Unreadable
    BY DEF Resumable
  <2>3. /\ saved \in PublishState /\ StateKnownIn(saved, transcript, epoch)
        /\ transcript \in Seq(Nat) /\ epoch \in Nat /\ Len(transcript) \in Nat
    BY <2>1, KnownTypes DEF BytesInv, StatesKnown
  <2>4. ~Doomed(saved)
    BY <2>2, <2>3, PublishConstants, VerifiedMeans DEF Doomed
  <2>5. PICK c \in chunks : /\ c.off <= b /\ b < c.end
                            /\ c.body.data[b - c.off + 1] = saved.digest[b - saved.start + 1]
    BY <2>1, <2>2, <2>4 DEF StoreInv, SavedInStore, Excused, Between, Held, Holds
  <2>6. saved.digest[b - saved.start + 1] = transcript[b + 1]
    <3>1. saved.digest = Range(transcript, saved.start, saved.offset)
      BY <2>2 DEF Verified
    <3>2. /\ saved.start \in Nat /\ saved.offset \in Nat /\ saved.offset <= Len(transcript)
          /\ saved.start <= saved.offset
      BY <2>2, <2>3, <2>4, OffsetInFile, StateFields DEF Doomed, Published
    <3>3. Len(Range(transcript, saved.start, saved.offset)) = saved.offset - saved.start
      BY <2>3, <3>2, RangeElements DEF Least
    <3>4. b - saved.start + 1 \in 1 .. Len(Range(transcript, saved.start, saved.offset))
      BY <3>2, <3>3
    <3>5. Range(transcript, saved.start, saved.offset)[b - saved.start + 1]
            = transcript[saved.start + (b - saved.start + 1)]
      <4> DEFINE s == saved.start
                 o == saved.offset
      <4>1. transcript \in Seq(Nat) /\ s \in Nat /\ o \in Nat
        BY <2>3, <3>2
      <4> HIDE DEF s, o
      <4>2. \A k \in 1 .. Len(Range(transcript, s, o)) :
              Range(transcript, s, o)[k] = transcript[s + k]
        BY <4>1, RangeElements
      <4> QED
        BY <3>4, <4>2, Zenon DEF s, o
    <3>6. saved.start + (b - saved.start + 1) = b + 1
      BY <3>2
    <3> QED
      BY <3>1, <3>5, <3>6
  <2>7. c \in Remote
    BY <2>1 DEF Remote, KnownInv, RowInv
  <2> QED
    BY <2>5, <2>6, <2>7
<1> QED
  BY <1>1, PublishConstants, StoreSafeInductive, PTL DEF Spec

-----------------------------------------------------------------------------
(* The chunks in the store are one run                                      *)

Split == {"unsaved", "abandoned", "lost", "crossed"}

(* A place between two chunks, or at an end of them. *)
Edge(p) == \E c \in chunks : p = c.off \/ p = c.end

(* The chunks lie end to end, and none at the same place as another. *)
Tiled ==
    /\ \A c, d \in chunks : c.off < d.off => c.end <= d.off /\ \E e \in chunks : e.end = d.off
    /\ \A c, d \in chunks : c.off = d.off => c = d
    /\ \A c \in chunks : (\E d \in chunks : d.off = c.end) \/ (\A d \in chunks : d.end <= c.end)

Resuming == pc \in {"verify", "resave", "replan"} \/ (pc = "plan" /\ ~run.deleting)
Transmitting == {"register", "wrap", "send", "save"}

(* While there are chunks, whatever a run resumes from, plans from or is     *)
(* about to send is at an edge of them.                                      *)
EdgesInv ==
    /\ Tiled
    /\ chunks # {} =>
         /\ pc # "reconcile"
         /\ pc # "save" => Published(saved) /\ Edge(saved.start) /\ Edge(saved.offset)
         /\ Resuming => Published(state) /\ Edge(state.start) /\ Edge(state.offset)
         /\ pc \in Transmitting => Edge(state.start) /\ Edge(plan[1].off)
    /\ pc \in Planning /\ Published(state) => chunks # {} \/ (~Aead /\ row.enc)

LEMMA NothingTiled ==
  ASSUME chunks' = {}, pc' \in Planning => ~Published(state')
  PROVE  EdgesInv'
BY DEF EdgesInv, Tiled

LEMMA SameChunks ==
  ASSUME EdgesInv, chunks' = chunks
  PROVE  Tiled'
BY DEF EdgesInv, Tiled

LEMMA EndEdges ==
  ASSUME EdgesInv, End, pc # "save", UNCHANGED <<saved, chunks>>
  PROVE  EdgesInv'
<1>1. pc' = "idle" /\ state' = Fresh /\ run' = NoRun
  BY DEF End
<1>2. Tiled'
  BY SameChunks
<1>3. chunks' # {} => Published(saved') /\ Edge(saved.start)' /\ Edge(saved.offset)'
  BY <1>2 DEF EdgesInv, Edge, Published
<1> QED
  BY <1>1, <1>2, <1>3 DEF EdgesInv, Resuming, Transmitting, Planning, Sending, Published

(* A chunk that begins at an edge where no chunk begins comes after them all.*)
LEMMA TiledGrows ==
  ASSUME chunks \subseteq Chunk, ChunkShape, Tiled,
         NEW n \in [off : Nat, end : Nat, body : Body], n.off < n.end,
         chunks = {} \/ Edge(n.off), \A d \in chunks : d.off # n.off,
         chunks' = chunks \cup {n}
  PROVE  Tiled'
<1>1. /\ n.off \in Nat /\ n.end \in Nat
      /\ \A c \in chunks : c.off \in Nat /\ c.end \in Nat /\ c.off < c.end
  BY DEF Chunk, ChunkShape
<1>2. \A d \in chunks : d.end <= n.off
  <2>1. CASE chunks = {}
    BY <2>1
  <2>2. CASE chunks # {}
    <3>1. PICK c \in chunks : n.off = c.end
      BY <2>2 DEF Edge
    <3>2. \A d \in chunks : d.off # c.end
      BY <3>1
    <3> QED
      BY <3>1, <3>2 DEF Tiled
  <2> QED
    BY <2>1, <2>2
<1>3. \A c \in chunks : c.off < n.off
  BY <1>1, <1>2
<1>4. \A c \in chunks : \E e \in chunks : e.end = n.off
  BY DEF Edge
<1>5. \A c, d \in chunks' : c.off < d.off => c.end <= d.off /\ \E e \in chunks' : e.end = d.off
  <2> SUFFICES ASSUME NEW c \in chunks', NEW d \in chunks', c.off < d.off
               PROVE  c.end <= d.off /\ \E e \in chunks' : e.end = d.off
    OBVIOUS
  <2>1. CASE c \in chunks /\ d \in chunks
    BY <2>1 DEF Tiled
  <2>2. CASE c \in chunks /\ d = n
    BY <1>2, <1>4, <2>2
  <2>3. c # n
    BY <1>1, <1>3
  <2> QED
    BY <2>1, <2>2, <2>3
<1>6. \A c, d \in chunks' : c.off = d.off => c = d
  BY <1>3 DEF Tiled
<1>7. \A c \in chunks' : (\E d \in chunks' : d.off = c.end) \/ (\A d \in chunks' : d.end <= c.end)
  <2> SUFFICES ASSUME NEW c \in chunks'
               PROVE  (\E d \in chunks' : d.off = c.end) \/ (\A d \in chunks' : d.end <= c.end)
    OBVIOUS
  <2>1. CASE c = n
    BY <1>1, <1>2, <2>1
  <2>2. CASE c \in chunks /\ \E d \in chunks : d.off = c.end
    BY <2>2
  <2>3. CASE c \in chunks /\ \A d \in chunks : d.end <= c.end
    <3>1. PICK e \in chunks : e.end = n.off
      BY <1>4, <2>3
    <3>2. c.end = n.off
      BY <1>1, <1>2, <2>3, <3>1
    <3> QED
      BY <3>2
  <2> QED
    BY <2>1, <2>2, <2>3 DEF Tiled
<1> QED
  BY <1>5, <1>6, <1>7 DEF Tiled

LEMMA BeginEdges ==
  ASSUME PublishConstants, KnownInv, EdgesInv, NEW mode \in Modes, Begin(mode)
  PROVE  EdgesInv'
<1>1. /\ pc = "idle" /\ state' = saved /\ UNCHANGED <<saved, chunks>>
      /\ pc' = IF Published(saved) THEN "verify" ELSE "reconcile"
  BY BeginFacts
<1>2. Tiled'
  BY <1>1, SameChunks
<1>3. chunks' # {} =>
        /\ Published(saved) /\ Published(saved') /\ Published(state')
        /\ Edge(saved.start)' /\ Edge(saved.offset)'
        /\ Edge(state.start)' /\ Edge(state.offset)'
  BY <1>1, <1>2 DEF EdgesInv, Edge, Published
<1> QED
  BY <1>1, <1>2, <1>3 DEF EdgesInv, Resuming, Transmitting, Planning, Sending

(* What is adopted begins where the first chunk does, and ends where one ends.*)
LEMMA ReconcileEdges ==
  ASSUME PublishConstants, KnownInv, EdgesInv, "crossed" \notin mishaps, Reconcile
  PROVE  EdgesInv'
<1>1. pc \in Reading /\ UNCHANGED <<saved, row, chunks>>
  BY KnownTypes, ReconcileFacts
<1>2. CASE End
  BY <1>1, <1>2, EndEdges DEF Reading
<1>3. CASE ~End /\ pc = "reconcile"
  <2>1. chunks' = {} /\ pc' \in {"reconcile", "verify"}
    BY <1>1, <1>3, KnownTypes, ReconcileEffect DEF EdgesInv
  <2> QED
    BY <2>1, NothingTiled DEF Planning, Sending
<1>4. CASE ~End /\ pc = "recover"
  <2>1. /\ \/ pc' = pc
           \/ pc' = IF state'.offset <= state.offset THEN "replace" ELSE "resave"
        /\ \/ state' = state
           \/ /\ run.look.at = "digest" /\ Published(state')
              /\ state'.start = run.look.base /\ state'.offset = run.look.cursor
    BY <1>4, KnownTypes, ReconcileEffect
  <2>2. pc' \in {"recover", "replace", "resave"}
    BY <1>4, <2>1
  <2>3. pc' = "resave" => Published(state') /\ Edge(state.start)' /\ Edge(state.offset)'
    <3> SUFFICES ASSUME pc' = "resave"
                 PROVE  Published(state') /\ Edge(state.start)' /\ Edge(state.offset)'
      OBVIOUS
    <3>1. ~(state'.offset <= state.offset)
      BY <1>4, <2>1
    <3>2. state' # state
      BY <3>1, KnownTypes, StateFields
    <3>3. LookStore
      BY <2>1, <3>2, KnownTypes DEF TypeInv, LookInv, Undone
    <3>4. \E b, e \in chunks : run.look.base = b.off /\ run.look.cursor = e.end
      BY <2>1, <3>2, <3>3 DEF LookStore
    <3> QED
      BY <1>1, <2>1, <3>2, <3>4 DEF Edge
  <2>4. chunks' # {} => Published(saved') /\ Edge(saved.start)' /\ Edge(saved.offset)'
    BY <1>1, <1>4 DEF EdgesInv, Edge, Published
  <2> QED
    BY <1>1, <2>2, <2>3, <2>4, SameChunks
       DEF EdgesInv, Resuming, Transmitting, Planning, Sending
<1> QED
  BY <1>1, <1>2, <1>3, <1>4 DEF Reading

LEMMA VerifyEdges ==
  ASSUME PublishConstants, KnownInv, StoreInv, EdgesInv, mishaps \subseteq mishaps', Verify
  PROVE  EdgesInv'
<1>1. /\ pc = "verify" /\ pc' = "plan" /\ UNCHANGED <<saved, chunks, row>>
      /\ run'.deleting => Wiped(state', state)
      /\ ~run'.deleting => Same(state', state) \/ Wiped(state', state)
      /\ ~run'.deleting /\ state.dk # Unreadable => Same(state', state)
  BY KnownTypes, VerifyFacts
<1>2. Tiled'
  BY <1>1, SameChunks
<1>3. chunks' # {} => Published(saved') /\ Edge(saved.start)' /\ Edge(saved.offset)'
  BY <1>1, <1>2 DEF EdgesInv, Edge, Published
<1>4. chunks # {} /\ ~run'.deleting =>
        Published(state') /\ Edge(state.start)' /\ Edge(state.offset)'
  <2> SUFFICES ASSUME chunks # {}, ~run'.deleting
               PROVE  Published(state') /\ Edge(state.start)' /\ Edge(state.offset)'
    OBVIOUS
  <2>1. state.dk # Unreadable
    <3>1. ~(Aead /\ state.enc /\ state.dk = Unreadable)
      BY KnownTypes, VerifyKeeps
    <3>2. ~Aead => ~state.enc
      BY DEF KnownInv, RowInv
    <3>3. ~state.enc => state.dk = NoKey
      BY KnownTypes DEF BytesInv, KeysKnown
    <3> QED
      BY <3>1, <3>2, <3>3 DEF NoKey, Unreadable
  <2>2. Published(state) /\ Edge(state.start) /\ Edge(state.offset)
    BY <1>1 DEF EdgesInv, Resuming
  <2> QED
    BY <1>1, <1>2, <2>1, <2>2 DEF Same, Edge, Published
<1>5. Published(state') => chunks' # {} \/ (~Aead' /\ row'.enc)
  <2>1. StoreInv'
    BY VerifyStore
  <2>2. Published(state') => Held(state)' \/ (~Aead' /\ row'.enc)
    <3>1. Published(state') => ~run'.deleting /\ Same(state', state)
      BY <1>1, KnownTypes, WipedUnpublished
    <3>2. Published(state') => ~(Len(state'.digest) > state'.offset - state'.start)
      <4>1. ~run'.deleting => ~Doomed(state)
        BY <1>1, KnownTypes, VerifyKeeps, Verdict DEF InRun
      <4>2. Published(state') /\ Same(state', state) => Published(state)
        BY DEF Same, Published
      <4> QED
        BY <3>1, <4>1, <4>2 DEF Doomed, DoomedIn, Same
    <3> QED
      BY <1>1, <2>1, <3>2 DEF StoreInv, PlannedInStore, Planning
  <2>3. Published(state') /\ Held(state)' => chunks' # {}
    <3>1. state' \in PublishState
      BY KnownTypes, VerifyFacts
    <3>2. Published(state') => state'.start \in state'.start .. state'.offset - 1
      BY <3>1, StateFields DEF Published
    <3> QED
      BY <3>2 DEF Held, Holds
  <2> QED
    BY <2>2, <2>3
<1> QED
  BY <1>1, <1>2, <1>3, <1>4, <1>5 DEF EdgesInv, Resuming, Transmitting

(* The first piece of a plan begins where the state resumes, or at its       *)
(* watermark.                                                                *)
LEMMA PlanEdges ==
  ASSUME PublishConstants, KnownInv, EdgesInv, Plan
  PROVE  EdgesInv'
<1>1. pc = "plan" /\ UNCHANGED <<saved, chunks, row>>
  BY PlanStepFacts
<1>2. CASE End
  BY <1>1, <1>2, EndEdges
<1>3. CASE ~End
  <2>1. /\ pc' = (IF run.deleting THEN "delete" ELSE "register")
        /\ plan' = PlanChunks(state, run.size) /\ plan' # <<>> /\ UNCHANGED <<state, run>>
    BY <1>3, PlanStepFacts
  <2>2. plan'[1].off = IF Verified(state, run.size) THEN PlanStart(state) ELSE state.start
    BY <2>1, KnownTypes, PlanPieces
  <2>3. plan'[1].off \in {state.start, state.offset}
    BY <2>2 DEF PlanStart, Most
  <2>4. chunks' # {} => Published(saved') /\ Edge(saved.start)' /\ Edge(saved.offset)'
    BY <1>1 DEF EdgesInv, Edge, Published
  <2>5. pc' = "register" /\ chunks' # {} => Edge(state.start)' /\ Edge(plan[1].off)'
    BY <1>1, <2>1, <2>3 DEF EdgesInv, Resuming, Edge
  <2>6. Published(state') => chunks' # {} \/ (~Aead' /\ row'.enc)
    BY <1>1, <2>1 DEF EdgesInv, Planning, Aead, Published
  <2> QED
    BY <1>1, <2>1, <2>4, <2>5, <2>6, SameChunks DEF EdgesInv, Resuming, Transmitting
<1> QED
  BY <1>2, <1>3

LEMMA DeleteEdges ==
  ASSUME PublishConstants, KnownInv, StoreInv, Delete
  PROVE  EdgesInv'
<1>1. pc = "delete" /\ chunks' = {} /\ UNCHANGED state
  BY KnownTypes, DeleteFacts, DeletedFacts
<1>2. ~Published(state')
  BY <1>1 DEF StoreInv, DeletesUseless, Published
<1> QED
  BY <1>1, <1>2, NothingTiled

(* The steps before the first chunk leave the chunks and the plan alone.     *)
LEMMA ReadyEdges ==
  ASSUME PublishConstants, KnownInv, EdgesInv, Register \/ PutWraps
  PROVE  EdgesInv'
<1>1. /\ pc \in {"register", "wrap"} /\ UNCHANGED <<saved, chunks>>
      /\ \/ End
         \/ /\ pc' \in {"wrap", "send"} /\ UNCHANGED <<state, plan>> /\ run'.mode = run.mode
            /\ row'.enc = (row.enc \/ Aead) \/ row' = row
  BY KnownTypes, RegisterFacts, WrapFacts, EnterFacts DEF RunKept
<1>2. CASE End
  BY <1>1, <1>2, EndEdges
<1>3. CASE ~End
  <2>1. /\ pc' \in {"wrap", "send"} /\ UNCHANGED <<state, plan>> /\ run'.mode = run.mode
        /\ row'.enc = (row.enc \/ Aead) \/ row' = row
    BY <1>1, <1>3
  <2>2. chunks' # {} => /\ Published(saved') /\ Edge(saved.start)' /\ Edge(saved.offset)'
                        /\ Edge(state.start)' /\ Edge(plan[1].off)'
    BY <1>1, <2>1 DEF EdgesInv, Transmitting, Edge, Published
  <2>3. Published(state') => chunks' # {} \/ (~Aead' /\ row'.enc)
    BY <1>1, <2>1 DEF EdgesInv, Planning, Sending, Aead, Published
  <2> QED
    BY <1>1, <2>1, <2>2, <2>3, SameChunks DEF EdgesInv, Resuming, Transmitting
<1> QED
  BY <1>2, <1>3

(* The first chunk of an empty store goes to the watermark of the state.     *)
LEMMA FirstPiece ==
  ASSUME PublishConstants, KnownInv, EdgesInv, pc = "send", row.enc = Aead, chunks = {}
  PROVE  Head(plan).off = state.start
<1>1. ~Published(state)
  BY KnownTypes DEF EdgesInv, Planning, Sending
<1>2. state.digest = <<>>
  BY <1>1, KnownTypes DEF BytesInv, StatesKnown, StateKnownIn
<1>3. plan # <<>>
  BY KnownTypes DEF PlanInv, Sending
<1>4. Head(plan) = plan[1] /\ 1 \in 1 .. Len(plan) /\ Head(plan).off \in Nat
  BY <1>3, KnownTypes, HeadPiece
<1>5. state.start <= plan[1].off /\ plan[1].off - state.start <= Len(state.digest)
  BY <1>4, KnownTypes DEF BytesInv, PlanKnown, Sending
<1>6. state.start \in Nat
  BY KnownTypes, StateFields
<1>7. Len(state.digest) = 0
  BY <1>2
<1> QED
  BY <1>4, <1>5, <1>6, <1>7

LEMMA SendEdges ==
  ASSUME PublishConstants, KnownInv, EdgesInv, Send
  PROVE  EdgesInv'
<1>1. pc = "send" /\ UNCHANGED <<saved, row>>
  BY KnownTypes, SendFacts
<1>2. CASE End /\ chunks' = chunks
  BY <1>1, <1>2, EndEdges
<1>3. CASE pc' = "conflict"
  <2>1. chunks' = chunks /\ UNCHANGED <<state, plan, run>>
    BY <1>3, KnownTypes, SendFacts DEF End
  <2> QED
    BY <1>1, <1>3, <2>1, SameChunks
       DEF EdgesInv, Resuming, Transmitting, Planning, Sending, Edge, Published
<1>4. CASE pc' = "save"
  <2>1. /\ row.enc = Aead /\ Len(ReadNow) = Head(plan).end - Head(plan).off
        /\ \/ /\ \A d \in chunks : d.off # Head(plan).off
              /\ chunks' = chunks \cup
                   {[off |-> Head(plan).off, end |-> Head(plan).end, body |-> BodyOf(ReadNow)]}
           \/ /\ chunks' = chunks
              /\ \E d \in chunks : d.off = Head(plan).off
        /\ UNCHANGED <<state, plan>> /\ run'.mode = run.mode
    <3>1. pc' # "conflict" /\ ~End
      BY <1>4 DEF End
    <3> QED
      BY <1>4, <3>1, KnownTypes, SendFacts DEF RunKept
  <2>2. plan # <<>>
    BY <1>1, KnownTypes DEF PlanInv, Sending
  <2>3. /\ Head(plan) = plan[1] /\ 1 \in 1 .. Len(plan)
        /\ Head(plan).off \in Nat /\ Head(plan).end \in Nat
    BY <2>2, KnownTypes, HeadPiece
  <2>4. Head(plan).off < Head(plan).end
    BY <1>1, <2>3, KnownTypes DEF BytesInv, PlanKnown, Sending
  <2>5. Tiled' /\ chunks \subseteq chunks'
    <3>1. CASE chunks' = chunks
      BY <3>1, SameChunks
    <3>2. CASE chunks' # chunks
      <4> DEFINE n == [off |-> Head(plan).off, end |-> Head(plan).end, body |-> BodyOf(ReadNow)]
      <4>1. (\A d \in chunks : d.off # Head(plan).off) /\ chunks' = chunks \cup {n}
        BY <2>1, <3>2
      <4>2. n \in Chunk
        <5>1. TypeOK'
          BY KnownTypes, NextType DEF Next, RunStep, TypeInv
        <5>2. chunks' \subseteq Chunk
          BY <5>1 DEF TypeOK, StoreTypeOK, Chunk
        <5> QED
          BY <4>1, <5>2
      <4>3. n.off = Head(plan).off /\ n.end = Head(plan).end
        OBVIOUS
      <4>4. chunks = {} \/ Edge(n.off)
        BY <1>1, <2>3, <4>3 DEF EdgesInv, Transmitting
      <4> HIDE DEF n
      <4>5. /\ chunks \subseteq Chunk /\ ChunkShape /\ Tiled
        BY KnownTypes DEF BytesInv, EdgesInv
      <4>6. Tiled'
        BY <2>4, <4>1, <4>2, <4>3, <4>4, <4>5, TiledGrows DEF Chunk
      <4> QED
        BY <4>1, <4>6
    <3> QED
      BY <3>1, <3>2
  <2>6. \E d \in chunks' : d.off = Head(plan).off
    <3> DEFINE n == [off |-> Head(plan).off, end |-> Head(plan).end, body |-> BodyOf(ReadNow)]
    <3>1. n.off = Head(plan).off
      OBVIOUS
    <3>2. n \in chunks' \/ \E d \in chunks' : d.off = Head(plan).off
      BY <2>1
    <3> HIDE DEF n
    <3> QED
      BY <3>1, <3>2
  <2>7. Edge(plan[1].off)'
    BY <2>1, <2>3, <2>6 DEF Edge
  <2>8. Edge(state.start)'
    <3>1. CASE chunks = {}
      BY <1>1, <2>1, <2>6, <3>1, FirstPiece DEF Edge
    <3>2. CASE chunks # {}
      BY <1>1, <2>1, <2>5, <3>2 DEF EdgesInv, Transmitting, Edge
    <3> QED
      BY <3>1, <3>2
  <2> QED
    BY <1>4, <2>5, <2>6, <2>7, <2>8 DEF EdgesInv, Resuming, Transmitting
<1> QED
  BY <1>2, <1>3, <1>4, KnownTypes, SendFacts

LEMMA SaveEdges ==
  ASSUME PublishConstants, KnownInv, StoreInv, EdgesInv, Save
  PROVE  EdgesInv'
<1>1. /\ pc = "save" /\ pc' = IF Len(plan) = 1 THEN "done" ELSE "send"
      /\ saved' = state' /\ state'.start = state.start /\ state'.offset = Head(plan).end
      /\ plan' = Tail(plan) /\ UNCHANGED <<row, chunks>> /\ run'.mode = run.mode
  BY KnownTypes, SaveFacts DEF RunKept
<1>2. /\ Published(state') /\ Published(saved') /\ plan # <<>> /\ 1 \in 1 .. Len(plan)
  BY SavePublishes
<1>3. \E c \in chunks : c.end = Head(plan).end
  BY <1>1 DEF StoreInv, SavesStored
<1>4. Edge(state.start)' /\ Edge(state.offset)' /\ Edge(saved.start)' /\ Edge(saved.offset)'
  BY <1>1, <1>3 DEF EdgesInv, Transmitting, Edge
<1>5. pc' = "send" => Edge(plan[1].off)'
  <2> SUFFICES ASSUME Len(plan) # 1
               PROVE  \E c \in chunks : c.end = Tail(plan)[1].off
    BY <1>1 DEF Edge
  <2>1. plan \in Seq(PieceType) /\ plan # <<>>
    BY <1>2, KnownTypes
  <2>2. 1 \in 1 .. Len(Tail(plan)) /\ 1 < Len(plan)
    BY <2>1, TailPieces
  <2>3. Tail(plan)[1] = plan[1 + 1]
    BY <2>1, <2>2, TailPieces
  <2>4. plan[1 + 1].off = plan[1].end
    BY <1>1, <1>2, <2>2, KnownTypes DEF BytesInv, PlanKnown, Sending
  <2>5. Head(plan) = plan[1]
    BY <2>1, HeadPiece
  <2> QED
    BY <1>3, <2>3, <2>4, <2>5
<1>6. chunks' # {}
  BY <1>1, <1>3
<1> QED
  BY <1>1, <1>2, <1>4, <1>5, <1>6, SameChunks DEF EdgesInv, Resuming, Transmitting

LEMMA RecoverEdges ==
  ASSUME PublishConstants, KnownInv, StoreInv, EdgesInv, Conflict \/ Replace \/ Resave \/ Replan
  PROVE  EdgesInv'
<1>1. CASE Conflict
  <2>1. pc = "conflict" /\ UNCHANGED <<saved, row, chunks>>
    BY <1>1, KnownTypes, ConflictFacts
  <2>2. CASE End
    BY <2>1, <2>2, EndEdges
  <2>3. CASE ~End
    <3>1. pc' = "recover"
      BY <1>1, <2>3, KnownTypes, ConflictFacts
    <3>2. chunks' # {} => Published(saved') /\ Edge(saved.start)' /\ Edge(saved.offset)'
      BY <2>1 DEF EdgesInv, Edge, Published
    <3> QED
      BY <2>1, <3>1, <3>2, SameChunks
         DEF EdgesInv, Resuming, Transmitting, Planning, Sending
  <2> QED
    BY <2>2, <2>3
<1>2. CASE Replace
  <2>1. pc' = "resave" /\ chunks' = {}
    BY <1>2, KnownTypes, ReplaceFacts, DeletedFacts
  <2> QED
    BY <2>1, NothingTiled DEF Planning, Sending
<1>3. CASE Resave
  <2>1. /\ pc = "resave" /\ pc' = "replan" /\ saved' = state /\ UNCHANGED <<row, chunks, state>>
    BY <1>3, ResaveFacts
  <2>2. chunks' # {} =>
          /\ Published(state') /\ Edge(state.start)' /\ Edge(state.offset)'
          /\ Published(saved') /\ Edge(saved.start)' /\ Edge(saved.offset)'
    BY <2>1 DEF EdgesInv, Resuming, Edge, Published
  <2> QED
    BY <2>1, <2>2, SameChunks DEF EdgesInv, Resuming, Transmitting, Planning, Sending
<1>4. CASE Replan
  <2>1. pc = "replan" /\ UNCHANGED <<saved, row, chunks>>
    BY <1>4, KnownTypes, ReplanEnds
  <2>2. CASE End
    BY <2>1, <2>2, EndEdges
  <2>3. CASE ~End
    <3>1. plan' # <<>>
      BY <1>4, <2>3, KnownTypes, ReplanEnds
    <3>2. Aead => state.dk # Unreadable
      BY <2>1, KnownTypes DEF BytesInv, KeysKnown, Recovering
    <3>3. /\ pc' = "register" /\ (Same(state', state) \/ Wiped(state', state))
          /\ plan'[1].off = IF Verified(state, run.size) THEN PlanStart(state) ELSE state.start
      BY <1>4, <3>1, <3>2, KnownTypes, ReplanFacts
    <3>4. plan'[1].off \in {state.start, state.offset} /\ state'.start = state.start
      BY <3>3 DEF PlanStart, Most, Same, Wiped
    <3>5. chunks' # {} => /\ Published(saved') /\ Edge(saved.start)' /\ Edge(saved.offset)'
                          /\ Edge(state.start)' /\ Edge(plan[1].off)'
      BY <2>1, <3>4 DEF EdgesInv, Resuming, Edge, Published
    <3>6. Published(state') => chunks' # {}
      <4>1. Published(state') => Published(state)
        BY <3>3, KnownTypes, WipedUnpublished DEF Same, Published
      <4>2. Published(state) => Held(state)
        BY <2>1 DEF StoreInv, RecoveredInStore
      <4>3. Published(state) => state.start \in state.start .. state.offset - 1
        BY KnownTypes, StateFields DEF Published
      <4> QED
        BY <2>1, <4>1, <4>2, <4>3 DEF Held, Holds
    <3> QED
      BY <2>1, <3>3, <3>5, <3>6, SameChunks DEF EdgesInv, Resuming, Transmitting
  <2> QED
    BY <2>2, <2>3
<1> QED
  BY <1>1, <1>2, <1>3, <1>4

LEMMA RunEdges ==
  ASSUME PublishConstants, KnownInv, StoreInv, EdgesInv,
         mishaps \subseteq mishaps', "crossed" \notin mishaps,
         (\E mode \in Modes : Begin(mode)) \/ RunStep
  PROVE  EdgesInv'
<1>1. CASE \E mode \in Modes : Begin(mode)
  BY <1>1, BeginEdges
<1>2. CASE Return
  BY <1>2, ReturnFacts, EndEdges
<1> QED
  BY <1>1, <1>2, ReconcileEdges, VerifyEdges, PlanEdges, DeleteEdges, ReadyEdges, SendEdges,
     SaveEdges, RecoverEdges DEF RunStep

LEMMA EnvironmentEdges ==
  ASSUME PublishConstants, KnownInv, EdgesInv, Environment, mishaps' \cap Split = {}
  PROVE  EdgesInv'
<1>1. "unsaved" \notin mishaps' /\ "lost" \notin mishaps' /\ "crossed" \notin mishaps'
  BY DEF Split
<1>2. ASSUME UNCHANGED <<row, chunks>>, Idle, Same(saved', saved) \/ chunks = {}
      PROVE  EdgesInv'
  <2>1. /\ chunks' # {} /\ pc' # "save" =>
             Published(saved') /\ Edge(saved.start)' /\ Edge(saved.offset)'
        /\ Edge(state.start) => Edge(state.start)'
        /\ Edge(state.offset) => Edge(state.offset)'
        /\ Edge(plan[1].off) => Edge(plan[1].off)'
    BY <1>2 DEF EdgesInv, Idle, Same, Edge, Published
  <2> QED
    BY <1>2, <2>1, SameChunks
       DEF EdgesInv, Idle, Resuming, Transmitting, Planning, Sending, Aead, Published
<1>3. CASE Grow \/ (\E head, tail \in 0 .. MaxLength : Rewrite(head, tail))
  <2>1. UNCHANGED <<saved, row, chunks>> /\ Idle
    BY <1>3, KnownTypes, EditFacts
  <2> QED
    BY <1>2, <2>1 DEF Same
<1>4. CASE EndEarly
  BY <1>1, <1>4, EndEarlyFacts, EndEdges
<1>5. CASE LoseState
  BY <1>1, <1>5, LoseFacts
<1>6. CASE SpoilKey
  <2>1. Same(saved', saved) /\ UNCHANGED <<row, chunks>> /\ Idle
    BY <1>6, KnownTypes, SpoilFacts
  <2> QED
    BY <1>2, <2>1
<1>7. CASE Unpublish
  <2>1. chunks' = {} /\ Idle /\ pc = "idle"
    BY <1>1, <1>7, KnownTypes, UnpublishFacts, DeletedFacts DEF InRun
  <2> QED
    BY <2>1, NothingTiled DEF Idle, Planning, Sending
<1>8. CASE ShareOff \/ ShareOn
  <2>1. /\ saved' = saved \/ ~Published(saved)
        /\ UNCHANGED <<row, chunks>> /\ Idle /\ pc = "idle"
    BY <1>1, <1>8, KnownTypes, ShareFacts DEF InRun
  <2>2. ~Published(saved) => chunks = {}
    BY <2>1 DEF EdgesInv
  <2> QED
    BY <1>2, <2>1, <2>2 DEF Same
<1> QED
  BY <1>3, <1>4, <1>5, <1>6, <1>7, <1>8 DEF Environment

EdgesSafe == StoreSafe /\ Unless(Split, EdgesInv)

LEMMA EdgesSafeInductive ==
  ASSUME PublishConstants
  PROVE  /\ Init => EdgesSafe
         /\ EdgesSafe /\ [Next]_vars => EdgesSafe'
<1>1. Init => EdgesSafe
  <2>1. Init => EdgesInv
    <3> SUFFICES ASSUME Init
                 PROVE  EdgesInv
      OBVIOUS
    <3>1. chunks = {} /\ pc = "idle"
      BY DEF Init
    <3> QED
      BY <3>1 DEF EdgesInv, Tiled, Planning, Sending
  <2> QED
    BY <2>1, StoreSafeInductive DEF EdgesSafe, Unless
<1>2. ASSUME EdgesSafe, [Next]_vars
      PROVE  EdgesSafe'
  <2>1. StoreSafe'
    BY <1>2, StoreSafeInductive DEF EdgesSafe
  <2>2. KnownInv /\ TypeOK
    BY <1>2, KnownTypes DEF EdgesSafe, StoreSafe
  <2>3. mishaps \subseteq mishaps'
    BY <1>2, <2>2, MishapsStay
  <2>4. ASSUME mishaps' \cap Split = {}
        PROVE  EdgesInv'
    <3>1. EdgesInv /\ StoreInv /\ "crossed" \notin mishaps
      BY <1>2, <2>3, <2>4 DEF EdgesSafe, StoreSafe, Unless, Split, Severed
    <3>2. CASE UNCHANGED vars
      <4>1. UNCHANGED <<pc, saved, state, plan, run, row, chunks>>
        BY <3>2 DEF vars, store, local
      <4>2. /\ Edge(saved.start) => Edge(saved.start)'
            /\ Edge(saved.offset) => Edge(saved.offset)'
            /\ Edge(state.start) => Edge(state.start)'
            /\ Edge(state.offset) => Edge(state.offset)'
            /\ Edge(plan[1].off) => Edge(plan[1].off)'
        BY <4>1 DEF Edge
      <4> QED
        BY <3>1, <4>1, <4>2, SameChunks
           DEF EdgesInv, Resuming, Transmitting, Planning, Sending, Aead, Published
    <3>3. CASE (\E mode \in Modes : Begin(mode)) \/ RunStep
      BY <2>2, <2>3, <3>1, <3>3, RunEdges
    <3>4. CASE Environment
      BY <2>2, <2>4, <3>1, <3>4, EnvironmentEdges
    <3> QED
      BY <1>2, <3>2, <3>3, <3>4 DEF Next, RunStep, Environment
  <2> QED
    BY <2>1, <2>4 DEF EdgesSafe, Unless
<1> QED
  BY <1>1, <1>2

(* The ranges in the store neither overlap nor leave a hole, though nothing  *)
(* in the store enforces it: a chunk enters only behind the last one, or at  *)
(* the watermark of an empty store.                                          *)
THEOREM OneRunAlways == Spec => []OneRunUnlessUnsaved
<1>1. EdgesSafe => OneRunUnlessUnsaved
  <2> SUFFICES ASSUME EdgesSafe, mishaps \cap Split = {}
               PROVE  StoreIsOneRun
    BY DEF OneRunUnlessUnsaved, Unless, Split
  <2>1. Tiled /\ (chunks # {} => Live)
    BY DEF EdgesSafe, StoreSafe, KnownInv, RowInv, EdgesInv, Unless
  <2>2. Remote = chunks
    BY <2>1 DEF Remote
  <2> QED
    BY <2>1, <2>2 DEF StoreIsOneRun, Tiled
<1> QED
  BY <1>1, PublishConstants, EdgesSafeInductive, PTL DEF Spec
=============================================================================
