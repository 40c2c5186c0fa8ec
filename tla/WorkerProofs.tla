----------------------------- MODULE WorkerProofs -----------------------------
(***************************************************************************)
(* For any number of handlers, ranges, contents, authors and readers: the  *)
(* types, that every row of chunks has its bytes, that a revoked reader is *)
(* given no wrap, and that a deleted session leaves nothing behind.        *)
(***************************************************************************)
EXTENDS Worker, TLAPS

(* The bytes are there, or a delete has removed them and is about to remove  *)
(* the rows as well.                                                         *)
Stands(k, b) ==
    bucket[k] = b \/ \E d \in Requests : At(d, "batch") /\ k \in request[d].keys

Excuses == {"disputed", "swept", "halfway", "crossed"}

(* A row is kept at its offset.                                              *)
RowsInPlace == \A o \in Offsets : chunks[o] # NoChunk => chunks[o].key.range.offset = o

(* An object is only discarded while the row of its offset names another.    *)
DiscardsAreUnnamed ==
    \A r \in Requests : At(r, "discard") \/ At(r, "drop") =>
        \/ "crossed" \in mishaps
        \/ chunks[Offset(r)] # NoChunk /\ chunks[Offset(r)].key # Key(r)

RowsStand ==
    Unless(Excuses) =>
        \A o \in Offsets : chunks[o] # NoChunk => Stands(chunks[o].key, chunks[o].body)

(* An upload that will insert its row has its bytes in the bucket.           *)
ClaimsStand ==
    Unless(Excuses) =>
        \A r \in Requests : At(r, "claim") /\ chunks[Offset(r)] = NoChunk
                              => Stands(Key(r), request[r].body)

(* Who is about to be given a wrap may have it, or was revoked just now.     *)
GrantsAreChecked ==
    \A r \in Requests : At(r, "wraps") =>
        \A x \in request[r].to : MayReceive(x) \/ "granting" \in mishaps

IInv == RowsInPlace /\ DiscardsAreUnnamed /\ RowsStand /\ ClaimsStand

-----------------------------------------------------------------------------
USE WorkerConstants

(* A request at a step of an upload is an upload: it has a key and bytes.    *)
LEMMA StepsOfOps ==
    ASSUME TypeOK, NEW r \in Requests
    PROVE  /\ request[r].at \in UploadSteps => request[r] \in Uploads
           /\ request[r].at \in {"list", "blobs", "batch"} => request[r] \in Deletes
           /\ request[r].at \in {"readers", "wraps"} => request[r] \in Grants
  BY DEF TypeOK, Uploads, Deletes, Grants, Idle, UploadSteps

(* An upload has an address among those of the chunks.                       *)
LEMMA KeyOfUpload ==
    ASSUME TypeOK, NEW r \in Requests, request[r].at \in UploadSteps
    PROVE  /\ Key(r) \in Keys /\ Offset(r) \in Offsets /\ request[r].body \in Bodies
           /\ request[r].op = "upload"
  <1>1. request[r] \in Uploads BY StepsOfOps
  <1>2. Key(r) \in Keys /\ request[r].body \in Bodies /\ request[r].op = "upload"
    BY <1>1 DEF Uploads, Key
  <1>3. Key(r).range \in Ranges BY <1>2 DEF Keys
  <1> QED BY <1>2, <1>3 DEF Offset, Offsets

(* The rows, the objects and the handlers keep their types.                  *)
THEOREM TypeCorrect == Spec => []TypeOK
  <1>1. Init => TypeOK
    BY DEF Init, TypeOK, Idle, NoChunk
  <1>2. TypeOK /\ [Next]_vars => TypeOK'
    <2> SUFFICES ASSUME TypeOK, [Next]_vars PROVE TypeOK' OBVIOUS
    <2> USE DEF TypeOK
    <2>1. CASE UNCHANGED vars BY <2>1 DEF vars
    <2>2. ASSUME NEW author \in Authors, PutSession(author) PROVE TypeOK'
      BY <2>2 DEF PutSession
    <2>3. ASSUME NEW x \in Readers, MintReader(x) \/ RevokeReader(x) PROVE TypeOK'
      BY <2>3 DEF MintReader, RevokeReader, Suffers, Mishaps
    <2>4. ASSUME NEW r \in Requests, Step(r) PROVE TypeOK'
      <3> USE DEF Goto, Answer, Suffers, Trouble, Begin, At
      <3>1. ASSUME NEW range \in Ranges, NEW body \in Bodies, BeginUpload(r, range, body)
            PROVE  TypeOK'
        <4>1. [Idle EXCEPT !.op = "upload", !.at = "lookup", !.body = body,
                  !.key = [author |-> session.author, range |-> range]] \in Uploads
          BY <3>1 DEF BeginUpload, Idle, Uploads, UploadSteps, Keys
        <4> QED BY <3>1, <4>1 DEF BeginUpload
      <3>2. CASE Lookup(r) \/ Lost(r) \/ Discard(r) \/ ForgetFails(r) \/ Claim(r) \/ Sweep(r)
                   \/ Put(r) \/ PutFails(r) \/ Touch(r)
        <4>1. request[r].at \in UploadSteps
          BY <3>2 DEF Lookup, Lost, Discard, ForgetFails, Claim, Sweep, Put, PutFails, Touch, UploadSteps
        <4>2. request[r] \in Uploads BY <4>1, StepsOfOps
        <4>3. ASSUME NEW at \in UploadSteps PROVE [request[r] EXCEPT !.at = at] \in Uploads
          BY <4>2 DEF Uploads
        <4>4. Key(r) \in Keys /\ Offset(r) \in Offsets /\ request[r].body \in Bodies
          BY <4>1, KeyOfUpload
        <4>5. CASE Lookup(r)
          BY <4>5, <4>3 DEF Lookup, UploadSteps
        <4>6. CASE Lost(r)
          BY <4>6, <4>3 DEF Lost, UploadSteps
        <4>7. CASE Discard(r)
          <5>1. bucket' \in [Keys -> Bodies \cup {"junk", "none"}] BY <4>7 DEF Discard
          <5>2. request' \in [Requests -> Uploads \cup Deletes \cup Grants \cup {Idle}]
            BY <4>7, <4>3 DEF Discard, UploadSteps
          <5> QED BY <4>7, <5>1, <5>2 DEF Discard
        <4>8. CASE ForgetFails(r)
          BY <4>8, <4>3 DEF ForgetFails, UploadSteps, Mishaps
        <4>9. CASE Claim(r)
          <5>1. [key |-> Key(r), body |-> request[r].body] \in Rows BY <4>4 DEF Rows
          <5>2. Found(chunks[Offset(r)], r) \in UploadSteps BY DEF Found, UploadSteps
          <5>3. mishaps' \subseteq Mishaps BY <4>9 DEF Claim, Mishaps
          <5>4. chunks' \in [Offsets -> Rows \cup {NoChunk}] BY <4>9, <5>1 DEF Claim
          <5>5. request' \in [Requests -> Uploads \cup Deletes \cup Grants \cup {Idle}]
            BY <4>9, <5>2, <4>3 DEF Claim, UploadSteps
          <5>6. session' = session \/ session' = [session EXCEPT !.listed = FALSE]
            BY <4>9 DEF Claim
          <5>7. /\ session' \in [known : BOOLEAN, live : BOOLEAN, author : Authors \cup {"none"},
                                  size : Nat, listed : BOOLEAN]
                /\ session'.live => session'.author \in Authors
            BY <5>6
          <5> QED BY <4>9, <5>3, <5>4, <5>5, <5>7 DEF Claim
        <4>10. CASE Sweep(r)
          BY <4>10, <4>4 DEF Sweep, Mishaps
        <4>11. CASE Put(r)
          BY <4>11, <4>3, <4>4 DEF Put, Store, Mishaps, UploadSteps
        <4>12. CASE PutFails(r)
          BY <4>12, <4>3, <4>4 DEF PutFails, Store, Mishaps, UploadSteps
        <4>13. CASE Touch(r)
          <5>1. Key(r).range \in Ranges BY <4>4 DEF Keys
          <5>2. Touched(session.size, Key(r).range) \in Nat BY <5>1 DEF Touched, End
          <5> QED BY <4>13, <5>2 DEF Touch
        <4> QED BY <3>2, <4>5, <4>6, <4>7, <4>8, <4>9, <4>10, <4>11, <4>12, <4>13
      <3>3. CASE BeginDelete(r)
        BY <3>3 DEF BeginDelete, Idle, Deletes
      <3>4. CASE ListKeys(r) \/ DeleteBlobs(r) \/ DeleteBlobsFails(r) \/ Batch(r)
        <4>1. request[r] \in Deletes
          BY <3>4, StepsOfOps DEF ListKeys, DeleteBlobs, DeleteBlobsFails, Batch
        <4>2. Listed \subseteq Keys BY DEF Listed, Rows, NoChunk
        <4>3. ASSUME NEW keys PROVE Without(keys) \in [Keys -> Bodies \cup {"junk", "none"}]
          BY DEF Without
        <4>4. CASE ListKeys(r)
          BY <4>4, <4>1, <4>2 DEF ListKeys, Deletes
        <4>5. CASE DeleteBlobs(r)
          BY <4>5, <4>1, <4>3 DEF DeleteBlobs, Deletes
        <4>6. CASE DeleteBlobsFails(r)
          BY <4>6, <4>3 DEF DeleteBlobsFails, Mishaps
        <4>7. CASE Batch(r)
          <5>1. mishaps' \subseteq Mishaps BY <4>7 DEF Batch
          <5>2. request' \in [Requests -> Uploads \cup Deletes \cup Grants \cup {Idle}]
            BY <4>7 DEF Batch
          <5>3. wraps' \in [Recipients -> 0 .. MaxGen] BY <4>7 DEF Batch
          <5>4. chunks' \in [Offsets -> Rows \cup {NoChunk}] BY <4>7 DEF Batch
          <5>5. /\ session' \in [known : BOOLEAN, live : BOOLEAN, author : Authors \cup {"none"},
                                  size : Nat, listed : BOOLEAN]
                /\ ~session'.live
            BY <4>7 DEF Batch
          <5> QED BY <4>7, <5>1, <5>2, <5>3, <5>4, <5>5 DEF Batch
        <4> QED BY <3>4, <4>4, <4>5, <4>6, <4>7
      <3>5. ASSUME NEW to \in SUBSET Recipients, NEW gen \in Gens, BeginGrant(r, to, gen)
            PROVE  TypeOK'
        <4>1. [Idle EXCEPT !.op = "grant", !.at = "readers", !.to = to, !.gen = gen] \in Grants
          BY DEF Idle, Grants
        <4> QED BY <3>5, <4>1 DEF BeginGrant
      <3>6. CASE CheckReaders(r) \/ StoreWraps(r)
        <4>1. request[r] \in Grants BY <3>6, StepsOfOps DEF CheckReaders, StoreWraps
        <4>2. request[r].gen \in 0 .. MaxGen BY <4>1 DEF Grants, Gens
        <4> QED BY <3>6, <4>1, <4>2 DEF CheckReaders, StoreWraps, Grants
      <3>7. CASE Dies(r)
        BY <3>7 DEF Dies, Mishaps
      <3> QED BY <2>4, <3>1, <3>2, <3>3, <3>4, <3>5, <3>6, <3>7 DEF Step
    <2> QED BY <2>1, <2>2, <2>3, <2>4 DEF Next
  <1> QED BY <1>1, <1>2, PTL DEF Spec

-----------------------------------------------------------------------------
(* No step but those of the excuses takes the bytes from a row or from an    *)
(* upload that will claim them.                                              *)

(* There is no row and no upload at first.                                   *)
LEMMA InvInit == Init => IInv
  BY DEF Init, IInv, RowsInPlace, DiscardsAreUnnamed, RowsStand, ClaimsStand, At, Idle, NoChunk

(* A request that stays as it is, or goes on to none of the steps that count.*)
Harmless(q) == \/ request'[q] = request[q]
               \/ request'[q].at \notin {"claim", "discard", "drop"} /\ ~At(q, "batch")

(* Steps that leave the chunks and the bucket alone, add no upload to those  *)
(* that claim or discard, and take no delete from before its batch.          *)
LEMMA InvStutter ==
    ASSUME TypeOK, IInv, UNCHANGED <<chunks, bucket>>, mishaps \subseteq mishaps',
           \A q \in Requests : Harmless(q)
    PROVE  IInv'
  <1> USE DEF IInv, Harmless
  <1>1. RowsInPlace' BY DEF RowsInPlace
  <1>2. DiscardsAreUnnamed' BY DEF DiscardsAreUnnamed, At, Key, Offset
  <1>3. ASSUME NEW k, NEW b, Stands(k, b) PROVE Stands(k, b)'
    BY <1>3 DEF Stands, At
  <1>4. Unless(Excuses)' => Unless(Excuses) BY DEF Unless
  <1>5. RowsStand' BY <1>3, <1>4 DEF RowsStand
  <1>6. ClaimsStand' BY <1>3, <1>4 DEF ClaimsStand, At, Key, Offset
  <1> QED BY <1>1, <1>2, <1>5, <1>6

(* An object is stored, by an upload that goes on to claim it or to sweep it.*)
LEMMA InvStore ==
    ASSUME TypeOK, IInv, NEW r \in Requests, NEW bytes, NEW at, At(r, "put"),
           Store(r, bytes), Goto(r, at), UNCHANGED chunks,
           at \in {"sweep", "claim"}, at = "claim" => bytes = request[r].body
    PROVE  IInv'
  <1> DEFINE k == Key(r)
  <1>1. k \in Keys BY KeyOfUpload DEF At, UploadSteps
  <1>2. bucket' = [bucket EXCEPT ![k] = bytes] /\ mishaps \subseteq mishaps'
    BY DEF Store, Suffers
  <1>3. request' = [request EXCEPT ![r].at = at] BY DEF Goto
  <1>4. \A q \in Requests : Key(q)' = Key(q) /\ Offset(q)' = Offset(q)
                            /\ request'[q].body = request[q].body
                            /\ (q # r => request'[q] = request[q])
    BY <1>3 DEF Key, Offset, TypeOK
  <1>5. ~At(r, "batch") /\ ~At(r, "discard")' /\ ~At(r, "drop")' BY <1>3 DEF At, TypeOK
  <1>6. RowsInPlace' BY DEF IInv, RowsInPlace
  <1>7. DiscardsAreUnnamed'
    BY <1>2, <1>4, <1>5 DEF IInv, DiscardsAreUnnamed, At
  <1>8. Unless(Excuses)' => Unless(Excuses) /\ Relied(k) \subseteq {bytes}
    BY DEF Unless, Store, Suffers, Excuses
  <1>9. ASSUME NEW l \in Keys, NEW b, Stands(l, b), l = k => b = bytes PROVE Stands(l, b)'
    BY <1>9, <1>1, <1>2, <1>4, <1>5 DEF Stands, At, TypeOK
  <1>10. RowsStand'
    <2> SUFFICES ASSUME Unless(Excuses)', NEW o \in Offsets, chunks[o] # NoChunk
                 PROVE  Stands(chunks[o].key, chunks[o].body)'
      BY DEF RowsStand, Excuses
    <2>1. Stands(chunks[o].key, chunks[o].body) BY <1>8 DEF IInv, RowsStand, Excuses
    <2>2. chunks[o].key = k => chunks[o].body \in Relied(k) BY DEF Relied
    <2>3. chunks[o].key \in Keys BY DEF TypeOK, Rows
    <2> QED BY <1>8, <1>9, <2>1, <2>2, <2>3
  <1>11. ClaimsStand'
    <2> SUFFICES ASSUME Unless(Excuses)', NEW q \in Requests, At(q, "claim")', chunks[Offset(q)] = NoChunk
                 PROVE  Stands(Key(q), request[q].body)'
      BY <1>4 DEF ClaimsStand, Excuses
    <2>1. CASE q = r
      <3>1. bytes = request[r].body BY <2>1, <1>3 DEF At, TypeOK
      <3> QED BY <2>1, <3>1, <1>1, <1>2, <1>4 DEF Stands, TypeOK
    <2>2. CASE q # r
      <3>1. At(q, "claim") /\ Key(q) \in Keys BY <2>2, <1>4, KeyOfUpload DEF At, UploadSteps
      <3>2. Stands(Key(q), request[q].body) BY <3>1, <1>8 DEF IInv, ClaimsStand, Excuses
      <3>3. Key(q) = k => request[q].body \in Relied(k) BY <3>1 DEF Relied
      <3> QED BY <1>4, <1>8, <1>9, <3>1, <3>2, <3>3
    <2> QED BY <2>1, <2>2
  <1> QED BY <1>6, <1>7, <1>10, <1>11 DEF IInv

(* An object is removed that no row names, nor any upload that will insert.  *)
LEMMA InvForget ==
    ASSUME TypeOK, IInv, NEW r \in Requests, NEW at,
           request[r].at \in {"sweep", "discard", "drop"},
           bucket' = [bucket EXCEPT ![Key(r)] = "none"], UNCHANGED chunks,
           mishaps \subseteq mishaps',
           At(r, "sweep") /\ Relied(Key(r)) # {} => "swept" \in mishaps',
           \/ request' = [request EXCEPT ![r] = Idle]
           \/ request' = [request EXCEPT ![r].at = "touch"]
    PROVE  IInv'
  <1> DEFINE k == Key(r)
  <1>1. k \in Keys /\ Offset(r) \in Offsets BY KeyOfUpload DEF UploadSteps
  <1>2. \A q \in Requests \ {r} : request'[q] = request[q]
    BY DEF TypeOK
  <1>3. request'[r].at \in {"none", "touch"}
    <2>1. request[r] \in Uploads BY StepsOfOps DEF UploadSteps
    <2> QED BY <2>1 DEF TypeOK, Idle, Uploads
  <1>4. Unless(Excuses)' => Unless(Excuses) BY DEF Unless
  <1>5. RowsInPlace' BY DEF IInv, RowsInPlace
  <1>6. DiscardsAreUnnamed' BY <1>2, <1>3 DEF IInv, DiscardsAreUnnamed, At, Key, Offset
  <1>7. ASSUME NEW l \in Keys, NEW b, Stands(l, b), l # k PROVE Stands(l, b)'
    BY <1>7, <1>1, <1>2 DEF Stands, At, TypeOK
  <1>8. ASSUME Unless(Excuses)', NEW o \in Offsets, chunks[o] # NoChunk PROVE chunks[o].key # k
    <2>1. CASE At(r, "sweep")
      <3>1. Relied(k) = {} BY <2>1, <1>8 DEF Unless, Excuses
      <3>2. chunks[o].key = k => chunks[o].body \in Relied(k) BY DEF Relied
      <3> QED BY <3>1, <3>2
    <2>2. CASE ~At(r, "sweep")
      <3>1. chunks[Offset(r)] # NoChunk /\ chunks[Offset(r)].key # k
        BY <2>2, <1>4, <1>8 DEF IInv, DiscardsAreUnnamed, At, Unless, Excuses
      <3>2. chunks[o].key.range.offset = o BY <1>8 DEF IInv, RowsInPlace
      <3> QED BY <3>1, <3>2 DEF Offset
    <2> QED BY <2>1, <2>2
  <1>9. ASSUME Unless(Excuses)', NEW q \in Requests, At(q, "claim"), chunks[Offset(q)] = NoChunk
        PROVE  Key(q) # k
    <2>1. CASE At(r, "sweep")
      <3>1. Relied(k) = {} BY <2>1, <1>9 DEF Unless, Excuses
      <3>2. Key(q) = k => request[q].body \in Relied(k) BY <1>9 DEF Relied
      <3> QED BY <3>1, <3>2
    <2>2. CASE ~At(r, "sweep")
      <3>1. chunks[Offset(r)] # NoChunk
        BY <2>2, <1>4, <1>9 DEF IInv, DiscardsAreUnnamed, At, Unless, Excuses
      <3> QED BY <3>1, <1>9 DEF Offset
    <2> QED BY <2>1, <2>2
  <1>10. RowsStand'
    <2> SUFFICES ASSUME Unless(Excuses)', NEW o \in Offsets, chunks[o] # NoChunk
                 PROVE  Stands(chunks[o].key, chunks[o].body)'
      BY DEF RowsStand, Excuses
    <2>1. Stands(chunks[o].key, chunks[o].body) BY <1>4 DEF IInv, RowsStand, Excuses
    <2>2. chunks[o].key \in Keys BY DEF TypeOK, Rows
    <2> QED BY <1>7, <1>8, <2>1, <2>2
  <1>11. ClaimsStand'
    <2> SUFFICES ASSUME Unless(Excuses)', NEW q \in Requests, At(q, "claim")', chunks[Offset(q)'] = NoChunk
                 PROVE  Stands(Key(q), request[q].body)'
      BY DEF ClaimsStand, Excuses
    <2>1. q # r BY <1>3 DEF At
    <2>2. request'[q] = request[q] BY <1>2, <2>1
    <2>3. At(q, "claim") /\ chunks[Offset(q)] = NoChunk /\ Key(q)' = Key(q)
      BY <2>2 DEF At, Offset, Key
    <2>4. Key(q) \in Keys BY <2>3, KeyOfUpload DEF At, UploadSteps
    <2>5. Stands(Key(q), request[q].body) BY <2>3, <1>4 DEF IInv, ClaimsStand, Excuses
    <2> QED BY <1>7, <1>9, <2>2, <2>3, <2>4, <2>5
  <1> QED BY <1>5, <1>6, <1>10, <1>11 DEF IInv

(* A row is inserted for the bytes of the upload that claims it, or the      *)
(* upload finds that the offset is taken.                                    *)
LEMMA InvClaim ==
    ASSUME TypeOK, IInv, NEW r \in Requests, Claim(r) PROVE IInv'
  <1> DEFINE k == Key(r)  o == Offset(r)
  <1>1. /\ At(r, "claim") /\ k \in Keys /\ o \in Offsets /\ k.range.offset = o
        /\ request[r].body \in Bodies /\ request[r] \in Uploads
    BY KeyOfUpload, StepsOfOps DEF Claim, At, UploadSteps, Offset
  <1>2. \A q \in Requests \ {r} : request'[q] = request[q]
    BY DEF Claim, Goto, TypeOK
  <1>3. mishaps \subseteq mishaps' /\ bucket' = bucket /\ ~At(r, "batch")
    BY <1>1 DEF Claim, Suffers, At
  <1>4. ASSUME NEW l, NEW b, Stands(l, b) PROVE Stands(l, b)'
    BY <1>2, <1>3, <1>4 DEF Stands, At
  <1>5. Unless(Excuses)' => Unless(Excuses) BY <1>3 DEF Unless
  <1>6. CASE chunks[o] = NoChunk
    <2>1. /\ chunks' = [chunks EXCEPT ![o] = [key |-> k, body |-> request[r].body]]
          /\ request' = [request EXCEPT ![r].at = "touch"]
      BY <1>6 DEF Claim, Goto
    <2>2. request'[r].at = "touch" BY <2>1, <1>1 DEF TypeOK, Uploads
    <2>3. RowsInPlace' BY <2>1, <1>1 DEF IInv, RowsInPlace, TypeOK
    <2>4. DiscardsAreUnnamed'
      <3> SUFFICES ASSUME NEW q \in Requests, (At(q, "discard") \/ At(q, "drop"))',
                          "crossed" \notin mishaps'
                   PROVE  (chunks[Offset(q)] # NoChunk /\ chunks[Offset(q)].key # Key(q))'
        BY DEF DiscardsAreUnnamed
      <3>1. q # r BY <2>2 DEF At
      <3>2. request'[q] = request[q] BY <1>2, <3>1
      <3>3. chunks[Offset(q)] # NoChunk /\ chunks[Offset(q)].key # Key(q)
        BY <3>2, <1>3 DEF IInv, DiscardsAreUnnamed, At
      <3>4. Offset(q)' = Offset(q) /\ Key(q)' = Key(q) BY <3>2 DEF Offset, Key
      <3>5. chunks'[Offset(q)] = chunks[Offset(q)] BY <2>1, <3>3, <1>6
      <3> QED BY <3>3, <3>4, <3>5
    <2>5. RowsStand'
      <3> SUFFICES ASSUME Unless(Excuses)', NEW p \in Offsets, chunks'[p] # NoChunk
                   PROVE  Stands(chunks[p].key, chunks[p].body)'
        BY DEF RowsStand, Excuses
      <3>1. CASE p = o
        <4>1. Stands(k, request[r].body) BY <1>1, <1>5, <1>6 DEF IInv, ClaimsStand, Excuses
        <4>2. chunks'[p].key = k /\ chunks'[p].body = request[r].body
          BY <3>1, <2>1, <1>1 DEF TypeOK
        <4>3. Stands(chunks'[p].key, chunks'[p].body) BY <4>1, <4>2
        <4> QED BY <4>3, <1>4
      <3>2. CASE p # o
        <4>1. chunks'[p] = chunks[p] BY <3>2, <2>1 DEF TypeOK
        <4>2. Stands(chunks[p].key, chunks[p].body) BY <4>1, <1>5 DEF IInv, RowsStand, Excuses
        <4>3. Stands(chunks'[p].key, chunks'[p].body) BY <4>1, <4>2
        <4> QED BY <4>3, <1>4
      <3> QED BY <3>1, <3>2
    <2>6. ClaimsStand'
      <3> SUFFICES ASSUME Unless(Excuses)', NEW q \in Requests, At(q, "claim")', chunks'[Offset(q)'] = NoChunk
                   PROVE  Stands(Key(q), request[q].body)'
        BY DEF ClaimsStand, Excuses
      <3>1. q # r BY <2>2 DEF At
      <3>2. request'[q] = request[q] BY <1>2, <3>1
      <3>3. At(q, "claim") /\ Offset(q)' = Offset(q) /\ Key(q)' = Key(q)
        BY <3>2 DEF At, Offset, Key
      <3>4. k # NoKey BY <1>1 DEF Keys, NoKey
      <3>5. chunks'[o] # NoChunk BY <2>1, <1>1, <3>4 DEF TypeOK, NoChunk
      <3>6. Offset(q) \in Offsets BY <3>3, KeyOfUpload DEF At, UploadSteps
      <3>7. chunks[Offset(q)] = NoChunk BY <2>1, <3>3, <3>5, <3>6 DEF TypeOK
      <3>8. Stands(Key(q), request[q].body) BY <3>3, <3>7, <1>5 DEF IInv, ClaimsStand, Excuses
      <3> QED BY <3>2, <3>3, <3>8, <1>4
    <2> QED BY <2>3, <2>4, <2>5, <2>6 DEF IInv
  <1>7. CASE chunks[o] # NoChunk
    <2>1. /\ chunks' = chunks
          /\ request' = [request EXCEPT ![r].at = Found(chunks[o], r)]
      BY <1>7 DEF Claim, Goto
    <2>2. request'[r].at = Found(chunks[o], r) /\ Key(r)' = k /\ Offset(r)' = o
      BY <2>1, <1>1 DEF TypeOK, Uploads, Key, Offset
    <2>3. RowsInPlace' BY <2>1 DEF IInv, RowsInPlace
    <2>4. DiscardsAreUnnamed'
      <3> SUFFICES ASSUME NEW q \in Requests, (At(q, "discard") \/ At(q, "drop"))',
                          "crossed" \notin mishaps'
                   PROVE  (chunks[Offset(q)] # NoChunk /\ chunks[Offset(q)].key # Key(q))'
        BY DEF DiscardsAreUnnamed
      <3>1. CASE q = r
        <4>1. chunks[o].key # k BY <3>1, <2>2 DEF Found, At
        <4> QED BY <3>1, <4>1, <2>1, <2>2, <1>7
      <3>2. CASE q # r
        <4>1. request'[q] = request[q] BY <1>2, <3>2
        <4> QED BY <4>1, <2>1, <1>3 DEF IInv, DiscardsAreUnnamed, At, Offset, Key
      <3> QED BY <3>1, <3>2
    <2>5. RowsStand' BY <2>1, <1>4, <1>5 DEF IInv, RowsStand, Excuses
    <2>6. ClaimsStand'
      <3> SUFFICES ASSUME Unless(Excuses)', NEW q \in Requests, At(q, "claim")', chunks'[Offset(q)'] = NoChunk
                   PROVE  Stands(Key(q), request[q].body)'
        BY DEF ClaimsStand, Excuses
      <3>1. q # r BY <2>2 DEF At, Found
      <3>2. request'[q] = request[q] BY <1>2, <3>1
      <3>3. At(q, "claim") /\ Offset(q)' = Offset(q) /\ Key(q)' = Key(q)
        BY <3>2 DEF At, Offset, Key
      <3>4. Stands(Key(q), request[q].body) BY <3>3, <2>1, <1>5 DEF IInv, ClaimsStand, Excuses
      <3> QED BY <3>2, <3>3, <3>4, <1>4
    <2> QED BY <2>3, <2>4, <2>5, <2>6 DEF IInv
  <1> QED BY <1>6, <1>7

(* Who lost to a row of another key goes on to discard its own object.       *)
LEMMA InvLost ==
    ASSUME TypeOK, IInv, NEW r \in Requests, Lost(r) PROVE IInv'
  <1>1. CASE request' = [request EXCEPT ![r] = Idle]
    <2>1. \A q \in Requests \ {r} : request'[q] = request[q] BY <1>1 DEF TypeOK
    <2>2. request'[r].at = "none" /\ ~At(r, "batch") BY <1>1 DEF TypeOK, Idle, Lost, At
    <2>3. \A q \in Requests : Harmless(q) BY <2>1, <2>2 DEF Harmless
    <2>4. UNCHANGED <<chunks, bucket, mishaps>> BY DEF Lost
    <2> QED BY <2>3, <2>4, InvStutter
  <1>2. CASE /\ request' = [request EXCEPT ![r].at = "discard"]
             /\ chunks[Offset(r)] # NoChunk /\ chunks[Offset(r)].key # Key(r)
    <2>1. request[r] \in Uploads BY StepsOfOps DEF Lost, At, UploadSteps
    <2>2. \A q \in Requests \ {r} : request'[q] = request[q] BY <1>2 DEF TypeOK
    <2>3. /\ request'[r].at = "discard" /\ Key(r)' = Key(r) /\ Offset(r)' = Offset(r)
          /\ ~At(r, "batch")
      BY <1>2, <2>1 DEF TypeOK, Uploads, Key, Offset, Lost, At
    <2>4. UNCHANGED <<chunks, bucket, mishaps>> BY DEF Lost
    <2>5. ASSUME NEW l, NEW b, Stands(l, b) PROVE Stands(l, b)'
      BY <2>2, <2>3, <2>4, <2>5 DEF Stands, At
    <2>6. RowsInPlace' BY <2>4 DEF IInv, RowsInPlace
    <2>7. DiscardsAreUnnamed'
      BY <1>2, <2>2, <2>3, <2>4 DEF IInv, DiscardsAreUnnamed, At, Key, Offset
    <2>8. RowsStand' BY <2>4, <2>5 DEF IInv, RowsStand, Unless
    <2>9. ClaimsStand' BY <2>2, <2>3, <2>4, <2>5 DEF IInv, ClaimsStand, Unless, At, Key, Offset
    <2> QED BY <2>6, <2>7, <2>8, <2>9 DEF IInv
  <1> QED BY <1>1, <1>2 DEF Lost, Goto, Answer

(* The objects of rows that the same delete removes in its next step.        *)
LEMMA InvDeleteBlobs ==
    ASSUME TypeOK, IInv, NEW r \in Requests, DeleteBlobs(r) PROVE IInv'
  <1>1. request[r] \in Deletes /\ request[r].at = "blobs"
    BY StepsOfOps DEF DeleteBlobs, At
  <1>2. /\ request' = [request EXCEPT ![r].at = "batch"] /\ bucket' = Without(request[r].keys)
        /\ UNCHANGED <<chunks, mishaps>>
    BY DEF DeleteBlobs, Goto
  <1>3. \A q \in Requests \ {r} : request'[q] = request[q] BY <1>2 DEF TypeOK
  <1>4. request'[r].at = "batch" /\ request'[r].keys = request[r].keys
    BY <1>1, <1>2 DEF TypeOK, Deletes
  <1>5. ASSUME NEW l \in Keys, NEW b, Stands(l, b) PROVE Stands(l, b)'
    <2>1. CASE l \in request[r].keys BY <2>1, <1>4 DEF Stands, At
    <2>2. CASE l \notin request[r].keys
      <3>1. bucket'[l] = bucket[l] BY <2>2, <1>2 DEF Without
      <3> QED BY <3>1, <1>1, <1>3, <1>5 DEF Stands, At
    <2> QED BY <2>1, <2>2
  <1>6. RowsInPlace' BY <1>2 DEF IInv, RowsInPlace
  <1>7. DiscardsAreUnnamed' BY <1>2, <1>3, <1>4 DEF IInv, DiscardsAreUnnamed, At, Key, Offset
  <1>8. RowsStand'
    <2>1. \A o \in Offsets : chunks[o] # NoChunk => chunks[o].key \in Keys BY DEF TypeOK, Rows
    <2> QED BY <1>2, <1>5, <2>1 DEF IInv, RowsStand, Unless
  <1>9. ClaimsStand'
    <2>1. \A q \in Requests : At(q, "claim") => Key(q) \in Keys BY KeyOfUpload DEF At, UploadSteps
    <2> QED BY <1>2, <1>3, <1>4, <1>5, <2>1 DEF IInv, ClaimsStand, Unless, At, Key, Offset
  <1> QED BY <1>6, <1>7, <1>8, <1>9 DEF IInv

(* A delete that fails has removed nothing, or is an excuse.                 *)
LEMMA InvDeleteBlobsFails ==
    ASSUME TypeOK, IInv, NEW r \in Requests, DeleteBlobsFails(r) PROVE IInv'
  <1>1. PICK gone \in SUBSET request[r].keys :
          bucket' = Without(gone) /\ Suffers(gone # {}, "halfway")
    BY DEF DeleteBlobsFails
  <1>2. /\ request' = [request EXCEPT ![r] = Idle] /\ chunks' = chunks /\ At(r, "blobs")
        /\ mishaps \subseteq mishaps'
    BY <1>1 DEF DeleteBlobsFails, Answer, Suffers
  <1>3. \A q \in Requests \ {r} : request'[q] = request[q] BY <1>2 DEF TypeOK
  <1>4. request'[r].at = "none" /\ ~At(r, "batch") BY <1>2 DEF TypeOK, Idle, At
  <1>5. \A q \in Requests : Harmless(q) BY <1>3, <1>4 DEF Harmless
  <1>6. CASE gone = {}
    <2>1. bucket' = bucket BY <1>1, <1>6 DEF Without, TypeOK
    <2> QED BY <1>2, <1>5, <2>1, InvStutter
  <1>7. CASE gone # {}
    <2>1. ~Unless(Excuses)' BY <1>1, <1>7 DEF Unless, Excuses, Suffers
    <2>2. RowsInPlace' BY <1>2 DEF IInv, RowsInPlace
    <2>3. DiscardsAreUnnamed' BY <1>2, <1>3, <1>4 DEF IInv, DiscardsAreUnnamed, At, Key, Offset
    <2> QED BY <2>1, <2>2, <2>3 DEF IInv, RowsStand, ClaimsStand, Excuses
  <1> QED BY <1>6, <1>7

(* The rows go, and an upload that is still under way has been crossed.      *)
LEMMA InvBatch ==
    ASSUME TypeOK, IInv, NEW r \in Requests, Batch(r) PROVE IInv'
  <1>1. \A o \in Offsets : chunks'[o] = NoChunk BY DEF Batch
  <1>2. \A q \in Requests : request'[q] = request[q] \/ request'[q].at = "none"
    BY DEF Batch, Answer, TypeOK, Idle
  <1>3. ASSUME NEW q \in Requests, request'[q].at \in {"claim", "discard", "drop"}
        PROVE  "crossed" \in mishaps'
    <2>1. request[q].at \in UploadSteps BY <1>2, <1>3 DEF UploadSteps
    <2>2. request[q].op = "upload" BY <2>1, KeyOfUpload
    <2> QED BY <2>2 DEF Batch, Mishaps
  <1>4. RowsInPlace' BY <1>1 DEF RowsInPlace
  <1>5. DiscardsAreUnnamed' BY <1>3 DEF DiscardsAreUnnamed, At
  <1>6. RowsStand' BY <1>1 DEF RowsStand
  <1>7. ClaimsStand' BY <1>3 DEF ClaimsStand, At, Unless, Excuses
  <1> QED BY <1>4, <1>5, <1>6, <1>7 DEF IInv

(* A request that ends takes nothing along, but for a delete that had already*)
(* removed objects.                                                          *)
LEMMA InvDies ==
    ASSUME TypeOK, IInv, NEW r \in Requests, Dies(r) PROVE IInv'
  <1>1. /\ request' = [request EXCEPT ![r] = Idle] /\ UNCHANGED <<chunks, bucket>>
        /\ mishaps \subseteq mishaps'
    BY DEF Dies, Answer
  <1>2. \A q \in Requests \ {r} : request'[q] = request[q] BY <1>1 DEF TypeOK
  <1>3. request'[r].at = "none" BY <1>1 DEF TypeOK, Idle
  <1>4. CASE ~At(r, "batch")
    <2>1. \A q \in Requests : Harmless(q) BY <1>2, <1>3, <1>4 DEF Harmless
    <2> QED BY <1>1, <2>1, InvStutter
  <1>5. CASE At(r, "batch")
    <2>1. request[r].keys # {} => "halfway" \in mishaps' BY <1>5 DEF Dies, At
    <2>2. Unless(Excuses)' => Unless(Excuses) /\ request[r].keys = {}
      BY <1>1, <2>1 DEF Unless, Excuses
    <2>3. ASSUME Unless(Excuses)', NEW l, NEW b, Stands(l, b) PROVE Stands(l, b)'
      BY <1>1, <1>2, <2>2, <2>3 DEF Stands, At
    <2>4. RowsInPlace' BY <1>1 DEF IInv, RowsInPlace
    <2>5. DiscardsAreUnnamed' BY <1>1, <1>2, <1>3 DEF IInv, DiscardsAreUnnamed, At, Key, Offset
    <2>6. RowsStand' BY <1>1, <2>2, <2>3 DEF IInv, RowsStand, Excuses
    <2>7. ClaimsStand'
      BY <1>1, <1>2, <1>3, <2>2, <2>3 DEF IInv, ClaimsStand, Excuses, At, Key, Offset
    <2> QED BY <2>4, <2>5, <2>6, <2>7 DEF IInv
  <1> QED BY <1>4, <1>5

(* Every action keeps the four.                                              *)
THEOREM InductiveInvariant == Spec => []IInv
  <1>1. TypeOK /\ IInv /\ [Next]_vars => IInv'
    <2> SUFFICES ASSUME TypeOK, IInv, [Next]_vars PROVE IInv' OBVIOUS
    <2>1. CASE UNCHANGED vars
      <3>1. \A q \in Requests : Harmless(q) BY <2>1 DEF vars, Harmless
      <3>2. UNCHANGED <<chunks, bucket, mishaps>> BY <2>1 DEF vars
      <3> QED BY <3>1, <3>2, InvStutter
    <2>2. ASSUME NEW author \in Authors, PutSession(author) PROVE IInv'
      <3>1. \A q \in Requests : Harmless(q) BY <2>2 DEF PutSession, Harmless
      <3>2. UNCHANGED <<chunks, bucket, mishaps>> BY <2>2 DEF PutSession
      <3> QED BY <3>1, <3>2, InvStutter
    <2>3. ASSUME NEW x \in Readers, MintReader(x) \/ RevokeReader(x) PROVE IInv'
      <3>1. \A q \in Requests : Harmless(q) BY <2>3 DEF MintReader, RevokeReader, Harmless
      <3>2. UNCHANGED <<chunks, bucket>> /\ mishaps \subseteq mishaps'
        BY <2>3 DEF MintReader, RevokeReader, Suffers
      <3> QED BY <3>1, <3>2, InvStutter
    <2>4. ASSUME NEW r \in Requests, Step(r) PROVE IInv'
      <3>1. CASE \/ \E range \in Ranges, body \in Bodies : BeginUpload(r, range, body)
                 \/ BeginDelete(r)
                 \/ \E to \in SUBSET Recipients, gen \in Gens : to # {} /\ BeginGrant(r, to, gen)
        <4>1. request[r] = Idle /\ UNCHANGED <<chunks, bucket, mishaps>>
          BY <3>1 DEF BeginUpload, BeginDelete, BeginGrant, Begin
        <4>2. \A q \in Requests \ {r} : request'[q] = request[q]
          BY <3>1 DEF BeginUpload, BeginDelete, BeginGrant, TypeOK
        <4>3. request'[r].at \in {"lookup", "list", "readers"}
          <5>1. CASE BeginDelete(r) BY <5>1 DEF BeginDelete, TypeOK, Idle
          <5>2. ASSUME NEW range \in Ranges, NEW body \in Bodies, BeginUpload(r, range, body)
                PROVE  request'[r].at = "lookup"
            BY <5>2 DEF BeginUpload, TypeOK, Idle
          <5>3. ASSUME NEW to \in SUBSET Recipients, NEW gen \in Gens, BeginGrant(r, to, gen)
                PROVE  request'[r].at = "readers"
            BY <5>3 DEF BeginGrant, TypeOK, Idle
          <5> QED BY <3>1, <5>1, <5>2, <5>3
        <4>4. \A q \in Requests : Harmless(q) BY <4>1, <4>2, <4>3 DEF Harmless, At, Idle
        <4> QED BY <4>1, <4>4, InvStutter
      <3>2. CASE Lookup(r) \/ ForgetFails(r) \/ Touch(r)
        <4>1. request[r] \in Uploads /\ ~At(r, "batch")
          BY <3>2, StepsOfOps DEF Lookup, ForgetFails, Touch, At, UploadSteps
        <4>2. \A q \in Requests \ {r} : request'[q] = request[q]
          BY <3>2 DEF Lookup, ForgetFails, Touch, Goto, Answer, TypeOK
        <4>3. request'[r].at \in {"put", "touch", "none"}
          <5>1. ASSUME NEW at, Goto(r, at) PROVE request'[r].at = at
            BY <5>1, <4>1 DEF Goto, TypeOK, Uploads
          <5>2. Answer(r) => request'[r].at = "none" BY DEF Answer, TypeOK, Idle
          <5> QED BY <3>2, <5>1, <5>2 DEF Lookup, ForgetFails, Touch
        <4>4. \A q \in Requests : Harmless(q) BY <4>1, <4>2, <4>3 DEF Harmless
        <4>5. UNCHANGED <<chunks, bucket>> /\ mishaps \subseteq mishaps'
          BY <3>2 DEF Lookup, ForgetFails, Touch, Suffers
        <4> QED BY <4>4, <4>5, InvStutter
      <3>3. CASE Put(r)
        BY <3>3, InvStore DEF Put
      <3>4. CASE PutFails(r)
        <4>1. CASE Store(r, "junk") \/ Store(r, request[r].body)
          <5>1. At(r, "put") /\ Goto(r, "sweep") /\ chunks' = chunks BY <3>4 DEF PutFails
          <5>2. CASE Store(r, "junk") BY <5>1, <5>2, InvStore
          <5>3. CASE Store(r, request[r].body) BY <5>1, <5>3, InvStore
          <5> QED BY <4>1, <5>2, <5>3
        <4>2. CASE UNCHANGED <<bucket, mishaps>>
          <5>1. request[r] \in Uploads /\ ~At(r, "batch")
            BY <3>4, StepsOfOps DEF PutFails, At, UploadSteps
          <5>2. \A q \in Requests \ {r} : request'[q] = request[q]
            BY <3>4 DEF PutFails, Goto, TypeOK
          <5>3. request'[r].at = "sweep" BY <3>4, <5>1 DEF PutFails, Goto, TypeOK, Uploads
          <5>4. \A q \in Requests : Harmless(q) BY <5>1, <5>2, <5>3 DEF Harmless
          <5>5. chunks' = chunks BY <3>4 DEF PutFails
          <5> QED BY <4>2, <5>4, <5>5, InvStutter
        <4> QED BY <3>4, <4>1, <4>2 DEF PutFails
      <3>5. CASE Sweep(r)
        <4>1. Relied(Key(r)) # {} => "swept" \in mishaps' BY <3>5 DEF Sweep, Suffers
        <4>2. mishaps \subseteq mishaps' BY <3>5 DEF Sweep, Suffers
        <4> QED BY <3>5, <4>1, <4>2, InvForget DEF Sweep, Answer, At
      <3>6. CASE Discard(r)
        <4>1. ~At(r, "sweep") /\ request[r].at \in {"sweep", "discard", "drop"}
          BY <3>6 DEF Discard, At
        <4>2. mishaps' = mishaps /\ chunks' = chunks BY <3>6 DEF Discard
        <4> QED BY <3>6, <4>1, <4>2, InvForget DEF Discard, Goto, Answer
      <3>7. CASE Claim(r) BY <3>7, InvClaim
      <3>8. CASE Lost(r) BY <3>8, InvLost
      <3>9. CASE ListKeys(r) \/ DeleteBlobsFails(r)
        <4>1. CASE ListKeys(r)
          <5>1. request[r] \in Deletes /\ ~At(r, "batch")
            BY <4>1, StepsOfOps DEF ListKeys, At
          <5>2. \A q \in Requests \ {r} : request'[q] = request[q]
            BY <4>1 DEF ListKeys, TypeOK
          <5>3. request'[r].at = "blobs" BY <4>1, <5>1 DEF ListKeys, TypeOK, Deletes
          <5>4. \A q \in Requests : Harmless(q) BY <5>1, <5>2, <5>3 DEF Harmless
          <5>5. UNCHANGED <<chunks, bucket, mishaps>> BY <4>1 DEF ListKeys
          <5> QED BY <5>4, <5>5, InvStutter
        <4>2. CASE DeleteBlobsFails(r)
          BY <4>2, InvDeleteBlobsFails
        <4> QED BY <3>9, <4>1, <4>2
      <3>10. CASE DeleteBlobs(r) BY <3>10, InvDeleteBlobs
      <3>11. CASE Batch(r) BY <3>11, InvBatch
      <3>12. CASE CheckReaders(r) \/ StoreWraps(r)
        <4>1. request[r] \in Grants /\ ~At(r, "batch")
          BY <3>12, StepsOfOps DEF CheckReaders, StoreWraps, At
        <4>2. \A q \in Requests \ {r} : request'[q] = request[q]
          BY <3>12 DEF CheckReaders, StoreWraps, Goto, Answer, TypeOK
        <4>3. request'[r].at \in {"wraps", "none"}
          BY <3>12, <4>1 DEF CheckReaders, StoreWraps, Goto, Answer, TypeOK, Idle, Grants
        <4>4. \A q \in Requests : Harmless(q) BY <4>1, <4>2, <4>3 DEF Harmless
        <4>5. UNCHANGED <<chunks, bucket, mishaps>> BY <3>12 DEF CheckReaders, StoreWraps
        <4> QED BY <4>4, <4>5, InvStutter
      <3>13. CASE Dies(r) BY <3>13, InvDies
      <3> QED
        BY <2>4, <3>1, <3>2, <3>3, <3>4, <3>5, <3>6, <3>7, <3>8, <3>9, <3>10, <3>11, <3>12, <3>13
           DEF Step
    <2> QED BY <2>1, <2>2, <2>3, <2>4 DEF Next
  <1> QED BY <1>1, InvInit, TypeCorrect, PTL DEF Spec

(* getBlob finds the bytes of every row, whatever number of uploads, retries,*)
(* deletes and failures have run at once, until one of the four excuses.     *)
THEOREM RowsHaveBodiesAlways == Spec => []RowsHaveBodies
  <1>1. IInv => RowsHaveBodies
    BY DEF IInv, RowsStand, RowsHaveBodies, Stands, Unless, Excuses
  <1> QED BY <1>1, InductiveInvariant, PTL

-----------------------------------------------------------------------------
(* A step is of one request.                                                 *)
LEMMA StepChangesOne ==
    ASSUME TypeOK, NEW r \in Requests, Step(r)
    PROVE  \A q \in Requests \ {r} : request'[q] = request[q]
  BY DEF Step, BeginUpload, Lookup, Put, PutFails, Sweep, Claim, Lost, Discard, ForgetFails, Touch,
         BeginDelete, ListKeys, DeleteBlobs, DeleteBlobsFails, Batch, BeginGrant, CheckReaders,
         StoreWraps, Dies, Goto, Answer, TypeOK

(* A request comes to store wraps only from the check of their readers.      *)
LEMMA OnlyCheckedGrants ==
    ASSUME TypeOK, NEW r \in Requests, Step(r), request'[r].at = "wraps"
    PROVE  CheckReaders(r)
  <1>1. ASSUME Answer(r) PROVE FALSE BY <1>1 DEF Answer, TypeOK, Idle
  <1>2. ASSUME NEW range \in Ranges, NEW body \in Bodies, BeginUpload(r, range, body) PROVE FALSE
    BY <1>2 DEF BeginUpload, TypeOK, Idle
  <1>3. ASSUME NEW to \in SUBSET Recipients, NEW gen \in Gens, BeginGrant(r, to, gen) PROVE FALSE
    BY <1>3 DEF BeginGrant, TypeOK, Idle
  <1>4. ASSUME BeginDelete(r) PROVE FALSE BY <1>4 DEF BeginDelete, TypeOK, Idle
  <1>5. ASSUME NEW at, Goto(r, at), at # "wraps", request[r] \in Uploads \cup Deletes PROVE FALSE
    BY <1>5 DEF Goto, TypeOK, Uploads, Deletes
  <1>6. ASSUME Lookup(r) \/ Put(r) \/ PutFails(r) \/ Claim(r) \/ Lost(r) \/ Discard(r) \/ ForgetFails(r)
        PROVE  FALSE
    <2>1. request[r] \in Uploads
      BY <1>6, StepsOfOps DEF Lookup, Put, PutFails, Claim, Lost, Discard, ForgetFails, At, UploadSteps
    <2>2. \/ Answer(r)
          \/ \E at \in UploadSteps : Goto(r, at)
      BY <1>6 DEF Lookup, Put, PutFails, Claim, Lost, Discard, ForgetFails, Found, UploadSteps
    <2> QED BY <1>1, <1>5, <2>1, <2>2 DEF UploadSteps
  <1>7. ASSUME ListKeys(r) \/ DeleteBlobs(r) PROVE FALSE
    <2>1. request[r] \in Deletes BY <1>7, StepsOfOps DEF ListKeys, DeleteBlobs, At
    <2> QED BY <1>7, <2>1 DEF ListKeys, DeleteBlobs, Goto, TypeOK, Deletes
  <1> QED
    BY <1>1, <1>2, <1>3, <1>4, <1>6, <1>7
       DEF Step, Sweep, Touch, DeleteBlobsFails, Batch, StoreWraps, Dies

(* What was asked of the readers is still so when the wraps are stored, or a *)
(* reader was revoked in between.                                            *)
LEMMA GrantsStayChecked == Spec => []GrantsAreChecked
  <1>1. Init => GrantsAreChecked BY DEF Init, GrantsAreChecked, At, Idle
  <1>2. TypeOK /\ GrantsAreChecked /\ [Next]_vars => GrantsAreChecked'
    <2> SUFFICES ASSUME TypeOK, GrantsAreChecked, [Next]_vars,
                        NEW q \in Requests, At(q, "wraps")', NEW x \in request'[q].to
                 PROVE  MayReceive(x)' \/ "granting" \in mishaps'
      BY DEF GrantsAreChecked
    <2>1. CASE UNCHANGED vars
      BY <2>1 DEF vars, GrantsAreChecked, At, MayReceive
    <2>2. ASSUME NEW author \in Authors, PutSession(author)
          PROVE  MayReceive(x)' \/ "granting" \in mishaps'
      BY <2>2 DEF PutSession, GrantsAreChecked, At, MayReceive
    <2>3. ASSUME NEW y \in Readers, MintReader(y)
          PROVE  MayReceive(x)' \/ "granting" \in mishaps'
      BY <2>3 DEF MintReader, GrantsAreChecked, At, MayReceive, TypeOK
    <2>4. ASSUME NEW y \in Readers, RevokeReader(y)
          PROVE  MayReceive(x)' \/ "granting" \in mishaps'
      BY <2>4 DEF RevokeReader, Suffers, GrantsAreChecked, At, MayReceive, TypeOK
    <2>5. ASSUME NEW r \in Requests, Step(r)
          PROVE  MayReceive(x)' \/ "granting" \in mishaps'
      <3>1. readers' = readers
        BY <2>5 DEF Step, BeginUpload, Lookup, Put, PutFails, Sweep, Claim, Lost, Discard, ForgetFails,
                    Touch, BeginDelete, ListKeys, DeleteBlobs, DeleteBlobsFails, Batch, BeginGrant,
                    CheckReaders, StoreWraps, Dies
      <3>2. "granting" \in mishaps => "granting" \in mishaps'
        BY <2>5 DEF Step, BeginUpload, Lookup, Put, PutFails, Store, Sweep, Claim, Lost, Discard,
                    ForgetFails, Touch, BeginDelete, ListKeys, DeleteBlobs, DeleteBlobsFails, Batch,
                    BeginGrant, CheckReaders, StoreWraps, Dies, Suffers, Mishaps
      <3>3. CASE request'[q] = request[q]
        BY <3>1, <3>2, <3>3 DEF GrantsAreChecked, At, MayReceive
      <3>4. CASE request'[q] # request[q]
        <4>1. q = r BY <2>5, <3>4, StepChangesOne
        <4>2. CheckReaders(r) BY <2>5, <4>1, OnlyCheckedGrants DEF At
        <4>3. request'[r].to = request[r].to /\ \A y \in request[r].to : MayReceive(y)
          <5>1. request[r] \in Grants BY <4>2, StepsOfOps DEF CheckReaders, At
          <5>2. CASE request' = [request EXCEPT ![r].at = "wraps"]
            BY <4>2, <5>1, <5>2 DEF CheckReaders, Goto, Answer, TypeOK, Grants, Idle, At
          <5>3. request' # [request EXCEPT ![r] = Idle]
            BY <4>1 DEF At, Idle, TypeOK
          <5> QED BY <4>2, <5>2, <5>3 DEF CheckReaders, Goto, Answer
        <4> QED BY <4>1, <4>3, <3>1 DEF MayReceive
      <3> QED BY <3>3, <3>4
    <2> QED BY <2>1, <2>2, <2>3, <2>4, <2>5 DEF Next
  <1> QED BY <1>1, <1>2, TypeCorrect, PTL DEF Spec

(* A revoked reader is given no wrap, for any number of grants, revocations  *)
(* and deletes at once, unless one of them was being stored already.         *)
THEOREM RevokedGetsNothingNewAlways == Spec => RevokedGetsNothingNew
  <1>1. ASSUME TypeOK, GrantsAreChecked, [Next]_vars, NEW x \in Readers,
               readers[x] = "revoked", Unless({"granting"})
        PROVE  wraps'[x] \in {wraps[x], 0}
    <2>1. CASE UNCHANGED wraps BY <2>1
    <2>2. CASE \E r \in Requests : Batch(r)
      BY <2>2 DEF Batch, Recipients
    <2>3. ASSUME NEW r \in Requests, StoreWraps(r) PROVE wraps'[x] = wraps[x]
      <3>1. At(r, "wraps") /\ x # "self" BY <2>3 DEF StoreWraps
      <3>2. x \notin request[r].to
        BY <2>3, <1>1, <3>1 DEF StoreWraps, GrantsAreChecked, MayReceive, Unless
      <3> QED BY <2>3, <3>2 DEF StoreWraps, Recipients
    <2>4. \/ UNCHANGED wraps
          \/ \E r \in Requests : Batch(r) \/ StoreWraps(r)
      BY <1>1 DEF vars, Next, PutSession, MintReader, RevokeReader, Step, BeginUpload, Lookup, Put, PutFails,
                  Sweep, Claim, Lost, Discard, ForgetFails, Touch, BeginDelete, ListKeys, DeleteBlobs,
                  DeleteBlobsFails, BeginGrant, CheckReaders, Dies
    <2> QED BY <2>1, <2>2, <2>3, <2>4
  <1>2. TypeOK /\ GrantsAreChecked /\ [Next]_vars =>
          [\A x \in Readers : readers[x] = "revoked" /\ Unless({"granting"})
             => wraps'[x] \in {wraps[x], 0}]_vars
    BY <1>1
  <1> QED BY <1>2, TypeCorrect, GrantsStayChecked, PTL DEF Spec, RevokedGetsNothingNew

-----------------------------------------------------------------------------
(* What a delete leaves.  A tombstone that no request crossed has nothing,   *)
(* not even a request under way that could bring something.                  *)
TombstoneIsEmpty ==
    ~session.live /\ Unless({"crossed"}) =>
        /\ \A r \in Requests : request[r].op \notin {"upload", "grant"}
        /\ \A o \in Offsets : chunks[o] = NoChunk
        /\ \A x \in Recipients : wraps[x] = 0
        /\ session.size = 0

(* An upload that has an object of its own in the bucket.                    *)
Holding == {"claim", "sweep", "lost", "discard", "drop"}
Holds(r, k) == Key(r) = k /\ request[r].at \in Holding

Clean == Unless({"orphaned", "crossed"})

(* Every object is that of a row or of an upload under way.                  *)
ObjectsAreAccountedFor ==
    Clean => \A k \in Keys : bucket[k] # "none" =>
               k \in Listed \/ \E r \in Requests : Holds(r, k)

(* A delete has listed every row, and has removed the objects it listed but  *)
(* for what an upload has stored since.                                      *)
DeletesListAll ==
    Clean => \A d \in Requests : request[d].at \in {"blobs", "batch"} => Listed \subseteq request[d].keys

DeletesRemoveAll ==
    Clean => \A d \in Requests : At(d, "batch") => \A k \in request[d].keys \cap Keys :
               bucket[k] = "none" \/ \E r \in Requests : Key(r) = k /\ request[r].at \in {"claim", "sweep"}

LosersHaveAWinner ==
    Unless({"crossed"}) => \A r \in Requests : At(r, "lost") => chunks[Offset(r)] # NoChunk

DInv == ObjectsAreAccountedFor /\ DeletesListAll /\ DeletesRemoveAll /\ LosersHaveAWinner

(* Steps that touch neither rows nor objects, of requests that hold none.    *)
Idles(q) == \/ request'[q] = request[q]
            \/ request'[q].at \notin {"blobs", "batch", "lost"} /\ request[q].at \notin Holding

(* They take no object from its holder and no row from a delete's list.      *)
LEMMA DInvStutter ==
    ASSUME TypeOK, DInv, UNCHANGED <<chunks, bucket>>, mishaps \subseteq mishaps',
           \A q \in Requests : Idles(q)
    PROVE  DInv'
  <1> USE DEF DInv, Idles
  <1>1. Clean' => Clean BY DEF Clean, Unless
  <1>2. Listed' = Listed BY DEF Listed
  <1>3. ASSUME NEW r \in Requests, request[r].at \in Holding PROVE request'[r] = request[r]
    BY <1>3
  <1>4. ObjectsAreAccountedFor'
    BY <1>1, <1>2, <1>3 DEF ObjectsAreAccountedFor, Holds, Key
  <1>5. DeletesListAll' BY <1>1, <1>2 DEF DeletesListAll
  <1>6. DeletesRemoveAll' BY <1>1, <1>3 DEF DeletesRemoveAll, At, Key, Holding
  <1>7. LosersHaveAWinner' BY DEF LosersHaveAWinner, At, Key, Offset, Unless
  <1> QED BY <1>4, <1>5, <1>6, <1>7

(* An upload stores an object, which it holds from then on.                  *)
LEMMA DInvStore ==
    ASSUME TypeOK, DInv, NEW r \in Requests, NEW bytes, NEW at, At(r, "put"),
           Store(r, bytes), Goto(r, at), UNCHANGED chunks, at \in {"sweep", "claim"}
    PROVE  DInv'
  <1> USE DEF DInv
  <1>1. request[r] \in Uploads BY StepsOfOps DEF At, UploadSteps
  <1>2. \A q \in Requests \ {r} : request'[q] = request[q] BY DEF Goto, TypeOK
  <1>3. request'[r].at = at /\ Key(r)' = Key(r) BY <1>1 DEF Goto, TypeOK, Uploads, Key
  <1>4. bucket' = [bucket EXCEPT ![Key(r)] = bytes] /\ (Clean' => Clean)
    BY DEF Store, Suffers, Clean, Unless
  <1>5. Listed' = Listed BY DEF Listed
  <1>6. \A k \in Keys : k = Key(r) \/ bucket'[k] = bucket[k] BY <1>4 DEF TypeOK
  <1>7. ObjectsAreAccountedFor'
    <2> SUFFICES ASSUME Clean', NEW k \in Keys, bucket'[k] # "none"
                 PROVE  k \in Listed \/ \E q \in Requests : Holds(q, k)'
      BY <1>5 DEF ObjectsAreAccountedFor
    <2>1. CASE k = Key(r) BY <2>1, <1>3 DEF Holds, Holding
    <2>2. CASE k # Key(r)
      <3>1. k \in Listed \/ \E q \in Requests : Holds(q, k)
        BY <2>2, <1>4, <1>6 DEF ObjectsAreAccountedFor
      <3>2. ASSUME NEW q \in Requests, Holds(q, k) PROVE Holds(q, k)'
        <4>1. q # r BY <2>2, <3>2 DEF Holds
        <4> QED BY <3>2, <4>1, <1>2 DEF Holds, Key
      <3> QED BY <3>1, <3>2
    <2> QED BY <2>1, <2>2
  <1>8. DeletesListAll' BY <1>2, <1>3, <1>4, <1>5 DEF DeletesListAll
  <1>9. DeletesRemoveAll'
    <2> SUFFICES ASSUME Clean', NEW d \in Requests, At(d, "batch")', NEW k \in request'[d].keys \cap Keys
                 PROVE  \/ bucket'[k] = "none"
                        \/ \E q \in Requests : Key(q)' = k /\ request'[q].at \in {"claim", "sweep"}
      BY DEF DeletesRemoveAll
    <2>1. request'[d] = request[d] BY <1>2, <1>3 DEF At
    <2>2. CASE k = Key(r) BY <2>2, <1>3
    <2>3. CASE k # Key(r)
      <3>1. bucket[k] = "none" \/ \E q \in Requests : Key(q) = k /\ request[q].at \in {"claim", "sweep"}
        BY <2>1, <1>4 DEF DeletesRemoveAll, At
      <3>2. ASSUME NEW q \in Requests, Key(q) = k PROVE request'[q] = request[q] /\ Key(q)' = k
        BY <2>3, <3>2, <1>2 DEF Key
      <3> QED BY <2>3, <3>1, <3>2, <1>6
    <2> QED BY <2>2, <2>3
  <1>10. LosersHaveAWinner'
    <2>1. Unless({"crossed"})' => Unless({"crossed"}) BY DEF Store, Suffers, Unless
    <2> QED BY <1>2, <1>3, <2>1 DEF LosersHaveAWinner, At, Key, Offset
  <1> QED BY <1>7, <1>8, <1>9, <1>10

(* An upload removes its object, and holds none from then on.                *)
LEMMA DInvForget ==
    ASSUME TypeOK, DInv, NEW r \in Requests, request[r].at \in {"sweep", "discard", "drop"},
           bucket' = [bucket EXCEPT ![Key(r)] = "none"], UNCHANGED chunks,
           mishaps \subseteq mishaps',
           \/ request' = [request EXCEPT ![r] = Idle]
           \/ request' = [request EXCEPT ![r].at = "touch"]
    PROVE  DInv'
  <1> USE DEF DInv
  <1>1. request[r] \in Uploads BY StepsOfOps DEF UploadSteps
  <1>2. \A q \in Requests \ {r} : request'[q] = request[q] BY DEF TypeOK
  <1>3. request'[r].at \in {"none", "touch"} BY <1>1 DEF TypeOK, Idle, Uploads
  <1>4. Clean' => Clean BY DEF Clean, Unless
  <1>5. Listed' = Listed BY DEF Listed
  <1>6. \A k \in Keys : IF k = Key(r) THEN bucket'[k] = "none" ELSE bucket'[k] = bucket[k]
    BY DEF TypeOK
  <1>7. ASSUME NEW k, NEW q \in Requests, Key(q) = k, k # Key(r)
        PROVE  request'[q] = request[q] /\ Key(q)' = k
    BY <1>2, <1>7 DEF Key
  <1>8. ObjectsAreAccountedFor'
    <2> SUFFICES ASSUME Clean', NEW k \in Keys, bucket'[k] # "none"
                 PROVE  k \in Listed \/ \E q \in Requests : Holds(q, k)'
      BY <1>5 DEF ObjectsAreAccountedFor
    <2>1. k # Key(r) /\ bucket[k] # "none" BY <1>6
    <2>2. k \in Listed \/ \E q \in Requests : Holds(q, k)
      BY <2>1, <1>4 DEF ObjectsAreAccountedFor
    <2> QED BY <2>1, <2>2, <1>7 DEF Holds
  <1>9. DeletesListAll' BY <1>2, <1>3, <1>4, <1>5 DEF DeletesListAll
  <1>10. DeletesRemoveAll'
    <2> SUFFICES ASSUME Clean', NEW d \in Requests, At(d, "batch")', NEW k \in request'[d].keys \cap Keys,
                        bucket'[k] # "none"
                 PROVE  \E q \in Requests : Key(q)' = k /\ request'[q].at \in {"claim", "sweep"}
      BY DEF DeletesRemoveAll
    <2>1. request'[d] = request[d] BY <1>2, <1>3 DEF At
    <2>2. k # Key(r) /\ bucket[k] # "none" BY <1>6
    <2>3. PICK q \in Requests : Key(q) = k /\ request[q].at \in {"claim", "sweep"}
      BY <2>1, <2>2, <1>4 DEF DeletesRemoveAll, At
    <2> QED BY <2>2, <2>3, <1>7
  <1>11. LosersHaveAWinner' BY <1>2, <1>3 DEF LosersHaveAWinner, At, Key, Offset, Unless
  <1> QED BY <1>8, <1>9, <1>10, <1>11

(* After its claim the object of an upload is the row's, or the upload loses *)
(* or drops it; and a delete that has listed the rows has been crossed.      *)
LEMMA DInvClaim ==
    ASSUME TypeOK, DInv, NEW r \in Requests, Claim(r) PROVE DInv'
  <1> USE DEF DInv
  <1> DEFINE k == Key(r)  o == Offset(r)
  <1>1. request[r] \in Uploads /\ At(r, "claim") /\ k \in Keys /\ o \in Offsets
    BY StepsOfOps, KeyOfUpload DEF Claim, At, UploadSteps
  <1>2. \A q \in Requests \ {r} : request'[q] = request[q] BY DEF Claim, Goto, TypeOK
  <1>3. mishaps \subseteq mishaps' /\ bucket' = bucket BY DEF Claim, Suffers
  <1>4. /\ Clean' => Clean /\ \A d \in Requests : ~At(d, "blobs") /\ ~At(d, "batch")
        /\ Unless({"crossed"})' => Unless({"crossed"})
    BY DEF Claim, Suffers, Clean, Unless
  <1>5. PICK at \in {"lost", "drop", "touch"} : request' = [request EXCEPT ![r].at = at]
    BY DEF Claim, Goto, Found
  <1>6. request'[r].at = at /\ Key(r)' = k /\ Offset(r)' = o
    BY <1>1, <1>5 DEF TypeOK, Uploads, Key, Offset
  <1>7. Listed \subseteq Listed' /\ (at = "touch" => k \in Listed')
        /\ (at = "lost" => chunks'[o] # NoChunk)
        /\ \A p \in Offsets : chunks[p] # NoChunk => chunks'[p] # NoChunk
    <2>1. CASE chunks[o] = NoChunk
      <3>1. chunks' = [chunks EXCEPT ![o] = [key |-> k, body |-> request[r].body]] /\ at = "touch"
        BY <2>1, <1>1, <1>5, <1>6 DEF Claim, Goto, TypeOK, Uploads
      <3>2. chunks'[o].key = k /\ \A p \in Offsets \ {o} : chunks'[p] = chunks[p]
        BY <3>1, <1>1 DEF TypeOK
      <3>3. k # NoKey BY <1>1 DEF Keys, NoKey
      <3>4. chunks'[o] # NoChunk BY <3>2, <3>3 DEF NoChunk
      <3> QED BY <2>1, <3>1, <3>2, <3>4, <1>1 DEF Listed
    <2>2. CASE chunks[o] # NoChunk
      <3>1. chunks' = chunks BY <2>2 DEF Claim
      <3>2. at = Found(chunks[o], r)
        BY <2>2, <1>1, <1>5, <1>6 DEF Claim, Goto, TypeOK, Uploads
      <3>3. at = "touch" => chunks[o].key = k BY <3>2 DEF Found
      <3> QED BY <2>2, <3>1, <3>3, <1>1 DEF Listed
    <2> QED BY <2>1, <2>2
  <1>8. ObjectsAreAccountedFor'
    <2> SUFFICES ASSUME Clean', NEW l \in Keys, bucket[l] # "none"
                 PROVE  l \in Listed' \/ \E q \in Requests : Holds(q, l)'
      BY <1>3 DEF ObjectsAreAccountedFor
    <2>1. l \in Listed \/ \E q \in Requests : Holds(q, l) BY <1>4 DEF ObjectsAreAccountedFor
    <2>2. ASSUME NEW q \in Requests, Holds(q, l), q # r PROVE Holds(q, l)'
      BY <1>2, <2>2 DEF Holds, Key
    <2>3. Holds(r, l) => l \in Listed' \/ Holds(r, l)'
      BY <1>5, <1>6, <1>7 DEF Holds, Holding
    <2> QED BY <2>1, <2>2, <2>3, <1>7
  <1>9. DeletesListAll' /\ DeletesRemoveAll'
    <2>1. Clean' => \A d \in Requests : request'[d].at \notin {"blobs", "batch"}
      BY <1>2, <1>4, <1>6 DEF At
    <2> QED BY <2>1 DEF DeletesListAll, DeletesRemoveAll, At
  <1>10. LosersHaveAWinner'
    <2> SUFFICES ASSUME Unless({"crossed"})', NEW q \in Requests, At(q, "lost")'
                 PROVE  chunks'[Offset(q)'] # NoChunk
      BY DEF LosersHaveAWinner
    <2>1. CASE q = r BY <2>1, <1>6, <1>7 DEF At
    <2>2. CASE q # r
      <3>1. request'[q] = request[q] BY <1>2, <2>2
      <3>2. At(q, "lost") /\ Offset(q)' = Offset(q) BY <3>1 DEF At, Offset, Key
      <3>3. chunks[Offset(q)] # NoChunk BY <3>2, <1>4 DEF LosersHaveAWinner
      <3>4. Offset(q) \in Offsets BY <3>2, KeyOfUpload DEF At, UploadSteps
      <3> QED BY <3>2, <3>3, <3>4, <1>7
    <2> QED BY <2>1, <2>2
  <1> QED BY <1>8, <1>9, <1>10

(* Who lost leaves an object behind only when it is the winner's.            *)
LEMMA DInvLost ==
    ASSUME TypeOK, DInv, NEW r \in Requests, Lost(r) PROVE DInv'
  <1> USE DEF DInv
  <1>1. request[r] \in Uploads /\ At(r, "lost") /\ Offset(r) \in Offsets
    BY StepsOfOps, KeyOfUpload DEF Lost, At, UploadSteps
  <1>2. \A q \in Requests \ {r} : request'[q] = request[q] BY DEF Lost, Goto, Answer, TypeOK
  <1>3. UNCHANGED <<chunks, bucket, mishaps>> BY DEF Lost
  <1>4. Listed' = Listed /\ Clean' = Clean BY <1>3 DEF Listed, Clean, Unless
  <1>5. \/ request' = [request EXCEPT ![r].at = "discard"]
        \/ /\ request' = [request EXCEPT ![r] = Idle]
           /\ chunks[Offset(r)] # NoChunk => chunks[Offset(r)].key = Key(r)
    BY DEF Lost, Goto, Answer
  <1>6. \/ request'[r].at = "discard" /\ Key(r)' = Key(r)
        \/ /\ request'[r].at = "none"
           /\ chunks[Offset(r)] # NoChunk => chunks[Offset(r)].key = Key(r)
    BY <1>1, <1>5 DEF TypeOK, Uploads, Idle, Key
  <1>7. ObjectsAreAccountedFor'
    <2> SUFFICES ASSUME Clean, NEW l \in Keys, bucket[l] # "none"
                 PROVE  l \in Listed \/ \E q \in Requests : Holds(q, l)'
      BY <1>3, <1>4 DEF ObjectsAreAccountedFor
    <2>1. l \in Listed \/ \E q \in Requests : Holds(q, l) BY DEF ObjectsAreAccountedFor
    <2>2. ASSUME NEW q \in Requests, Holds(q, l), q # r PROVE Holds(q, l)'
      BY <1>2, <2>2 DEF Holds, Key
    <2>3. ASSUME Holds(r, l) PROVE l \in Listed \/ Holds(r, l)'
      <3>1. chunks[Offset(r)] # NoChunk BY <1>1 DEF LosersHaveAWinner, Clean, Unless
      <3>2. chunks[Offset(r)].key = Key(r) => Key(r) \in Listed BY <3>1, <1>1 DEF Listed
      <3> QED BY <2>3, <3>1, <3>2, <1>6 DEF Holds, Holding
    <2> QED BY <2>1, <2>2, <2>3
  <1>8. DeletesListAll' BY <1>2, <1>4, <1>6 DEF DeletesListAll
  <1>9. DeletesRemoveAll'
    <2> SUFFICES ASSUME Clean, NEW d \in Requests, At(d, "batch")', NEW l \in request'[d].keys \cap Keys,
                        bucket[l] # "none"
                 PROVE  \E q \in Requests : Key(q)' = l /\ request'[q].at \in {"claim", "sweep"}
      BY <1>3, <1>4 DEF DeletesRemoveAll
    <2>1. request'[d] = request[d] BY <1>2, <1>6 DEF At
    <2>2. PICK q \in Requests : Key(q) = l /\ request[q].at \in {"claim", "sweep"}
      BY <2>1 DEF DeletesRemoveAll, At
    <2>3. request'[q] = request[q] BY <2>2, <1>1, <1>2 DEF At
    <2> QED BY <2>2, <2>3 DEF Key
  <1>10. LosersHaveAWinner' BY <1>2, <1>3, <1>6 DEF LosersHaveAWinner, At, Key, Offset, Unless
  <1> QED BY <1>7, <1>8, <1>9, <1>10

(* A delete lists the rows, removes their objects, and ends.                 *)
LEMMA DInvDelete ==
    ASSUME TypeOK, DInv, NEW r \in Requests, ListKeys(r) \/ DeleteBlobs(r) \/ DeleteBlobsFails(r)
    PROVE  DInv'
  <1> USE DEF DInv
  <1>1. request[r] \in Deletes /\ request[r].at \in {"list", "blobs"}
    BY StepsOfOps DEF ListKeys, DeleteBlobs, DeleteBlobsFails, At
  <1>2. \A q \in Requests \ {r} : request'[q] = request[q]
    BY DEF ListKeys, DeleteBlobs, DeleteBlobsFails, Goto, Answer, TypeOK
  <1>3. chunks' = chunks /\ mishaps \subseteq mishaps'
    BY DEF ListKeys, DeleteBlobs, DeleteBlobsFails, Suffers
  <1>4. Listed' = Listed /\ (Clean' => Clean) BY <1>3 DEF Listed, Clean, Unless
  <1>5. /\ request'[r].at \in {"blobs", "batch", "none"}
        /\ request'[r].at = "blobs" => request'[r].keys = Listed
        /\ request'[r].at = "batch" => /\ request[r].at = "blobs"
                                       /\ request'[r].keys = request[r].keys
                                       /\ bucket' = Without(request[r].keys)
    <2>1. CASE ListKeys(r) BY <2>1, <1>1 DEF ListKeys, TypeOK, Deletes
    <2>2. CASE DeleteBlobs(r) BY <2>2, <1>1 DEF DeleteBlobs, Goto, TypeOK, Deletes, At
    <2>3. CASE DeleteBlobsFails(r) BY <2>3, <1>1 DEF DeleteBlobsFails, Answer, TypeOK, Idle
    <2> QED BY <2>1, <2>2, <2>3
  <1>6. \A k \in Keys : bucket'[k] \in {bucket[k], "none"}
    BY DEF ListKeys, DeleteBlobs, DeleteBlobsFails, Without
  <1>7. ASSUME NEW q \in Requests, request[q].at \in Holding PROVE request'[q] = request[q]
    BY <1>1, <1>2, <1>7 DEF Holding
  <1>8. ObjectsAreAccountedFor' BY <1>4, <1>6, <1>7 DEF ObjectsAreAccountedFor, Holds, Key
  <1>9. DeletesListAll' BY <1>2, <1>4, <1>5 DEF DeletesListAll
  <1>10. DeletesRemoveAll'
    <2> SUFFICES ASSUME Clean', NEW d \in Requests, At(d, "batch")', NEW l \in request'[d].keys \cap Keys,
                        bucket'[l] # "none"
                 PROVE  \E q \in Requests : Key(q)' = l /\ request'[q].at \in {"claim", "sweep"}
      BY DEF DeletesRemoveAll
    <2>1. d # r BY <1>5 DEF At, Without
    <2>2. request'[d] = request[d] /\ bucket[l] # "none" BY <2>1, <1>2, <1>6
    <2>3. PICK q \in Requests : Key(q) = l /\ request[q].at \in {"claim", "sweep"}
      BY <2>2, <1>4 DEF DeletesRemoveAll, At
    <2>4. request'[q] = request[q] BY <2>3, <1>7 DEF Holding
    <2> QED BY <2>3, <2>4 DEF Key
  <1>11. LosersHaveAWinner' BY <1>2, <1>3, <1>5 DEF LosersHaveAWinner, At, Key, Offset, Unless
  <1> QED BY <1>8, <1>9, <1>10, <1>11

(* Without an upload under way there is nothing left in the bucket.          *)
LEMMA DInvBatch ==
    ASSUME TypeOK, DInv, NEW r \in Requests, Batch(r) PROVE DInv'
  <1> USE DEF DInv
  <1>1. At(r, "batch") /\ bucket' = bucket /\ Listed' = {}
    BY DEF Batch, Listed
  <1>2. \A q \in Requests : request'[q] = request[q] \/ request'[q].at = "none"
    BY DEF Batch, Answer, TypeOK, Idle
  <1>3. Unless({"crossed"})' => \A q \in Requests : request[q].op # "upload"
    BY DEF Batch, Unless, Mishaps
  <1>4. Clean' => Clean /\ \A q \in Requests : request[q].at \notin UploadSteps
    <2>1. Clean' => Clean BY DEF Batch, Clean, Unless, Mishaps
    <2>2. Clean' => Unless({"crossed"})' BY DEF Clean, Unless
    <2> QED BY <2>1, <2>2, <1>3, KeyOfUpload
  <1>5. Clean' => \A k \in Keys : bucket[k] = "none"
    <2> SUFFICES ASSUME Clean', NEW k \in Keys, bucket[k] # "none" PROVE FALSE
      OBVIOUS
    <2>1. k \in Listed BY <1>4 DEF ObjectsAreAccountedFor, Holds, Holding, UploadSteps
    <2>2. k \in request[r].keys BY <2>1, <1>1, <1>4 DEF DeletesListAll, At
    <2> QED BY <2>2, <1>1, <1>4 DEF DeletesRemoveAll, UploadSteps
  <1>6. ObjectsAreAccountedFor' BY <1>1, <1>5 DEF ObjectsAreAccountedFor
  <1>7. DeletesListAll' BY <1>1 DEF DeletesListAll
  <1>8. DeletesRemoveAll' BY <1>1, <1>5 DEF DeletesRemoveAll
  <1>9. LosersHaveAWinner'
    <2>1. Unless({"crossed"})' => \A q \in Requests : request'[q].at # "lost"
      BY <1>2, <1>3, KeyOfUpload DEF UploadSteps
    <2> QED BY <2>1 DEF LosersHaveAWinner, At
  <1> QED BY <1>6, <1>7, <1>8, <1>9

(* An upload that ends with its object in the bucket is an orphan's.         *)
LEMMA DInvEnds ==
    ASSUME TypeOK, DInv, NEW r \in Requests, Dies(r) \/ ForgetFails(r) PROVE DInv'
  <1> USE DEF DInv
  <1>1. \A q \in Requests \ {r} : request'[q] = request[q]
    BY DEF Dies, ForgetFails, Answer, Goto, TypeOK
  <1>2. UNCHANGED <<chunks, bucket>> /\ mishaps \subseteq mishaps'
    BY DEF Dies, ForgetFails, Suffers
  <1>3. request'[r].at \in {"none", "touch"}
    <2>1. CASE Dies(r) BY <2>1 DEF Dies, Answer, TypeOK, Idle
    <2>2. CASE ForgetFails(r)
      <3>1. request[r] \in Uploads BY <2>2, StepsOfOps DEF ForgetFails, At, UploadSteps
      <3> QED BY <2>2, <3>1 DEF ForgetFails, Answer, Goto, TypeOK, Idle, Uploads
    <2> QED BY <2>1, <2>2
  <1>4. CASE request[r].at \in Holding
    <2>1. ~Clean' BY <1>4 DEF Dies, ForgetFails, Suffers, Clean, Unless, Holding
    <2>2. LosersHaveAWinner' BY <1>1, <1>2, <1>3 DEF LosersHaveAWinner, At, Key, Offset, Unless
    <2> QED BY <2>1, <2>2 DEF ObjectsAreAccountedFor, DeletesListAll, DeletesRemoveAll
  <1>5. CASE request[r].at \notin Holding
    <2>1. \A q \in Requests : Idles(q) BY <1>1, <1>3, <1>5 DEF Idles
    <2> QED BY <2>1, <1>2, DInvStutter
  <1> QED BY <1>4, <1>5

(* Every action keeps the four.                                              *)
LEMMA DeletesAreComplete == Spec => []DInv
  <1>1. Init => DInv
    BY DEF Init, DInv, ObjectsAreAccountedFor, DeletesListAll, DeletesRemoveAll, LosersHaveAWinner,
           At, Idle
  <1>2. TypeOK /\ DInv /\ [Next]_vars => DInv'
    <2> SUFFICES ASSUME TypeOK, DInv, [Next]_vars PROVE DInv' OBVIOUS
    <2>1. CASE UNCHANGED vars
      <3>1. \A q \in Requests : Idles(q) BY <2>1 DEF vars, Idles
      <3>2. UNCHANGED <<chunks, bucket, mishaps>> BY <2>1 DEF vars
      <3> QED BY <3>1, <3>2, DInvStutter
    <2>2. ASSUME NEW author \in Authors, PutSession(author) PROVE DInv'
      <3>1. \A q \in Requests : Idles(q) BY <2>2 DEF PutSession, Idles
      <3>2. UNCHANGED <<chunks, bucket, mishaps>> BY <2>2 DEF PutSession
      <3> QED BY <3>1, <3>2, DInvStutter
    <2>3. ASSUME NEW x \in Readers, MintReader(x) \/ RevokeReader(x) PROVE DInv'
      <3>1. \A q \in Requests : Idles(q) BY <2>3 DEF MintReader, RevokeReader, Idles
      <3>2. UNCHANGED <<chunks, bucket>> /\ mishaps \subseteq mishaps'
        BY <2>3 DEF MintReader, RevokeReader, Suffers
      <3> QED BY <3>1, <3>2, DInvStutter
    <2>4. ASSUME NEW r \in Requests, Step(r) PROVE DInv'
      <3> DEFINE Begins ==
            \/ \E range \in Ranges, body \in Bodies : BeginUpload(r, range, body)
            \/ BeginDelete(r)
            \/ \E to \in SUBSET Recipients, gen \in Gens : to # {} /\ BeginGrant(r, to, gen)
      <3>0. \A q \in Requests \ {r} : request'[q] = request[q] BY <2>4, StepChangesOne
      <3>1. CASE Begins
        <4>1. request[r] = Idle /\ UNCHANGED <<chunks, bucket, mishaps>>
          BY <3>1 DEF BeginUpload, BeginDelete, BeginGrant, Begin
        <4>2. request'[r].at \in {"lookup", "list", "readers"}
          <5>1. CASE BeginDelete(r) BY <5>1 DEF BeginDelete, TypeOK, Idle
          <5>2. ASSUME NEW range \in Ranges, NEW body \in Bodies, BeginUpload(r, range, body)
                PROVE  request'[r].at = "lookup"
            BY <5>2 DEF BeginUpload, TypeOK, Idle
          <5>3. ASSUME NEW to \in SUBSET Recipients, NEW gen \in Gens, BeginGrant(r, to, gen)
                PROVE  request'[r].at = "readers"
            BY <5>3 DEF BeginGrant, TypeOK, Idle
          <5> QED BY <3>1, <5>1, <5>2, <5>3
        <4>3. \A q \in Requests : Idles(q) BY <3>0, <4>1, <4>2 DEF Idles, Holding, Idle
        <4> QED BY <4>1, <4>3, DInvStutter
      <3>2. CASE Lookup(r) \/ Touch(r) \/ CheckReaders(r) \/ StoreWraps(r)
        <4>1. /\ request[r].at \notin Holding /\ UNCHANGED <<chunks, bucket, mishaps>>
              /\ request[r] \in Uploads \cup Grants
          BY <3>2, StepsOfOps DEF Lookup, Touch, CheckReaders, StoreWraps, At, Holding, UploadSteps
        <4>2. request'[r].at \in {"none", "put", "wraps"}
          <5>1. ASSUME NEW at, Goto(r, at) PROVE request'[r].at = at
            BY <5>1, <4>1 DEF Goto, TypeOK, Uploads, Grants
          <5>2. Answer(r) => request'[r].at = "none" BY DEF Answer, TypeOK, Idle
          <5> QED BY <3>2, <5>1, <5>2 DEF Lookup, Touch, CheckReaders, StoreWraps
        <4>3. \A q \in Requests : Idles(q) BY <3>0, <4>1, <4>2 DEF Idles
        <4> QED BY <4>1, <4>3, DInvStutter
      <3>3. CASE Put(r) BY <3>3, DInvStore DEF Put
      <3>4. CASE PutFails(r)
        <4>1. At(r, "put") /\ Goto(r, "sweep") /\ chunks' = chunks BY <3>4 DEF PutFails
        <4>2. CASE Store(r, "junk") BY <4>1, <4>2, DInvStore
        <4>3. CASE Store(r, request[r].body) BY <4>1, <4>3, DInvStore
        <4>4. CASE UNCHANGED <<bucket, mishaps>>
          <5>1. request[r] \in Uploads BY <4>1, StepsOfOps DEF At, UploadSteps
          <5>2. request'[r].at = "sweep" BY <4>1, <5>1 DEF Goto, TypeOK, Uploads
          <5>3. \A q \in Requests : Idles(q) BY <3>0, <4>1, <5>2 DEF Idles, At, Holding
          <5> QED BY <4>1, <4>4, <5>3, DInvStutter
        <4> QED BY <3>4, <4>2, <4>3, <4>4 DEF PutFails
      <3>5. CASE Sweep(r)
        <4>1. mishaps \subseteq mishaps' BY <3>5 DEF Sweep, Suffers
        <4> QED BY <3>5, <4>1, DInvForget DEF Sweep, Answer, At
      <3>6. CASE Discard(r)
        BY <3>6, DInvForget DEF Discard, Goto, Answer, At
      <3>7. CASE Claim(r) BY <3>7, DInvClaim
      <3>8. CASE Lost(r) BY <3>8, DInvLost
      <3>9. CASE ListKeys(r) \/ DeleteBlobs(r) \/ DeleteBlobsFails(r) BY <3>9, DInvDelete
      <3>10. CASE Batch(r) BY <3>10, DInvBatch
      <3>11. CASE Dies(r) \/ ForgetFails(r) BY <3>11, DInvEnds
      <3> QED
        BY <2>4, <3>1, <3>2, <3>3, <3>4, <3>5, <3>6, <3>7, <3>8, <3>9, <3>10, <3>11 DEF Step
    <2> QED BY <2>1, <2>2, <2>3, <2>4 DEF Next
  <1> QED BY <1>1, <1>2, TypeCorrect, PTL DEF Spec

(* A tombstone stays empty: requests begin on a live session only, and those *)
(* that the batch of the delete found under way have been crossed.           *)
LEMMA TombstonesStayEmpty == Spec => []TombstoneIsEmpty
  <1>1. Init => TombstoneIsEmpty
    BY DEF Init, TombstoneIsEmpty, Idle
  <1>2. TypeOK /\ TombstoneIsEmpty /\ [Next]_vars => TombstoneIsEmpty'
    <2> SUFFICES ASSUME TypeOK, TombstoneIsEmpty, [Next]_vars, ~session'.live, Unless({"crossed"})'
                 PROVE  /\ \A r \in Requests : request'[r].op \notin {"upload", "grant"}
                        /\ \A o \in Offsets : chunks'[o] = NoChunk
                        /\ \A x \in Recipients : wraps'[x] = 0
                        /\ session'.size = 0
      BY DEF TombstoneIsEmpty
    <2>1. CASE UNCHANGED vars BY <2>1 DEF vars, TombstoneIsEmpty, Unless
    <2>2. ASSUME NEW author \in Authors, PutSession(author) PROVE FALSE
      BY <2>2 DEF PutSession, TypeOK
    <2>3. CASE \E x \in Readers : MintReader(x) \/ RevokeReader(x)
      BY <2>3 DEF MintReader, RevokeReader, Suffers, TombstoneIsEmpty, Unless
    <2>4. ASSUME NEW r \in Requests, Batch(r)
          PROVE  /\ \A q \in Requests : request'[q].op \notin {"upload", "grant"}
                 /\ \A o \in Offsets : chunks'[o] = NoChunk
                 /\ \A x \in Recipients : wraps'[x] = 0
                 /\ session'.size = 0
      <3>1. \A q \in Requests : request[q].op \notin {"upload", "grant"}
        BY <2>4 DEF Batch, Unless, Mishaps
      <3>2. \A q \in Requests : request'[q] \in {request[q], Idle}
        BY <2>4 DEF Batch, Answer, TypeOK
      <3> QED BY <2>4, <3>1, <3>2 DEF Batch, TypeOK, Idle
    <2>5. ASSUME NEW r \in Requests, Step(r), ~Batch(r)
          PROVE  /\ \A q \in Requests : request'[q].op \notin {"upload", "grant"}
                 /\ UNCHANGED <<session, chunks, wraps>> /\ TombstoneIsEmpty /\ ~session.live
                 /\ Unless({"crossed"})
      <3>1. mishaps \subseteq mishaps' /\ session'.live = session.live
        BY <2>5 DEF Step, BeginUpload, Lookup, Put, PutFails, Store, Sweep, Claim, Lost, Discard,
                    ForgetFails, Touch, BeginDelete, ListKeys, DeleteBlobs, DeleteBlobsFails, BeginGrant,
                    CheckReaders, StoreWraps, Dies, Suffers, TypeOK
      <3>2. ~session.live /\ Unless({"crossed"}) BY <3>1 DEF Unless
      <3>3. \A q \in Requests : request[q].op \notin {"upload", "grant"}
        BY <3>2 DEF TombstoneIsEmpty
      <3>4. request[r].at \notin UploadSteps \cup {"readers", "wraps"}
        BY <3>3, StepsOfOps DEF Uploads, Grants
      <3>5. BeginDelete(r) \/ ListKeys(r) \/ DeleteBlobs(r) \/ DeleteBlobsFails(r) \/ Dies(r)
        BY <2>5, <3>2, <3>4 DEF Step, BeginUpload, Lookup, Put, PutFails, Sweep, Claim, Lost, Discard,
                    ForgetFails, Touch, BeginGrant, CheckReaders, StoreWraps, At, UploadSteps
      <3>6. request'[r].op \notin {"upload", "grant"}
        <4>1. CASE BeginDelete(r) BY <4>1 DEF BeginDelete, TypeOK, Idle
        <4>2. CASE ListKeys(r) \/ DeleteBlobs(r)
          <5>1. request[r] \in Deletes BY <4>2, StepsOfOps DEF ListKeys, DeleteBlobs, At
          <5> QED BY <4>2, <5>1 DEF ListKeys, DeleteBlobs, Goto, TypeOK, Deletes
        <4>3. CASE DeleteBlobsFails(r) \/ Dies(r)
          BY <4>3 DEF DeleteBlobsFails, Dies, Answer, TypeOK, Idle
        <4> QED BY <3>5, <4>1, <4>2, <4>3
      <3>7. \A q \in Requests \ {r} : request'[q] = request[q] BY <2>5, StepChangesOne
      <3>8. UNCHANGED <<session, chunks, wraps>>
        BY <3>5 DEF BeginDelete, ListKeys, DeleteBlobs, DeleteBlobsFails, Dies
      <3> QED BY <3>2, <3>3, <3>6, <3>7, <3>8
    <2> QED BY <2>1, <2>2, <2>3, <2>4, <2>5 DEF Next, TombstoneIsEmpty
  <1> QED BY <1>1, <1>2, TypeCorrect, PTL DEF Spec

(* A deleted session has left nothing behind, after any number of uploads,   *)
(* failures and deletes, but for what crossed the delete.                    *)
THEOREM DeletedLeavesNothingAlways == Spec => []DeletedLeavesNothing
  <1>1. TombstoneIsEmpty /\ DInv => DeletedLeavesNothing
    <2> SUFFICES ASSUME TombstoneIsEmpty, DInv, ~session.live, Quiet, Unless({"crossed"})
                 PROVE  /\ \A o \in Offsets : chunks[o] = NoChunk
                        /\ \A x \in Recipients : wraps[x] = 0
                        /\ session.size = 0
                        /\ Unless({"orphaned"}) => \A k \in Keys : bucket[k] = "none"
      BY DEF DeletedLeavesNothing
    <2>1. Listed = {} BY DEF TombstoneIsEmpty, Listed
    <2>2. \A r \in Requests, k \in Keys : ~Holds(r, k) BY DEF Quiet, Holds, Holding, Idle
    <2>3. Unless({"orphaned"}) => Clean BY DEF Unless, Clean
    <2> QED BY <2>1, <2>2, <2>3 DEF TombstoneIsEmpty, DInv, ObjectsAreAccountedFor
  <1> QED BY <1>1, DeletesAreComplete, TombstonesStayEmpty, PTL

-----------------------------------------------------------------------------
(* What is announced.  The upload that claims a row goes on to touch the row *)
(* of the session; until then it answers for the size and for the listing.   *)
Announced == Unless({"untouched", "crossed"})

(* A row counts in the size, or an upload of its range is about to touch it. *)
RowsCount ==
    Announced => \A o \in Offsets : chunks[o] # NoChunk =>
        \/ End(chunks[o].key.range) <= session.size
        \/ \E r \in Requests : At(r, "touch") /\ Key(r).range = chunks[o].key.range

(* The size is that of nothing or of a row.                                  *)
SizeIsOfRow ==
    Announced => session.size \in {0} \cup {End(key.range) : key \in Listed}

(* Who touches the session's row has its range among the rows of chunks.     *)
TouchersHaveRows ==
    Announced => \A r \in Requests : At(r, "touch") \/ At(r, "drop") =>
        chunks[Offset(r)] # NoChunk /\ chunks[Offset(r)].key.range = Key(r).range

ListingIsDue ==
    Announced => session.listed \/ \E r \in Requests : At(r, "touch")

AInv == RowsCount /\ SizeIsOfRow /\ TouchersHaveRows /\ ListingIsDue

(* A request that does not enter the last steps of an upload, nor leaves the *)
(* one that touches the row.                                                 *)
Unannouncing(q) == \/ request'[q] = request[q]
                   \/ request'[q].at \notin {"touch", "drop"} /\ ~At(q, "touch")

(* Steps that leave the rows of chunks alone, and of the session's at most   *)
(* list it anew.                                                             *)
LEMMA AInvStutter ==
    ASSUME TypeOK, AInv, chunks' = chunks, session'.size = session.size,
           session.listed => session'.listed, mishaps \subseteq mishaps',
           \A q \in Requests : Unannouncing(q)
    PROVE  AInv'
  <1> USE DEF AInv, Unannouncing
  <1>1. Announced' => Announced BY DEF Announced, Unless
  <1>2. Listed' = Listed BY DEF Listed
  <1>3. \A q \in Requests : At(q, "touch") => request'[q] = request[q] /\ At(q, "touch")'
    BY DEF At
  <1>4. RowsCount' BY <1>1, <1>3 DEF RowsCount, Key
  <1>5. SizeIsOfRow' BY <1>1, <1>2 DEF SizeIsOfRow
  <1>6. TouchersHaveRows' BY <1>1 DEF TouchersHaveRows, At, Key, Offset
  <1>7. ListingIsDue' BY <1>1, <1>3 DEF ListingIsDue
  <1> QED BY <1>4, <1>5, <1>6, <1>7

(* A claim leaves its upload to announce the row it inserted.                *)
LEMMA AInvClaim ==
    ASSUME TypeOK, AInv, NEW r \in Requests, Claim(r) PROVE AInv'
  <1> USE DEF AInv
  <1>1. Announced' => Announced BY DEF Claim, Suffers, Announced, Unless
  <1>2. request[r] \in Uploads /\ Key(r) \in Keys /\ Offset(r) \in Offsets
    BY StepsOfOps, KeyOfUpload DEF Claim, At, UploadSteps
  <1>3. At(r, "claim") BY DEF Claim
  <1>4. ASSUME NEW at, Goto(r, at)
        PROVE  /\ request'[r].at = at
               /\ \A q \in Requests : Key(q)' = Key(q) /\ Offset(q)' = Offset(q)
               /\ \A q \in Requests \ {r} : request'[q] = request[q]
    BY <1>2, <1>4 DEF Goto, TypeOK, Key, Offset, Uploads
  <1>5. CASE chunks[Offset(r)] = NoChunk
    <2> DEFINE row == [key |-> Key(r), body |-> request[r].body]
    <2>1. /\ chunks' = [chunks EXCEPT ![Offset(r)] = row] /\ Goto(r, "touch")
          /\ session' = [session EXCEPT !.listed = FALSE]
      BY <1>5 DEF Claim
    <2>2. session'.size = session.size BY <2>1 DEF TypeOK
    <2>3. At(r, "touch")' /\ Key(r)' = Key(r) BY <1>4, <2>1 DEF At
    <2>4. row # NoChunk /\ row.key = Key(r)
      BY <1>2 DEF NoChunk, NoKey, Keys
    <2>5. /\ chunks'[Offset(r)] = row
          /\ \A o \in Offsets : o # Offset(r) => chunks'[o] = chunks[o]
      BY <1>2, <2>1 DEF TypeOK
    <2>6. \A q \in Requests : At(q, "touch") => At(q, "touch")' /\ Key(q)' = Key(q)
      BY <1>3, <1>4, <2>1 DEF At
    <2>7. RowsCount'
      <3> SUFFICES ASSUME Announced', NEW o \in Offsets, chunks'[o] # NoChunk
                   PROVE  \/ End(chunks'[o].key.range) <= session'.size
                          \/ \E q \in Requests : At(q, "touch")' /\ Key(q)'.range = chunks'[o].key.range
        BY DEF RowsCount
      <3>1. CASE o = Offset(r) BY <2>3, <2>4, <2>5, <3>1
      <3>2. CASE o # Offset(r)
        <4>1. chunks'[o] = chunks[o] BY <2>5, <3>2
        <4> QED BY <1>1, <2>2, <2>6, <4>1 DEF RowsCount
      <3> QED BY <3>1, <3>2
    <2>8. SizeIsOfRow'
      <3>1. Listed \subseteq Listed'
        BY <1>2, <1>5, <2>5 DEF Listed
      <3> QED BY <1>1, <2>2, <3>1 DEF SizeIsOfRow
    <2>9. TouchersHaveRows'
      <3> SUFFICES ASSUME Announced', NEW q \in Requests, At(q, "touch")' \/ At(q, "drop")'
                   PROVE  chunks'[Offset(q)] # NoChunk /\ chunks'[Offset(q)].key.range = Key(q).range
        BY <1>4, <2>1 DEF TouchersHaveRows
      <3>1. CASE q = r BY <2>4, <2>5, <3>1
      <3>2. CASE q # r
        <4>1. At(q, "touch") \/ At(q, "drop") BY <1>4, <2>1, <3>2 DEF At
        <4>2. /\ chunks[Offset(q)] # NoChunk /\ chunks[Offset(q)].key.range = Key(q).range
              /\ Offset(q) \in Offsets
          BY <1>1, <4>1, KeyOfUpload DEF TouchersHaveRows, At, UploadSteps
        <4>3. chunks'[Offset(q)] = chunks[Offset(q)] BY <1>5, <2>5, <4>2
        <4> QED BY <4>2, <4>3
      <3> QED BY <3>1, <3>2
    <2>10. ListingIsDue' BY <2>3 DEF ListingIsDue
    <2> QED BY <2>7, <2>8, <2>9, <2>10
  <1>6. CASE chunks[Offset(r)] # NoChunk
    <2> DEFINE row == chunks[Offset(r)]
    <2>1. Goto(r, Found(row, r)) /\ UNCHANGED <<chunks, session>> BY <1>6 DEF Claim
    <2>2. Found(row, r) \in {"touch", "drop"} => row.key.range = Key(r).range
      BY DEF Found
    <2>3. \A q \in Requests : At(q, "touch") => At(q, "touch")' /\ Key(q)' = Key(q)
      BY <1>3, <1>4, <2>1 DEF At
    <2>4. Listed' = Listed BY <2>1 DEF Listed
    <2>5. RowsCount' BY <1>1, <2>1, <2>3 DEF RowsCount
    <2>6. SizeIsOfRow' BY <1>1, <2>1, <2>4 DEF SizeIsOfRow
    <2>7. TouchersHaveRows'
      <3> SUFFICES ASSUME Announced', NEW q \in Requests, At(q, "touch")' \/ At(q, "drop")'
                   PROVE  chunks[Offset(q)] # NoChunk /\ chunks[Offset(q)].key.range = Key(q).range
        BY <1>4, <2>1 DEF TouchersHaveRows
      <3>1. CASE q = r BY <1>4, <1>6, <2>1, <2>2, <3>1 DEF At
      <3>2. CASE q # r
        <4>1. At(q, "touch") \/ At(q, "drop") BY <1>4, <2>1, <3>2 DEF At
        <4> QED BY <1>1, <4>1 DEF TouchersHaveRows
      <3> QED BY <3>1, <3>2
    <2>8. ListingIsDue' BY <1>1, <2>1, <2>3 DEF ListingIsDue
    <2> QED BY <2>5, <2>6, <2>7, <2>8
  <1> QED BY <1>5, <1>6

(* Sizes only grow, to the end of the range that is touched.                 *)
LEMMA AInvTouch ==
    ASSUME TypeOK, AInv, NEW r \in Requests, Touch(r) PROVE AInv'
  <1> USE DEF AInv
  <1> DEFINE range == Key(r).range
             new == Touched(session.size, range)
  <1>1. request[r] \in Uploads /\ Key(r) \in Keys /\ Offset(r) \in Offsets /\ At(r, "touch")
    BY StepsOfOps, KeyOfUpload DEF Touch, At, UploadSteps
  <1>2. /\ session'.size = new /\ session'.listed /\ Answer(r)
        /\ chunks' = chunks /\ mishaps' = mishaps
    BY DEF Touch, TypeOK
  <1>3. \A q \in Requests : IF q = r THEN request'[q] = Idle ELSE request'[q] = request[q]
    BY <1>2 DEF Answer, TypeOK
  <1>4. \A q \in Requests : At(q, "touch")' \/ At(q, "drop")' =>
           /\ At(q, "touch") \/ At(q, "drop")
           /\ Key(q)' = Key(q) /\ Offset(q)' = Offset(q)
    BY <1>3 DEF At, Idle, Key, Offset
  <1>5. Announced' = Announced /\ Listed' = Listed BY <1>2 DEF Announced, Unless, Listed
  <1>6. range \in [offset : Nat, length : Nat] BY <1>1 DEF Keys
  <1>7. session.size \in Nat BY DEF TypeOK
  <1>8. /\ new \in Nat /\ new >= session.size /\ new >= End(range)
        /\ new \in {session.size, End(range)}
    BY <1>6, <1>7 DEF Touched, End
  <1>9. RowsCount'
    <2> SUFFICES ASSUME Announced', NEW o \in Offsets, chunks[o] # NoChunk
                 PROVE  \/ End(chunks[o].key.range) <= new
                        \/ \E q \in Requests : At(q, "touch")' /\ Key(q)'.range = chunks[o].key.range
      BY <1>2 DEF RowsCount
    <2> DEFINE e == End(chunks[o].key.range)
    <2>1. e \in Nat
      <3>1. chunks[o].key.range \in [offset : Nat, length : Nat] BY DEF TypeOK, Rows, Keys
      <3> QED BY <3>1 DEF End
    <2>2. CASE e <= session.size
      <3> HIDE DEF e, new
      <3>1. e <= new BY <1>7, <1>8, <2>1, <2>2
      <3> QED BY <3>1 DEF e, new
    <2>3. CASE \E q \in Requests : At(q, "touch") /\ Key(q).range = chunks[o].key.range
      <3>1. PICK q \in Requests : At(q, "touch") /\ Key(q).range = chunks[o].key.range
        BY <2>3
      <3>2. CASE q = r BY <1>8, <3>1, <3>2
      <3>3. CASE q # r
        <4>1. request'[q] = request[q] BY <1>3, <3>3
        <4> QED BY <3>1, <4>1 DEF At, Key
      <3> QED BY <3>2, <3>3
    <2> QED BY <1>5, <2>2, <2>3 DEF RowsCount
  <1>10. SizeIsOfRow'
    <2> SUFFICES ASSUME Announced PROVE new \in {0} \cup {End(key.range) : key \in Listed}
      BY <1>2, <1>5 DEF SizeIsOfRow
    <2>1. CASE new = session.size BY <2>1 DEF SizeIsOfRow
    <2>2. CASE new = End(range)
      <3>1. chunks[Offset(r)] # NoChunk /\ chunks[Offset(r)].key.range = range
        BY <1>1 DEF TouchersHaveRows
      <3>2. chunks[Offset(r)].key \in Listed BY <1>1, <3>1 DEF Listed
      <3> QED BY <2>2, <3>1, <3>2
    <2> QED BY <1>8, <2>1, <2>2
  <1>11. TouchersHaveRows' BY <1>2, <1>4, <1>5 DEF TouchersHaveRows
  <1>12. ListingIsDue' BY <1>2 DEF ListingIsDue
  <1> QED BY <1>9, <1>10, <1>11, <1>12

(* After the batch of a delete there is no row, and no upload that it did    *)
(* not cross.                                                                *)
LEMMA AInvBatch ==
    ASSUME TypeOK, AInv, NEW r \in Requests, Batch(r) PROVE AInv'
  <1>1. /\ \A o \in Offsets : chunks'[o] = NoChunk
        /\ session'.size = 0 /\ session'.listed
    BY DEF Batch, TypeOK
  <1>2. Announced' => \A q \in Requests : request[q].op # "upload"
    BY DEF Batch, Announced, Unless, Mishaps
  <1>3. \A q \in Requests : request'[q] \in {request[q], Idle}
    BY DEF Batch, Answer, TypeOK
  <1>4. Announced' => \A q \in Requests : ~At(q, "touch")' /\ ~At(q, "drop")'
    BY <1>2, <1>3, KeyOfUpload DEF At, Idle, UploadSteps
  <1> QED BY <1>1, <1>4 DEF AInv, RowsCount, SizeIsOfRow, TouchersHaveRows, ListingIsDue

(* A dropped object goes on to the touch of a row of its range; an upload    *)
(* that ends before its touch leaves the session untouched.                  *)
LEMMA AInvDrop ==
    ASSUME TypeOK, AInv, NEW r \in Requests, Discard(r) \/ ForgetFails(r) PROVE AInv'
  <1> USE DEF AInv
  <1>1. request[r] \in Uploads /\ request[r].at \in {"discard", "drop", "sweep"}
    BY StepsOfOps DEF Discard, ForgetFails, At, UploadSteps
  <1>2. /\ UNCHANGED <<chunks, session>> /\ mishaps \subseteq mishaps'
        /\ IF At(r, "drop") THEN Goto(r, "touch") ELSE Answer(r)
    BY DEF Discard, ForgetFails, Suffers
  <1>3. Announced' => Announced BY <1>2 DEF Announced, Unless
  <1>4. Listed' = Listed BY <1>2 DEF Listed
  <1>5. /\ \A q \in Requests \ {r} : request'[q] = request[q]
        /\ At(r, "drop") => /\ At(r, "touch")' /\ Key(r)' = Key(r)
        /\ ~At(r, "drop") => request'[r].at = "none"
    BY <1>1, <1>2 DEF Goto, Answer, TypeOK, Uploads, At, Key, Idle
  <1>6. \A q \in Requests : At(q, "touch") => At(q, "touch")' /\ Key(q)' = Key(q)
    BY <1>1, <1>5 DEF At, Key
  <1>7. \A q \in Requests : At(q, "touch")' \/ At(q, "drop")' =>
           /\ At(q, "touch") \/ At(q, "drop")
           /\ Key(q)' = Key(q) /\ Offset(q)' = Offset(q)
    BY <1>5 DEF At, Key, Offset
  <1>8. RowsCount' BY <1>2, <1>3, <1>6 DEF RowsCount
  <1>9. SizeIsOfRow' BY <1>2, <1>3, <1>4 DEF SizeIsOfRow
  <1>10. TouchersHaveRows' BY <1>2, <1>3, <1>7 DEF TouchersHaveRows
  <1>11. ListingIsDue' BY <1>2, <1>3, <1>6 DEF ListingIsDue
  <1> QED BY <1>8, <1>9, <1>10, <1>11

LEMMA AInvDies ==
    ASSUME TypeOK, AInv, NEW r \in Requests, Dies(r) PROVE AInv'
  <1>1. /\ UNCHANGED <<chunks, session>> /\ mishaps \subseteq mishaps'
        /\ \A q \in Requests \ {r} : request'[q] = request[q]
        /\ request'[r] = Idle
    BY DEF Dies, Answer, TypeOK
  <1>2. CASE At(r, "touch")
    <2>1. ~Announced' BY <1>2 DEF Dies, Announced, Unless
    <2> QED BY <2>1 DEF AInv, RowsCount, SizeIsOfRow, TouchersHaveRows, ListingIsDue
  <1>3. CASE ~At(r, "touch")
    <2>1. \A q \in Requests : Unannouncing(q) BY <1>1, <1>3 DEF Unannouncing, Idle
    <2> QED BY <1>1, <2>1, AInvStutter
  <1> QED BY <1>2, <1>3

(* Every action keeps the four.                                              *)
LEMMA AnnouncementsAreDue == Spec => []AInv
  <1>1. Init => AInv
    BY DEF Init, AInv, RowsCount, SizeIsOfRow, TouchersHaveRows, ListingIsDue, At, Idle
  <1>2. TypeOK /\ AInv /\ [Next]_vars => AInv'
    <2> SUFFICES ASSUME TypeOK, AInv, [Next]_vars PROVE AInv' OBVIOUS
    <2>1. CASE UNCHANGED vars
      <3>1. \A q \in Requests : Unannouncing(q) BY <2>1 DEF vars, Unannouncing
      <3>2. UNCHANGED <<chunks, session, mishaps>> BY <2>1 DEF vars
      <3> QED BY <3>1, <3>2, AInvStutter
    <2>2. ASSUME NEW author \in Authors, PutSession(author) PROVE AInv'
      <3>1. \A q \in Requests : Unannouncing(q) BY <2>2 DEF PutSession, Unannouncing
      <3>2. /\ UNCHANGED <<chunks, mishaps>> /\ session'.size = session.size /\ session'.listed
        BY <2>2 DEF PutSession, TypeOK
      <3> QED BY <3>1, <3>2, AInvStutter
    <2>3. ASSUME NEW x \in Readers, MintReader(x) \/ RevokeReader(x) PROVE AInv'
      <3>1. \A q \in Requests : Unannouncing(q) BY <2>3 DEF MintReader, RevokeReader, Unannouncing
      <3>2. UNCHANGED <<chunks, session>> /\ mishaps \subseteq mishaps'
        BY <2>3 DEF MintReader, RevokeReader, Suffers
      <3> QED BY <3>1, <3>2, AInvStutter
    <2>4. ASSUME NEW r \in Requests, Step(r) PROVE AInv'
      <3> DEFINE Begins ==
            \/ \E range \in Ranges, body \in Bodies : BeginUpload(r, range, body)
            \/ BeginDelete(r)
            \/ \E to \in SUBSET Recipients, gen \in Gens : to # {} /\ BeginGrant(r, to, gen)
          Others ==
            \/ Lookup(r) \/ Put(r) \/ PutFails(r) \/ Sweep(r) \/ Lost(r)
            \/ ListKeys(r) \/ DeleteBlobs(r) \/ DeleteBlobsFails(r)
            \/ CheckReaders(r) \/ StoreWraps(r)
      <3>0. \A q \in Requests \ {r} : request'[q] = request[q] BY <2>4, StepChangesOne
      <3>1. CASE Begins
        <4>1. request[r] = Idle /\ UNCHANGED <<chunks, session, mishaps>>
          BY <3>1 DEF BeginUpload, BeginDelete, BeginGrant, Begin
        <4>2. request'[r].at \in {"lookup", "list", "readers"}
          <5>1. CASE BeginDelete(r) BY <5>1 DEF BeginDelete, TypeOK, Idle
          <5>2. ASSUME NEW range \in Ranges, NEW body \in Bodies, BeginUpload(r, range, body)
                PROVE  request'[r].at = "lookup"
            BY <5>2 DEF BeginUpload, TypeOK, Idle
          <5>3. ASSUME NEW to \in SUBSET Recipients, NEW gen \in Gens, BeginGrant(r, to, gen)
                PROVE  request'[r].at = "readers"
            BY <5>3 DEF BeginGrant, TypeOK, Idle
          <5> QED BY <3>1, <5>1, <5>2, <5>3
        <4>3. \A q \in Requests : Unannouncing(q) BY <3>0, <4>1, <4>2 DEF Unannouncing, At, Idle
        <4> QED BY <4>1, <4>3, AInvStutter
      <3>2. CASE Others
        <4>1. /\ UNCHANGED <<chunks, session>> /\ mishaps \subseteq mishaps'
              /\ request[r].at \in {"lookup", "put", "sweep", "lost", "list", "blobs", "readers", "wraps"}
          BY <3>2 DEF Lookup, Put, PutFails, Store, Sweep, Lost, ListKeys, DeleteBlobs,
                      DeleteBlobsFails, CheckReaders, StoreWraps, Suffers, At
        <4>2. request[r] \in Uploads \cup Deletes \cup Grants
          BY <4>1, StepsOfOps DEF UploadSteps
        <4>3. request'[r].at \notin {"touch", "drop"}
          <5>1. ASSUME NEW at, Goto(r, at) PROVE request'[r].at = at
            BY <4>2, <5>1 DEF Goto, TypeOK, Uploads, Deletes, Grants
          <5>2. Answer(r) => request'[r].at = "none" BY DEF Answer, TypeOK, Idle
          <5>3. CASE ListKeys(r)
            <6>1. request[r] \in Deletes BY <5>3, StepsOfOps DEF ListKeys, At
            <6> QED BY <5>3, <6>1 DEF ListKeys, TypeOK, Deletes
          <5> QED BY <3>2, <5>1, <5>2, <5>3
                  DEF Lookup, Put, PutFails, Sweep, Lost, DeleteBlobs, DeleteBlobsFails,
                      CheckReaders, StoreWraps
        <4>4. \A q \in Requests : Unannouncing(q) BY <3>0, <4>1, <4>3 DEF Unannouncing, At
        <4> QED BY <4>1, <4>4, AInvStutter
      <3>3. CASE Claim(r) BY <3>3, AInvClaim
      <3>4. CASE Touch(r) BY <3>4, AInvTouch
      <3>5. CASE Batch(r) BY <3>5, AInvBatch
      <3>6. CASE Discard(r) \/ ForgetFails(r) BY <3>6, AInvDrop
      <3>7. CASE Dies(r) BY <3>7, AInvDies
      <3> QED BY <2>4, <3>1, <3>2, <3>3, <3>4, <3>5, <3>6, <3>7 DEF Step
    <2> QED BY <2>1, <2>2, <2>3, <2>4 DEF Next
  <1> QED BY <1>1, <1>2, TypeCorrect, PTL DEF Spec

(* The size that a puller takes for its bound is where the chunks end, and   *)
(* the session is listed after the last of them, once no upload is under way:*)
(* for any number of uploads at once, retries, failures and renamed machines.*)
THEOREM StoredIsAnnouncedAlways == Spec => []StoredIsAnnounced
  <1>1. TypeOK /\ AInv => StoredIsAnnounced
    <2> DEFINE ends == {0} \cup {End(key.range) : key \in Listed}
    <2> SUFFICES ASSUME TypeOK, AInv, Quiet, Announced
                 PROVE  session.size = Max(ends) /\ session.listed
      BY DEF StoredIsAnnounced, Announced
    <2>1. \A r \in Requests : ~At(r, "touch") BY DEF Quiet, At, Idle
    <2>2. session.listed BY <2>1 DEF AInv, ListingIsDue
    <2>3. session.size \in ends /\ session.size \in Nat BY DEF AInv, SizeIsOfRow, TypeOK
    <2>4. ASSUME NEW e \in ends PROVE e \in Nat /\ session.size >= e
      <3>1. CASE e = 0 BY <2>3, <3>1
      <3>2. CASE e # 0
        <4>1. PICK o \in Offsets : chunks[o] # NoChunk /\ e = End(chunks[o].key.range)
          BY <3>2 DEF Listed
        <4>2. e <= session.size BY <2>1, <4>1 DEF AInv, RowsCount
        <4>3. chunks[o].key.range \in [offset : Nat, length : Nat]
          BY <4>1 DEF TypeOK, Rows, Keys
        <4>4. e \in Nat BY <4>1, <4>3 DEF End
        <4> QED BY <2>3, <4>2, <4>4
      <3> QED BY <3>1, <3>2
    <2> HIDE DEF ends
    <2>5. \A x \in ends : (\A y \in ends : x >= y) => x = session.size
      BY <2>3, <2>4
    <2>6. Max(ends) \in ends /\ \A y \in ends : Max(ends) >= y
      BY <2>3, <2>4 DEF Max
    <2> QED BY <2>2, <2>5, <2>6
  <1> QED BY <1>1, AnnouncementsAreDue, TypeCorrect, PTL
=============================================================================
