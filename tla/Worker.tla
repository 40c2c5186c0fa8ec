-------------------------------- MODULE Worker --------------------------------
(***************************************************************************)
(* The Worker's write handlers on one session, worker/src/index.ts: every  *)
(* statement to D1 and every call to R2 is a step, and the handlers of     *)
(* several requests run at once.  A request may end at any step: the       *)
(* isolate is evicted, or D1 or R2 throws and the client is told 500.      *)
(*                                                                         *)
(* The requests are those of the device that owns the session: another's   *)
(* are refused by the first statement and change nothing.  Its clients     *)
(* take turns (StateLock) until a lock is broken or a command does without *)
(* it, and a request that timed out is sent again while the first still    *)
(* runs.  Encryption and generations of the session are Publish's matter.  *)
(***************************************************************************)
EXTENDS Integers, FiniteSetsExt

CONSTANTS
    Requests,           \* handlers that can run at the same time
    Authors,            \* names a session is registered under
    Ranges,             \* the ranges that are uploaded, [offset, length]
    Bodies,             \* contents of a chunk, each with its sha256
    Readers,            \* reader tokens of the device
    MaxGen,             \* bound: generations of the data key
    MaxRequests,        \* bound: requests in all
    MaxTroubles         \* bound: requests that fail or end early

ASSUME WorkerConstants ==
    /\ Ranges \subseteq [offset : Nat, length : Nat \ {0}]
    /\ MaxGen \in Nat /\ MaxRequests \in Nat /\ MaxTroubles \in Nat
    /\ "none" \notin Bodies /\ "junk" \notin Bodies /\ "self" \notin Readers
    /\ "none" \notin Authors

Offsets == {range.offset : range \in Ranges}
Recipients == Readers \cup {"self"}
Gens == 1 .. MaxGen

(* chunkKey names an object by author and range, not by its bytes. *)
Keys == [author : Authors, range : Ranges]
NoKey == [author |-> "none", range |-> [offset |-> 0, length |-> 0]]
NoChunk == [key |-> NoKey, body |-> "none"]

VARIABLES
    session,            \* D1: the row of sessions
    chunks,             \* D1: the rows of chunks, by offset
    wraps,              \* D1: per recipient, the generation of its wrap, or 0
    readers,            \* D1: the reader tokens
    bucket,             \* R2: the bytes under each key
    request,            \* the requests under way
    mishaps,            \* history, see Mishaps
    begun,              \* how many requests so far
    troubles            \* how many troubles so far

vars == <<session, chunks, wraps, readers, bucket, request, mishaps, begun, troubles>>

(*   "disputed"   bytes were put in the place of others that an upload had   *)
(*                put under that key, to be claimed or claimed already       *)
(*   "swept"      a failed upload removed the object of another upload       *)
(*   "orphaned"   an upload ended with its object stored and not claimed     *)
(*   "untouched"  an upload ended after its claim, before it touched the row *)
(*   "halfway"    a delete ended with objects removed and their rows not     *)
(*   "crossed"    a delete and an upload or a grant were under way at once   *)
(*   "granting"   a reader was revoked while wraps for it were being stored  *)
Mishaps == {"disputed", "swept", "orphaned", "untouched", "halfway", "crossed", "granting"}

(* A handler: the step it is at, and what it was sent or has read so far.    *)
Idle == [op |-> "none", at |-> "none", key |-> NoKey, body |-> "none",
         keys |-> {}, to |-> {}, gen |-> 0]

UploadSteps == {"lookup", "put", "claim", "sweep", "lost", "discard", "drop", "touch"}
Uploads == [op : {"upload"}, at : UploadSteps, key : Keys, body : Bodies,
            keys : {{}}, to : {{}}, gen : {0}]
Deletes == [op : {"delete"}, at : {"list", "blobs", "batch"}, key : {NoKey}, body : {"none"},
            keys : SUBSET Keys, to : {{}}, gen : {0}]
Grants == [op : {"grant"}, at : {"readers", "wraps"}, key : {NoKey}, body : {"none"},
           keys : {{}}, to : SUBSET Recipients, gen : Gens]
Rows == [key : Keys, body : Bodies]

TypeOK ==
    /\ session \in [known : BOOLEAN, live : BOOLEAN, author : Authors \cup {"none"},
                    size : Nat, listed : BOOLEAN]
    /\ session.live => session.author \in Authors
    /\ chunks \in [Offsets -> Rows \cup {NoChunk}]
    /\ request \in [Requests -> Uploads \cup Deletes \cup Grants \cup {Idle}]
    /\ wraps \in [Recipients -> 0 .. MaxGen]
    /\ readers \in [Readers -> {"unknown", "active", "revoked"}]
    /\ bucket \in [Keys -> Bodies \cup {"junk", "none"}]
    /\ mishaps \subseteq Mishaps

Init ==
    /\ session = [known |-> FALSE, live |-> FALSE, author |-> "none", size |-> 0, listed |-> TRUE]
    /\ chunks = [o \in Offsets |-> NoChunk]
    /\ wraps = [x \in Recipients |-> 0]
    /\ readers = [x \in Readers |-> "unknown"]
    /\ bucket = [k \in Keys |-> "none"]
    /\ request = [r \in Requests |-> Idle]
    /\ mishaps = {} /\ begun = 0 /\ troubles = 0

-----------------------------------------------------------------------------
At(r, at) == request[r].at = at
Begin(r) == request[r] = Idle /\ begun < MaxRequests /\ begun' = begun + 1
Goto(r, at) == request' = [request EXCEPT ![r].at = at]
Answer(r) == request' = [request EXCEPT ![r] = Idle]
Trouble == troubles < MaxTroubles /\ troubles' = troubles + 1
Suffers(condition, name) == mishaps' = IF condition THEN mishaps \cup {name} ELSE mishaps

Key(r) == request[r].key
Offset(r) == Key(r).range.offset
End(range) == range.offset + range.length

(* The bytes that rows of chunks, and uploads about to claim, take the object*)
(* under a key for.                                                          *)
Relied(k) == {chunks[o].body : o \in {o \in Offsets : chunks[o].key = k}}
             \cup {request[r].body : r \in {r \in Requests : At(r, "claim") /\ Key(r) = k}}

-----------------------------------------------------------------------------
(* POST /v1/session: one upsert, which takes a tombstone back.               *)
PutSession(author) ==
    /\ begun < MaxRequests /\ begun' = begun + 1
    /\ session' = [session EXCEPT !.known = TRUE, !.live = TRUE, !.author = author, !.listed = TRUE]
    /\ UNCHANGED <<chunks, wraps, readers, bucket, request, mishaps, troubles>>

-----------------------------------------------------------------------------
(* POST /v1/chunk                                                            *)

BeginUpload(r, range, body) ==
    /\ Begin(r) /\ session.live
    /\ request' = [request EXCEPT ![r] =
         [Idle EXCEPT !.op = "upload", !.at = "lookup", !.body = body,
                      !.key = [author |-> session.author, range |-> range]]]
    /\ UNCHANGED <<session, chunks, wraps, readers, bucket, mishaps, troubles>>

(* The fast path: a chunk that is there is not uploaded, 200 or 409.         *)
Lookup(r) ==
    /\ At(r, "lookup")
    /\ IF chunks[Offset(r)] = NoChunk THEN Goto(r, "put") ELSE Answer(r)
    /\ UNCHANGED <<session, chunks, wraps, readers, bucket, mishaps, begun, troubles>>

Store(r, bytes) ==
    /\ bucket' = [bucket EXCEPT ![Key(r)] = bytes]
    /\ Suffers(Relied(Key(r)) \ {bytes} # {}, "disputed")

(* The object is stored under its key, before any row speaks of it.          *)
Put(r) ==
    /\ At(r, "put")
    /\ Store(r, request[r].body) /\ Goto(r, "claim")
    /\ UNCHANGED <<session, chunks, wraps, readers, begun, troubles>>

(* The bytes were not those of the declared sha256, or R2 or the body failed *)
(* and it is not known what the bucket has.                                  *)
PutFails(r) ==
    /\ At(r, "put") /\ Trouble
    /\ \/ Store(r, "junk")
       \/ Store(r, request[r].body)
       \/ UNCHANGED <<bucket, mishaps>>
    /\ Goto(r, "sweep")
    /\ UNCHANGED <<session, chunks, wraps, readers, begun>>

(* forget() after a failed upload, best effort.                              *)
Sweep(r) ==
    /\ At(r, "sweep")
    /\ bucket' = [bucket EXCEPT ![Key(r)] = "none"]
    /\ Suffers(Relied(Key(r)) # {}, "swept")
    /\ Answer(r)
    /\ UNCHANGED <<session, chunks, wraps, readers, begun, troubles>>

(* After a conflict: the same bytes and length are a retry, which drops its  *)
(* object if the row names another; and a version that always drops it.      *)
AlwaysDrops(row, r) ==
    IF row.body # request[r].body \/ row.key.range # Key(r).range THEN "lost" ELSE "drop"
Found(row, r) ==
    IF row.body # request[r].body \/ row.key.range # Key(r).range THEN "lost"
    ELSE IF row.key # Key(r) THEN "drop" ELSE "touch"

(* One guarded upsert claims the offset, or finds that it is claimed.        *)
Claim(r) ==
    /\ At(r, "claim")
    /\ LET row == chunks[Offset(r)] IN
       \/ /\ row = NoChunk
          /\ chunks' = [chunks EXCEPT ![Offset(r)] = [key |-> Key(r), body |-> request[r].body]]
          /\ session' = [session EXCEPT !.listed = FALSE]
          /\ Goto(r, "touch")
       \/ /\ row # NoChunk
          /\ Goto(r, Found(row, r))
          /\ UNCHANGED <<session, chunks>>
    /\ Suffers(\E d \in Requests : At(d, "blobs") \/ At(d, "batch"), "crossed")
    /\ UNCHANGED <<wraps, readers, bucket, begun, troubles>>

(* Another upload won: the object is dropped when it is not the winner's.    *)
Lost(r) ==
    /\ At(r, "lost")
    /\ LET winner == chunks[Offset(r)]
       IN  IF winner # NoChunk /\ winner.key # Key(r) THEN Goto(r, "discard") ELSE Answer(r)
    /\ UNCHANGED <<session, chunks, wraps, readers, bucket, mishaps, begun, troubles>>

(* forget() of an object that no row names.                                  *)
Discard(r) ==
    /\ At(r, "discard") \/ At(r, "drop")
    /\ bucket' = [bucket EXCEPT ![Key(r)] = "none"]
    /\ IF At(r, "drop") THEN Goto(r, "touch") ELSE Answer(r)
    /\ UNCHANGED <<session, chunks, wraps, readers, mishaps, begun, troubles>>

(* forget() gives up quietly.                                                *)
ForgetFails(r) ==
    /\ At(r, "discard") \/ At(r, "drop") \/ At(r, "sweep")
    /\ Trouble /\ Suffers(TRUE, "orphaned")
    /\ IF At(r, "drop") THEN Goto(r, "touch") ELSE Answer(r)
    /\ UNCHANGED <<session, chunks, wraps, readers, bucket, begun>>

(* Chunks may land out of order; and a version for which the last one counts.*)
TouchedLast(size, range) == End(range)
Touched(size, range) == IF End(range) > size THEN End(range) ELSE size

(* The row of the session: its size and its time, by which it is listed.     *)
Touch(r) ==
    /\ At(r, "touch")
    /\ session' = [session EXCEPT !.size = Touched(@, Key(r).range), !.listed = TRUE]
    /\ Answer(r)
    /\ UNCHANGED <<chunks, wraps, readers, bucket, mishaps, begun, troubles>>

-----------------------------------------------------------------------------
(* DELETE /v1/session                                                        *)

BeginDelete(r) ==
    /\ Begin(r) /\ session.known
    /\ request' = [request EXCEPT ![r] = [Idle EXCEPT !.op = "delete", !.at = "list"]]
    /\ UNCHANGED <<session, chunks, wraps, readers, bucket, mishaps, troubles>>

(* The keys as the rows have them; and a version that derives them anew.     *)
ListedAnew == {[author |-> session.author, range |-> chunks[o].key.range] :
                 o \in {o \in Offsets : chunks[o] # NoChunk}}
Listed == {chunks[o].key : o \in {o \in Offsets : chunks[o] # NoChunk}}

ListKeys(r) ==
    /\ At(r, "list")
    /\ request' = [request EXCEPT ![r].at = "blobs", ![r].keys = Listed]
    /\ UNCHANGED <<session, chunks, wraps, readers, bucket, mishaps, begun, troubles>>

Without(keys) == [k \in Keys |-> IF k \in keys THEN "none" ELSE bucket[k]]

DeleteBlobs(r) ==
    /\ At(r, "blobs")
    /\ bucket' = Without(request[r].keys)
    /\ Goto(r, "batch")
    /\ UNCHANGED <<session, chunks, wraps, readers, mishaps, begun, troubles>>

(* R2 deletes a thousand keys at a time, and fails after some of them.       *)
DeleteBlobsFails(r) ==
    /\ At(r, "blobs") /\ Trouble
    /\ \E gone \in SUBSET request[r].keys :
         bucket' = Without(gone) /\ Suffers(gone # {}, "halfway")
    /\ Answer(r)
    /\ UNCHANGED <<session, chunks, wraps, readers, begun>>

(* Rows, wraps and the tombstone at once.  What went wrong before is over but*)
(* for the objects that no row names.                                        *)
Batch(r) ==
    /\ At(r, "batch")
    /\ chunks' = [o \in Offsets |-> NoChunk]
    /\ wraps' = [x \in Recipients |-> 0]
    /\ session' = [session EXCEPT !.live = FALSE, !.size = 0, !.listed = TRUE]
    /\ mishaps' = {m \in Mishaps :
         \/ m = "orphaned" /\ mishaps \cap {"orphaned", "crossed"} # {}
         \/ m = "granting" /\ m \in mishaps
         \/ m = "crossed" /\ \E q \in Requests : request[q].op \in {"upload", "grant"}}
    /\ Answer(r)
    /\ UNCHANGED <<readers, bucket, begun, troubles>>

-----------------------------------------------------------------------------
(* POST /v1/wrapped_keys and /v1/token                                       *)

BeginGrant(r, to, gen) ==
    /\ Begin(r) /\ session.live
    /\ request' = [request EXCEPT ![r] =
         [Idle EXCEPT !.op = "grant", !.at = "readers", !.to = to, !.gen = gen]]
    /\ UNCHANGED <<session, chunks, wraps, readers, bucket, mishaps, troubles>>

(* The device itself or an active reader; and a version that asks only       *)
(* whether there is such a reader.                                           *)
WasMinted(x) == x = "self" \/ readers[x] # "unknown"
MayReceive(x) == x = "self" \/ readers[x] = "active"

(* Every recipient is the device or an active reader, or nothing is stored.  *)
CheckReaders(r) ==
    /\ At(r, "readers")
    /\ IF \A x \in request[r].to : MayReceive(x)
       THEN Goto(r, "wraps") ELSE Answer(r)
    /\ UNCHANGED <<session, chunks, wraps, readers, bucket, mishaps, begun, troubles>>

(* One batch, in which a wrap does not take the place of a later one.        *)
StoreWraps(r) ==
    /\ At(r, "wraps")
    /\ wraps' = [x \in Recipients |->
         IF x \in request[r].to /\ request[r].gen >= wraps[x] THEN request[r].gen ELSE wraps[x]]
    /\ Answer(r)
    /\ UNCHANGED <<session, chunks, readers, bucket, mishaps, begun, troubles>>

MintReader(x) ==
    /\ readers[x] = "unknown"
    /\ readers' = [readers EXCEPT ![x] = "active"]
    /\ UNCHANGED <<session, chunks, wraps, bucket, request, mishaps, begun, troubles>>

RevokeReader(x) ==
    /\ readers[x] = "active"
    /\ readers' = [readers EXCEPT ![x] = "revoked"]
    /\ Suffers(\E r \in Requests : At(r, "wraps") /\ x \in request[r].to, "granting")
    /\ UNCHANGED <<session, chunks, wraps, bucket, request, begun, troubles>>

-----------------------------------------------------------------------------
(* A request ends between two statements.                                    *)
Dies(r) ==
    /\ request[r] # Idle /\ Trouble
    /\ mishaps' = mishaps
         \cup (IF request[r].at \in {"claim", "lost", "discard", "drop", "sweep"} THEN {"orphaned"} ELSE {})
         \cup (IF At(r, "touch") THEN {"untouched"} ELSE {})
         \cup (IF At(r, "batch") /\ request[r].keys # {} THEN {"halfway"} ELSE {})
    /\ Answer(r)
    /\ UNCHANGED <<session, chunks, wraps, readers, bucket, begun>>

Step(r) ==
    \/ \E range \in Ranges, body \in Bodies : BeginUpload(r, range, body)
    \/ Lookup(r) \/ Put(r) \/ PutFails(r) \/ Sweep(r) \/ Claim(r) \/ Lost(r)
    \/ Discard(r) \/ ForgetFails(r) \/ Touch(r)
    \/ BeginDelete(r) \/ ListKeys(r) \/ DeleteBlobs(r) \/ DeleteBlobsFails(r) \/ Batch(r)
    \/ \E to \in SUBSET Recipients, gen \in Gens : to # {} /\ BeginGrant(r, to, gen)
    \/ CheckReaders(r) \/ StoreWraps(r)
    \/ Dies(r)

Next ==
    \/ \E author \in Authors : PutSession(author)
    \/ \E r \in Requests : Step(r)
    \/ \E x \in Readers : MintReader(x) \/ RevokeReader(x)

Spec == Init /\ [][Next]_vars

-----------------------------------------------------------------------------
Unless(names) == mishaps \cap names = {}
Quiet == \A r \in Requests : request[r] = Idle

(* getBlob never answers "blob missing", nor with other bytes than the sha256*)
(* of the manifest: under the key of every row are the bytes it was claimed  *)
(* for.  Retries of one chunk, uploads of other lengths or bytes that lose,  *)
(* uploads under a former author and deletes do not change it.               *)
RowsHaveBodies ==
    Unless({"disputed", "swept", "halfway", "crossed"}) /\ (\A r \in Requests : ~At(r, "batch"))
      => \A o \in Offsets : chunks[o] # NoChunk => bucket[chunks[o].key] = chunks[o].body

(* "The old chunks are already gone": a deleted session has neither rows nor *)
(* wraps nor bytes nor a size that sharing it again would show.              *)
DeletedLeavesNothing ==
    ~session.live /\ Quiet /\ Unless({"crossed"})
      => /\ \A o \in Offsets : chunks[o] = NoChunk
         /\ \A x \in Recipients : wraps[x] = 0
         /\ session.size = 0
         /\ Unless({"orphaned"}) => \A k \in Keys : bucket[k] = "none"

(* What is stored is announced: the size of a session is where its chunks    *)
(* end, which a puller takes for the bound of what it may have, and the      *)
(* session was listed anew after its last chunk.                             *)
StoredIsAnnounced ==
    session.live /\ Quiet /\ Unless({"untouched", "crossed"})
      => /\ session.size = Max({0} \cup {End(key.range) : key \in Listed})
         /\ session.listed

(* A reader gets no wrap from the moment it is revoked, although whether it  *)
(* is one was asked before the wraps are stored.                             *)
RevokedGetsNothingNew ==
    [][\A x \in Readers : readers[x] = "revoked" /\ Unless({"granting"})
         => wraps'[x] \in {wraps[x], 0}]_vars
=============================================================================
