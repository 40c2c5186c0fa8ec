------------------------------- MODULE Publish -------------------------------
(***************************************************************************)
(* Publishing one session: ezchangelog/publish.py against one store.       *)
(*                                                                         *)
(* The transcript is a file that the editor appends to and, on compaction, *)
(* rewrites.  A byte is the epoch in which it was written, so two documents*)
(* are equal exactly when their sequences are, and a digest of a range is  *)
(* the range itself.  The publisher keeps a state file (saved) and works   *)
(* on a copy of it in memory (state).  The store is the Worker behind      *)
(* HttpTransport; its handlers are atomic here.                            *)
(*                                                                         *)
(* One publisher runs at a time (StateLock).  What can come between two of *)
(* its steps is an edit of the transcript, a command of the user, or its   *)
(* own end: killed, or stopped by a request that failed for good.  Every   *)
(* network call is a step of its own, so a run can end with the call       *)
(* applied and the answer lost.                                            *)
(***************************************************************************)
EXTENDS Integers, Sequences, FiniteSets

CONSTANTS
    MaxChunk,           \* MAX_CHUNK, in bytes
    PrefixBytes,        \* PREFIX_BYTES
    MaxRecoveries,      \* MAX_CONFLICT_RECOVERIES
    Modes,              \* what this machine is configured for, see Begin
    Keys,               \* data keys new_data_key can return
    Troubles,           \* which of "end", "lose", "spoil", "unpublish",
                        \* "share" happen
    MaxLength,          \* bound: length of the transcript
    MaxEpoch,           \* bound: rewrites of the transcript, plus one
    MaxTroubles         \* bound: early ends and troubles together

Steps == {"reconcile", "verify", "plan", "delete", "register", "wrap", "send",
          "save", "done", "conflict", "recover", "replace", "resave", "replan"}

(* Events no step of a run can prevent, told apart by when they come:        *)
(*   "rewritten"    the transcript was rewritten during a run                *)
(*   "reread"       and that under a reconciliation, in bytes it had found   *)
(*                  equal to the store's and was to hash once more           *)
(*   "unsaved"      a run ended after a chunk was stored, before its Save    *)
(*   "abandoned"    a run ended with the session it had deleted still deleted*)
(*   "lost"         the state file was lost                                  *)
(*   "forgotten"    and it was with only a tombstone in the store            *)
(*   "crossed"      the user unpublished or toggled sharing during a run     *)
Mishaps ==
    {"rewritten", "reread", "unsaved", "abandoned", "lost", "forgotten", "crossed"}

NoKey == 0              \* dk_wrapped = ""
Unreadable == -1        \* a dk_wrapped this device key does not open

ASSUME PublishConstants ==
    /\ MaxChunk \in Nat \ {0}
    /\ PrefixBytes \in Nat
    /\ MaxRecoveries \in Nat
    /\ Modes \subseteq {"plain", "aead"}
    /\ Keys \subseteq Nat \ {0}
    /\ MaxLength \in Nat /\ MaxEpoch \in Nat /\ MaxTroubles \in Nat

VARIABLES
    transcript, epoch,  \* the file, and the epoch of the bytes being written
    sharing,            \* does `ezup publish` find consent for this session
    mark,               \* history: the last watermark `ezup share on` recorded
    saved,              \* <store>/publish/<session>.json
    row, chunks, wrap,  \* the store: sessions row, chunks rows, our self-wrap
    pc, state, plan,    \* the run: next step, PublishState in memory, chunks left
    run,                \* the run: its other local variables
    sealed,             \* history: every ciphertext made
    mishaps,            \* history: what went wrong so far, see Mishaps
    troubles            \* how many troubles there were so far

file == <<transcript, epoch>>
store == <<row, chunks, wrap>>
local == <<pc, state, plan, run>>
history == <<mark, sealed, mishaps, troubles>>
vars == <<file, sharing, saved, store, local, history>>

-----------------------------------------------------------------------------
(* Bytes, digests and ciphertexts                                           *)

Least(m, n) == IF m <= n THEN m ELSE n
Most(m, n) == IF m >= n THEN m ELSE n

(* Bytes [from, to) of a file, or what is left of them. *)
Range(bytes, from, to) == SubSeq(bytes, from + 1, Least(to, Len(bytes)))

(* What travels for a chunk: its bytes, or the deterministic ciphertext of   *)
(* encrypt_chunk, whose nonce is (gen, off).  A sha256 is the body itself.   *)
Plain(data) == [dk |-> NoKey, gen |-> 0, off |-> 0, data |-> data]
Seal(dk, gen, off, data) == [dk |-> dk, gen |-> gen, off |-> off, data |-> data]

PublishState == [start : Nat, offset : Nat, digest : Seq(Nat), prefix : Seq(Nat),
                 enc : BOOLEAN, gen : Nat, dk : Keys \cup {NoKey, Unreadable}]

(* The state of a session without a state file, and of one that knows nothing.*)
Fresh == [start |-> 0, offset |-> 0, digest |-> <<>>, prefix |-> <<>>,
          enc |-> FALSE, gen |-> 0, dk |-> NoKey]

(* After a reset the chunk history is empty, and it is not before: so the    *)
(* state knows of published bytes exactly when offset is past the watermark. *)
Published(s) == s.offset > s.start

(* Wrong versions of Reset: the watermark goes too, or the key stays. *)
ResetForgetsMark(s) ==
    [s EXCEPT !.start = 0, !.offset = 0, !.digest = <<>>, !.prefix = <<>>,
              !.gen = IF s.enc THEN @ + 1 ELSE @,
              !.dk = IF s.enc THEN NoKey ELSE @]
ResetKeepsKey(s) == [s EXCEPT !.offset = 0, !.digest = <<>>, !.prefix = <<>>]

(* RULE R1: an encrypted session that starts over takes a new generation and *)
(* drops its key.  The watermark survives.                                   *)
Reset(s) ==
    [s EXCEPT !.offset = 0, !.digest = <<>>, !.prefix = <<>>,
              !.gen = IF s.enc THEN @ + 1 ELSE @,
              !.dk = IF s.enc THEN NoKey ELSE @]

(* A wrong version of Verified: the cheap checks without the digest. *)
VerifiedByPrefix(s, size) ==
    Published(s) =>
      /\ size >= s.offset
      /\ Range(transcript, 0, Len(s.prefix)) = s.prefix

(* _verify_published finds no reason to start over: the file is no shorter,  *)
(* and the head and every published byte are still what was published.  (The *)
(* head is empty when the file was when it was read.)                        *)
Verified(s, size) ==
    LET head == IF s.prefix = <<>> THEN Least(PrefixBytes, s.offset) ELSE Len(s.prefix)
    IN  Published(s) =>
      /\ size >= s.offset
      /\ Range(transcript, 0, head) = s.prefix
      /\ Range(transcript, s.start, s.offset) = s.digest

PlanStart(s) == Most(s.offset, s.start)

(* plan_chunks: [start, size) in pieces of MaxChunk, each with the bytes the *)
(* file held when the plan hashed them.                                      *)
PlanChunks(s, size) ==
    LET first == IF Verified(s, size) THEN PlanStart(s) ELSE s.start
        limit == Least(size, Len(transcript))
        count == IF first >= limit THEN 0
                 ELSE ((limit - first) + MaxChunk - 1) \div MaxChunk
        off(i) == first + (i - 1) * MaxChunk
        end(i) == Least(off(i) + MaxChunk, limit)
    IN  [i \in 1 .. count |->
           [off |-> off(i), end |-> end(i), data |-> Range(transcript, off(i), end(i))]]

-----------------------------------------------------------------------------
(* What the store answers                                                   *)

Live == row.status = "live"

(* session_enc: 404 for a deleted or unknown session reads as ("", 0). *)
ServerEnc == Live /\ row.enc
ServerGen == IF Live THEN row.gen ELSE 0

(* list_chunks: 404 for a deleted or unknown session reads as nothing. *)
Remote == IF Live THEN chunks ELSE {}

(* The writeDenied and enc_gen guards of putSession's upsert.  A plaintext   *)
(* publisher says nothing about enc and enc_gen.                             *)
AcceptsSession(aead, gen) == aead => gen >= row.gen
Registered(aead, gen) ==
    [status |-> "live", enc |-> row.enc \/ aead, gen |-> IF aead THEN gen ELSE row.gen]

(* A wrong version of DeleteSession: only the row becomes a tombstone. *)
DeleteRowOnly ==
    /\ row' = [row EXCEPT !.status = IF @ = "absent" THEN "absent" ELSE "deleted"]
    /\ UNCHANGED <<chunks, wrap>>

(* DELETE /v1/session: chunks and wraps go, the row is a tombstone that      *)
(* keeps enc and enc_gen.                                                    *)
DeleteSession ==
    /\ row' = [row EXCEPT !.status = IF @ = "absent" THEN "absent" ELSE "deleted"]
    /\ chunks' = {}
    /\ wrap' = [gen |-> 0, dk |-> NoKey]

-----------------------------------------------------------------------------
(* The data key                                                             *)

(* Can the run go on under the key its state wraps?                          *)
Opens(s) == s.enc /\ s.gen >= 1 /\ s.dk \in Keys

KeysInUse == {saved.dk, wrap.dk} \cup {b.dk : b \in sealed}

(* new_data_key: a key nobody has seen (the least one, so that runs differ   *)
(* in what they do and not in the names of their keys).                      *)
NewKey == {k \in Keys \ KeysInUse : \A l \in Keys \ KeysInUse : k <= l}

(* A wrong version of Minted: the store is not asked for its generation. *)
MintedLocally(s, dk) == [s EXCEPT !.enc = TRUE, !.gen = @ + 1, !.dk = dk]

(* _setup_cipher: keep the key the state wraps, or mint one at a generation  *)
(* past the local one and past what the store reports.                       *)
Minted(s, dk) ==
    LET kept == IF s.dk = Unreadable THEN Reset(s) ELSE s
    IN  [kept EXCEPT !.enc = TRUE, !.gen = Most(kept.gen, ServerGen) + 1, !.dk = dk]

SetupCipher(s) == IF Opens(s) THEN {s} ELSE {Minted(s, dk) : dk \in NewKey}

-----------------------------------------------------------------------------
(* The run                                                                  *)

(* The locals of reconcile: which of its reads comes next, the chunks listed *)
(* and not compared yet, what the store said of the session's encryption,    *)
(* the key to compare with, the range found equal, and the prefix read.      *)
NoLook == [at |-> "list", left |-> {}, enc |-> FALSE, gen |-> 0, dk |-> NoKey,
           base |-> 0, cursor |-> 0, prefix |-> <<>>]

NoRun == [mode |-> "none", size |-> 0, deleting |-> FALSE, recoveries |-> 0,
          prefix |-> <<>>, wraps |-> FALSE, data |-> <<>>, look |-> NoLook]

Init ==
    /\ epoch = 1
    /\ \E n \in 0 .. MaxLength :
         /\ transcript = [i \in 1 .. n |-> 1]
         /\ \/ saved = Fresh /\ mark = 0                          \* a repo policy shares it
            \/ saved = [Fresh EXCEPT !.start = n] /\ mark = n     \* `ezup share on`
    /\ sharing = TRUE
    /\ row = [status |-> "absent", enc |-> FALSE, gen |-> 0]
    /\ chunks = {}
    /\ wrap = [gen |-> 0, dk |-> NoKey]
    /\ pc = "idle" /\ state = Fresh /\ plan = <<>> /\ run = NoRun
    /\ sealed = {} /\ mishaps = {} /\ troubles = 0

End == pc' = "idle" /\ state' = Fresh /\ plan' = <<>> /\ run' = NoRun
Goto(step) == pc' = step

(* What a step of the run leaves alone unless it says otherwise. *)
Outside == <<file, sharing, mark, mishaps, troubles>>

Aead == run.mode = "aead"

(* The lock is ours: load the state, take the one stat of the publish, refuse*)
(* to downgrade an encrypted session.  State that knows of nothing published *)
(* is reconciled with the store first.                                       *)
Begin(mode) ==
    /\ pc = "idle"
    /\ sharing
    /\ ~(saved.enc /\ mode = "plain")
    /\ state' = saved
    /\ run' = [NoRun EXCEPT !.mode = mode, !.size = Len(transcript)]
    /\ Goto(IF Published(saved) THEN "verify" ELSE "reconcile")
    /\ UNCHANGED <<Outside, saved, store, plan, sealed>>

-----------------------------------------------------------------------------
(* reconcile: adopt what the store holds.  Three requests and then, one after*)
(* the other, the reads of the file: each listed chunk, the prefix, and all  *)
(* that was found equal once more, for the digest.                           *)

Looking(at) == pc \in {"reconcile", "recover"} /\ run.look.at = at

Look(look) == run' = [run EXCEPT !.look = look] /\ UNCHANGED <<pc, state, plan>>

(* A recovery that does not get past the offset the conflict was at; and a   *)
(* version of it that takes standing still for progress.                     *)
FallsBack(before, after) == after.offset < before.offset
MovesNowhere(before, after) == after.offset <= before.offset

(* reconcile returns, having made s of the state.  A publish that begins goes*)
(* on to verify it; one that met a conflict agrees with the store, or, when  *)
(* that moves it nowhere, replaces what the store holds.                     *)
Settle(s) ==
    /\ state' = s
    /\ run' = [run EXCEPT !.look = NoLook]
    /\ Goto(IF pc = "reconcile" THEN "verify"
             ELSE IF MovesNowhere(state, s) THEN "replace" ELSE "resave")
    /\ UNCHANGED plan

(* list_chunks. *)
List ==
    /\ Looking("list")
    /\ \/ Remote = {} /\ Settle(state)
       \/ \E first \in Remote :
            /\ \A c \in Remote : first.off <= c.off
            /\ Look([run.look EXCEPT !.at = "scheme", !.left = Remote,
                                     !.base = first.off, !.cursor = first.off])

(* No key opens what the store holds: as good as a mismatch. *)
CompareWith(look, dk) ==
    IF dk \in Keys THEN Look([look EXCEPT !.at = "compare", !.dk = dk]) ELSE Settle(state)

(* session_enc, and _reconcile_dk: a publisher without the device key never  *)
(* settles an encrypted session; our own wrap serves when it is of the       *)
(* store's generation.                                                       *)
AskScheme ==
    /\ Looking("scheme")
    /\ LET look == [run.look EXCEPT !.enc = TRUE, !.gen = row.gen]
       IN  \/ ~ServerEnc /\ Look([run.look EXCEPT !.at = "compare"])
           \/ ServerEnc /\ run.mode # "aead" /\ End
           \/ /\ ServerEnc /\ run.mode = "aead"
              /\ IF state.enc /\ state.gen = row.gen /\ state.dk # NoKey
                   THEN CompareWith(look, state.dk)
                   ELSE Look([look EXCEPT !.at = "key"])

(* get_wrapped_keys: the self-wrap parked in the store. *)
AskKey ==
    /\ Looking("key")
    /\ CompareWith(run.look, IF wrap.gen = run.look.gen THEN wrap.dk ELSE NoKey)

(* Does the store hold what the file has, where c is? *)
Matches(c) ==
    LET data == Range(transcript, c.off, c.end)
        look == run.look
    IN  /\ Len(data) = c.end - c.off
        /\ c.body = IF look.enc THEN Seal(look.dk, look.gen, c.off, data) ELSE Plain(data)

(* The next chunk of the list: found equal, or the comparing ends at a hole  *)
(* or at other bytes.                                                        *)
Compare ==
    /\ Looking("compare")
    /\ \E c \in run.look.left :
         /\ \A d \in run.look.left : c.off <= d.off
         /\ LET rest == run.look.left \ {c}
                good == c.off = run.look.cursor /\ Matches(c)
            IN  \/ /\ good
                   /\ Look([run.look EXCEPT !.left = rest, !.cursor = c.end,
                              !.at = IF rest = {} THEN "prefix" ELSE "compare"])
                \/ /\ ~good /\ run.look.base < run.look.cursor
                   /\ Look([run.look EXCEPT !.left = {}, !.at = "prefix"])
                \/ /\ ~good /\ run.look.base >= run.look.cursor
                   /\ Settle(state)

(* _prefix_sha256. *)
ReadPrefix ==
    /\ Looking("prefix")
    /\ Look([run.look EXCEPT !.at = "digest",
               !.prefix = Range(transcript, 0, Least(run.look.cursor, PrefixBytes))])

(* The state rebuilt from the chunks found equal; its digest is of the file  *)
(* as it is by now.                                                          *)
Adopt(s) ==
    LET look == run.look
    IN  [start  |-> look.base,
         offset |-> look.cursor,
         digest |-> Range(transcript, look.base, look.cursor),
         prefix |-> look.prefix,
         enc    |-> s.enc \/ look.enc,
         gen    |-> IF look.enc THEN look.gen ELSE s.gen,
         dk     |-> IF look.enc THEN look.dk ELSE s.dk]

(* _digest_range raises when the file has become shorter. *)
Record ==
    /\ Looking("digest")
    /\ IF Len(transcript) >= run.look.cursor THEN Settle(Adopt(state)) ELSE End

Reconcile ==
    /\ List \/ AskScheme \/ AskKey \/ Compare \/ ReadPrefix \/ Record
    /\ UNCHANGED <<Outside, saved, store, sealed>>

-----------------------------------------------------------------------------
(* The first encrypted publish of a session published in plaintext replaces  *)
(* the copy in the store; and a version of it that never happens.            *)
NeverMigrates(s) == FALSE
Migrates(s) == Aead /\ ~s.enc /\ Published(s)

(* Start over when the document changed, when a plaintext session is first   *)
(* published encrypted, or when the wrapped key cannot be opened; then set   *)
(* up the cipher.  Nothing of this is saved yet.                             *)
Verify ==
    LET stale == ~Verified(state, run.size)
        kept == IF stale THEN Reset(state) ELSE state
        migrates == Migrates(state)
        base == IF migrates /\ Published(kept) THEN Reset(kept) ELSE kept
        rotates == Aead /\ base.enc /\ base.dk = Unreadable
    IN  /\ pc = "verify"
        /\ state' \in IF Aead THEN SetupCipher(base) ELSE {base}
        /\ run' = [run EXCEPT !.deleting = stale \/ migrates \/ rotates,
                              !.wraps = Aead /\ ~Opens(base)]
        /\ Goto("plan")
        /\ UNCHANGED <<Outside, saved, store, plan, sealed>>

(* An empty plan ends the run with nothing saved. *)
Plan ==
    /\ pc = "plan"
    /\ LET todo == PlanChunks(state, run.size)
       IN  IF todo = <<>> THEN End
           ELSE /\ plan' = todo
                /\ Goto(IF run.deleting THEN "delete" ELSE "register")
                /\ UNCHANGED <<state, run>>
    /\ UNCHANGED <<Outside, saved, store, sealed>>

Delete ==
    /\ pc = "delete"
    /\ DeleteSession
    /\ Goto("register")
    /\ UNCHANGED <<Outside, saved, state, plan, run, sealed>>

(* The prefix fingerprint is read once, just before the first chunk goes. *)
EnterLoop ==
    /\ Goto("send")
    /\ run' = [run EXCEPT !.wraps = FALSE,
                          !.prefix = IF run.recoveries = 0
                                       THEN Range(transcript, 0, Least(run.size, PrefixBytes))
                                       ELSE @]
    /\ UNCHANGED <<state, plan>>

(* put_session; a 400 for a generation the store has passed ends the run. *)
Register ==
    /\ pc = "register"
    /\ IF AcceptsSession(Aead, state.gen)
         THEN /\ row' = Registered(Aead, state.gen)
              /\ IF run.wraps THEN Goto("wrap") /\ UNCHANGED <<state, plan, run>>
                              ELSE EnterLoop
         ELSE End /\ UNCHANGED row
    /\ UNCHANGED <<Outside, saved, chunks, wrap, sealed>>

(* put_wrapped_keys: refused for a session that is not live; a stale         *)
(* generation is accepted and ignored.                                       *)
PutWraps ==
    /\ pc = "wrap"
    /\ IF Live
         THEN /\ wrap' = IF state.gen >= wrap.gen THEN [gen |-> state.gen, dk |-> state.dk]
                                                  ELSE wrap
              /\ EnterLoop
         ELSE End /\ UNCHANGED wrap
    /\ UNCHANGED <<Outside, saved, row, chunks, sealed>>

(* One chunk: read the file now, encrypt, put_chunk.  In plaintext the digest*)
(* declared is the plan's, so bytes that changed since are refused; so is a  *)
(* body of the wrong length, or one the row's scheme does not expect.        *)
Send ==
    LET c == Head(plan)
        data == Range(transcript, c.off, c.end)
        body == IF Aead THEN Seal(state.dk, state.gen, c.off, data) ELSE Plain(data)
        wellFormed == /\ Live /\ row.enc = Aead
                      /\ Len(data) = c.end - c.off
                      /\ Aead \/ data = c.data
        there == {d \in chunks : d.off = c.off}
        same == {d \in there : d.end = c.end /\ d.body = body}
    IN  /\ pc = "send"
        /\ sealed' = IF Aead THEN sealed \cup {body} ELSE sealed
        /\ \/ /\ wellFormed /\ there = {}
              /\ chunks' = chunks \cup {[off |-> c.off, end |-> c.end, body |-> body]}
              /\ Goto("save") /\ run' = [run EXCEPT !.data = data]
              /\ UNCHANGED <<state, plan>>
           \/ /\ wellFormed /\ same # {}                       \* an idempotent retry
              /\ Goto("save") /\ run' = [run EXCEPT !.data = data]
              /\ UNCHANGED <<chunks, state, plan>>
           \/ /\ wellFormed /\ there # {} /\ same = {}         \* 409
              /\ Goto("conflict")
              /\ UNCHANGED <<chunks, state, plan, run>>
           \/ ~wellFormed /\ End /\ UNCHANGED chunks           \* 400, 404, 413
        /\ UNCHANGED <<Outside, saved, row, wrap>>

(* The checkpoint after a chunk, and a wrong one that covers the whole plan. *)
WholePlan ==
    [state EXCEPT !.offset = run.size, !.digest = Range(transcript, state.start, run.size),
                  !.prefix = run.prefix]
Checkpoint ==
    [state EXCEPT !.offset = Head(plan).end, !.digest = @ \o run.data,
                  !.prefix = run.prefix]

Save ==
    /\ pc = "save"
    /\ state' = Checkpoint
    /\ saved' = Checkpoint
    /\ plan' = Tail(plan)
    /\ run' = [run EXCEPT !.data = <<>>]
    /\ Goto(IF Len(plan) = 1 THEN "done" ELSE "send")
    /\ UNCHANGED <<Outside, store, sealed>>

(* publish returns. *)
Return ==
    /\ pc = "done"
    /\ End
    /\ UNCHANGED <<Outside, saved, store, sealed>>

(* 409: the store holds other bytes at an offset we think is ours.  Ask it   *)
(* what it holds, unless that was done often enough.                         *)
Conflict ==
    /\ pc = "conflict"
    /\ IF run.recoveries < MaxRecoveries
         THEN /\ run' = [run EXCEPT !.recoveries = @ + 1]
              /\ Goto("recover")
              /\ UNCHANGED <<state, plan>>
         ELSE End
    /\ UNCHANGED <<Outside, saved, store, sealed>>

Replace ==
    /\ pc = "replace"
    /\ DeleteSession
    /\ state' = Reset(state)
    /\ Goto("resave")
    /\ UNCHANGED <<Outside, saved, plan, run, sealed>>

Resave ==
    /\ pc = "resave"
    /\ saved' = state
    /\ Goto("replan")
    /\ UNCHANGED <<Outside, store, state, plan, run, sealed>>

(* Verify and plan again from the state the recovery left, and match the     *)
(* data key to it.                                                           *)
Replan ==
    LET kept == IF Verified(state, run.size) THEN state ELSE Reset(state)
        todo == PlanChunks(kept, run.size)
    IN  /\ pc = "replan"
        /\ IF todo = <<>> THEN End
           ELSE /\ plan' = todo
                /\ state' \in IF Aead THEN SetupCipher(kept) ELSE {kept}
                /\ run' = [run EXCEPT !.wraps = Aead /\ ~Opens(kept)]
                /\ Goto("register")
        /\ UNCHANGED <<Outside, saved, store, sealed>>

RunStep ==
    \/ Reconcile \/ Verify \/ Plan \/ Delete \/ Register \/ PutWraps
    \/ Send \/ Save \/ Return \/ Conflict \/ Replace \/ Resave \/ Replan

-----------------------------------------------------------------------------
(* What happens around a run                                                *)

Around == <<store, local, sealed>>

Suffers(mishap) == mishaps' = mishaps \cup mishap
InRun == pc # "idle"

(* The editor appends. *)
Grow ==
    /\ Len(transcript) < MaxLength
    /\ transcript' = Append(transcript, epoch)
    /\ UNCHANGED <<epoch, sharing, mark, saved, Around, mishaps, troubles>>

(* Compaction, or a resumed session: the file keeps some head and continues  *)
(* with other bytes, shorter or longer than before.                          *)
Rewrite(head, tail) ==
    /\ epoch < MaxEpoch
    /\ head < Len(transcript) /\ head + tail <= MaxLength
    /\ epoch' = epoch + 1
    /\ transcript' = SubSeq(transcript, 1, head) \o [i \in 1 .. tail |-> epoch + 1]
    /\ Suffers((IF InRun THEN {"rewritten"} ELSE {})
                \cup (IF run.look.base < run.look.cursor /\ head < run.look.cursor
                        THEN {"reread"} ELSE {}))
    /\ UNCHANGED <<sharing, mark, saved, Around, troubles>>

Trouble(name) ==
    /\ name \in Troubles
    /\ troubles < MaxTroubles
    /\ troubles' = troubles + 1

(* The run is killed, or its next request fails for good: at any step. *)
EndEarly ==
    /\ InRun
    /\ Trouble("end")
    /\ End
    /\ Suffers(CASE pc = "save" -> {"unsaved"}
                 [] pc \in {"register", "resave"} /\ row.status = "deleted" -> {"abandoned"}
                 [] OTHER -> {})
    /\ UNCHANGED <<file, sharing, mark, saved, store, sealed>>

(* The state file is lost. *)
LoseState ==
    /\ Trouble("lose")
    /\ saved # Fresh
    /\ saved' = Fresh
    /\ Suffers({"lost"} \cup IF row.status = "deleted" THEN {"forgotten"} ELSE {})
    /\ UNCHANGED <<file, sharing, mark, Around>>

(* The device key changes, or the wrap in the state file is damaged. *)
SpoilKey ==
    /\ Trouble("spoil")
    /\ saved.dk \in Keys
    /\ saved' = [saved EXCEPT !.dk = Unreadable]
    /\ UNCHANGED <<file, sharing, mark, mishaps, Around>>

Crossing == IF InRun THEN {"crossed"} ELSE {}

(* `ezup unpublish`: delete the session from the store, forget the offsets,  *)
(* turn sharing off.                                                         *)
Unpublish ==
    /\ Trouble("unpublish")
    /\ row.status # "absent"
    /\ DeleteSession
    /\ saved' = Fresh
    /\ sharing' = FALSE
    /\ Suffers({"forgotten"} \cup Crossing)
    /\ UNCHANGED <<file, mark, local, sealed>>

ShareOff ==
    /\ Trouble("share")
    /\ sharing
    /\ sharing' = FALSE
    /\ Suffers(Crossing)
    /\ UNCHANGED <<file, mark, saved, Around>>

(* `ezup share on`: _watermark_session seeds the watermark of a session that *)
(* has not published; one that has resumes where it left off.  (Asking again *)
(* for a session that is shared is bounded like a trouble.)                  *)
ShareOn ==
    /\ sharing' = TRUE
    /\ IF sharing THEN Trouble("share") ELSE UNCHANGED troubles
    /\ Suffers(Crossing)
    /\ IF Published(saved) THEN UNCHANGED <<mark, saved>>
       ELSE /\ saved' = [saved EXCEPT !.start = Len(transcript)]
            /\ mark' = Len(transcript)
    /\ UNCHANGED <<file, Around>>

Next ==
    \/ \E mode \in Modes : Begin(mode)
    \/ RunStep
    \/ Grow
    \/ \E head, tail \in 0 .. MaxLength : Rewrite(head, tail)
    \/ EndEarly \/ LoseState \/ SpoilKey \/ Unpublish \/ ShareOff \/ ShareOn

Spec == Init /\ [][Next]_vars

(* A run that is not ended goes on, and there is another publish after it:   *)
(* the hook starts one at every stop of the session, `ezup sync` by hand.    *)
(* Edits, troubles and commands of the user are not promised.                *)
FairSpec ==
    /\ Spec
    /\ WF_vars(RunStep)
    /\ \A mode \in Modes : WF_vars(Begin(mode))

-----------------------------------------------------------------------------
(* Properties                                                               *)

Body == [dk : Keys \cup {NoKey}, gen : Nat, off : Nat, data : Seq(Nat)]

FileTypeOK ==
    /\ transcript \in Seq(Nat) /\ epoch \in Nat
    /\ sharing \in BOOLEAN /\ mark \in Nat
    /\ saved \in PublishState

Chunk == [off : Nat, end : Nat, body : Body]

Looks == [at : {"list", "scheme", "key", "compare", "prefix", "digest"},
          left : SUBSET Chunk, enc : BOOLEAN, gen : Nat, dk : Keys \cup {NoKey},
          base : Nat, cursor : Nat, prefix : Seq(Nat)]

StoreTypeOK ==
    /\ row \in [status : {"absent", "live", "deleted"}, enc : BOOLEAN, gen : Nat]
    /\ chunks \subseteq Chunk
    /\ wrap \in [gen : Nat, dk : Keys \cup {NoKey}]

RunTypeOK ==
    /\ pc \in Steps \cup {"idle"}
    /\ state \in PublishState
    /\ plan \in Seq([off : Nat, end : Nat, data : Seq(Nat)])
    /\ run \in [mode : Modes \cup {"none"}, size : Nat, deleting : BOOLEAN, recoveries : Nat,
                prefix : Seq(Nat), wraps : BOOLEAN, data : Seq(Nat), look : Looks]

HistoryTypeOK == sealed \subseteq Body /\ mishaps \subseteq Mishaps /\ troubles \in Nat

TypeOK == FileTypeOK /\ StoreTypeOK /\ RunTypeOK /\ HistoryTypeOK

Unless(some, property) == mishaps \cap some = {} => property

SentAboveMark == \A c \in chunks' \ chunks : c.off >= mark

(* PublishState: "bytes written before a developer ran `ezcl share on` stay  *)
(* on the machine forever".  No chunk enters the store from below the mark,  *)
(* however often the transcript is rewritten, the session reset, replaced,   *)
(* rotated or rebuilt from the store: as long as the state file and the run  *)
(* know what the user was told.                                              *)
ConsentUnlessMisled == [][Unless({"lost", "crossed", "unsaved"}, SentAboveMark)]_vars

(* _watermark_session: "nothing from before now is sent" is "a fact rather   *)
(* than a claim".  The same, when no command crossed a run.                  *)
NothingFromBefore == [][Unless({"lost", "crossed"}, SentAboveMark)]_vars

(* Every byte of [from, to) is in the store, as the transcript has it. *)
Covers(from, to) ==
    \A b \in from .. to - 1 : \E c \in Remote :
      c.off <= b /\ b < c.end /\ c.body.data[b - c.off + 1] = transcript[b + 1]

(* PublishState.published: "True when this session has bytes in the store to *)
(* protect".  A state file the next run would resume from is true: the store *)
(* holds all the bytes it calls published.  Otherwise they are never sent.   *)
Resumable ==
    /\ pc = "idle" /\ Published(saved)
    /\ Verified(saved, Len(transcript))
    /\ saved.enc = row.enc              \* else the next run migrates the session
    /\ saved.dk # Unreadable            \* else it rotates the key

CheckpointIsTrue == Resumable => Covers(saved.start, saved.offset)

(* What breaks the checkpoint is a run that ends right after it deleted the  *)
(* session, an unpublish during a run, or a rewrite under a reconciliation:  *)
(* the digest it records is not of the bytes it compared but of a later look *)
(* at the file, so what the file holds by then counts as published.  No other*)
(* end of a run does, and no other edit of the transcript between two steps. *)
CheckpointUnlessAbandoned == Unless({"abandoned", "crossed", "reread"}, CheckpointIsTrue)

(* publish.py, _setup_cipher: "the new gen is strictly greater than anything *)
(* either side has ever encrypted under".                                    *)
NewGenerationIsNew ==
    pc = "wrap" => \A b \in sealed : b.dk # state.dk => b.gen < state.gen

(* A tombstone answers 404, so its generation counts for nothing: that is the*)
(* one way to mint an old generation again.                                  *)
NewGenerationUnlessTombstone ==
    Unless({"abandoned", "forgotten"}, NewGenerationIsNew)

(* publish.py: "Every recovery here is automatic".  A run that has a chunk to*)
(* send is never refused its registration for a generation the store passed. *)
NeverRefused == pc = "register" => AcceptsSession(Aead, state.gen)

(* Again a tombstone is the one obstacle: it still rejects the generations   *)
(* it no longer reports.                                                     *)
RefusedOnlyByTombstone == Unless({"abandoned", "forgotten"}, NeverRefused)

(* publish.py, _Cipher: "encrypting *different* plaintext at a seen offset   *)
(* under this DK ... R1 makes it unreachable".                               *)
AddressSealedOnce ==
    \A b, d \in sealed : b.dk = d.dk /\ b.gen = d.gen /\ b.off = d.off => b = d

(* R1 is as good as the state file: it takes a chunk the state file does not *)
(* know of, or a rewrite after the run verified the file, to seal other bytes*)
(* at an address.                                                            *)
AddressUnlessUnsaved ==
    Unless({"unsaved", "rewritten", "lost", "crossed"}, AddressSealedOnce)

(* publish.py: "Wraps land before the first ciphertext byte, so any puller   *)
(* that can see a chunk can resolve its DK".                                 *)
StoreDecrypts ==
    \A c \in Remote : row.enc => c.body.gen = row.gen /\ wrap = [gen |-> row.gen, dk |-> c.body.dk]

(* A chunk of another generation is there after one the state file does not  *)
(* know of; or when the transcript is rewritten between verify and plan, so  *)
(* that the plan starts over over what is there, and again between the 409,  *)
(* whose recovery adopts some of the chunks, and the next plan: that takes a *)
(* new generation and replaces the chunks only once one is in its way.       *)
StoreDecryptsUnlessUnsaved ==
    Unless({"unsaved", "rewritten", "lost", "crossed"}, StoreDecrypts)

(* What a puller appends chunk after chunk: the ranges in the store neither  *)
(* overlap nor leave a hole.  Nothing in the store enforces it, and a 409    *)
(* only reveals a clash at the very same offset.  (A migration killed after  *)
(* it deleted the session, and a machine back to plaintext, which resumes    *)
(* behind an empty store: a rewrite between verify and plan of a later run   *)
(* starts over in front of what that one sent.)                              *)
StoreIsOneRun ==
    \A c, d \in Remote : c.off < d.off => c.end <= d.off /\ \E e \in Remote : e.end = d.off

OneRunUnlessUnsaved ==
    Unless({"unsaved", "abandoned", "lost", "crossed"}, StoreIsOneRun)

(* publish.py, on migration: "leaving a plaintext copy beside the encrypted  *)
(* one would defeat the migration".                                          *)
NoPlaintextBeside == row.enc => \A c \in Remote : c.body.dk # NoKey

(* A plaintext chunk the state file does not know of survives the migration  *)
(* until it is in the way of an encrypted one.                               *)
NoPlaintextUnlessUnsaved ==
    Unless({"unsaved", "lost"}, NoPlaintextBeside)

(* "Rather than wedging": once edits and troubles stop, the runs that are    *)
(* started bring every shared byte of the transcript to the store, whatever  *)
(* the rewrites, conflicts, migrations and ends before, and there it stays.  *)
(* The machine must settle for one configuration, and not for plaintext when *)
(* the session is an encrypted one.  A checkpoint that names bytes the store *)
(* has not (above) is never found out, so a rewrite under a reconciliation is*)
(* excused here too.                                                         *)
Settles ==
    \E mode \in Modes :
        <>[](run.mode \in {"none", mode} /\ (mode = "plain" => ~saved.enc /\ ~row.enc))

CatchesUp ==
    Settles => <>[]Unless({"abandoned", "forgotten", "crossed", "reread"},
                          sharing => Covers(Most(saved.start, mark), Len(transcript)))

(* publish.py: leaving the old chunks "would splice a stale tail onto the    *)
(* rewritten transcript".  In the end the store holds nothing past the end   *)
(* of a transcript that is shared.                                           *)
NoStaleTail == <>[](sharing => \A c \in Remote : c.end <= Len(transcript))
=============================================================================
