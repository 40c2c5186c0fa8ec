# ezup in TLA+

`ezup` publishes the transcript of a Claude Code session, while it is being
written, to a store from which other machines pull it and distil a changelog.
This directory holds TLA+ models of that program, the TLC configurations that
check them and TLAPS proofs about them. Paths below are relative to the
repository; `publish.py` and the other Python files are in `ezchangelog/`,
`index.ts` is `worker/src/index.ts`.

## 1. The system

| Component | State it keeps | Operations | Talks to |
|---|---|---|---|
| Publish lock, `publish.py:state_lock` | one lockfile per session | take, break when stale, touch, release | every other publisher of the session, through the file |
| Publisher, `publish.py` | `publish/<session>.json`: watermark, offset, digests, encryption generation, wrapped key | `publish`, `reconcile`, 409 recovery | the transcript (read only), the store, the lock |
| Consent, `share.py`, `cli.py` share/unpublish/sync | `share.json`, acknowledged policy files, the watermark inside the publish state | share on, off, clear, ack; unpublish | the publisher's state file, without its lock |
| Hook, `hook_entry.py`, `hooks.py` | log file; the editor's settings | start a publish at Stop and SessionEnd; install, uninstall | starts publisher processes |
| HTTP transport, `transport.py` | none | the requests, their retries, what a 404 reads as | the Worker |
| Local directory transport, `transport.py` | `index.json` and chunk files | the same interface on a directory | other processes on the same directory |
| Worker, `index.ts`, `schema.sql` | D1: sessions, chunks, wraps, readers, devices, admin failures; R2: chunk bodies | put session, chunk and wraps; list; delete; mint and revoke readers | publishers and pullers |
| Puller, `pull.py` | cursor and one record per session; the mirrored transcripts | list since cursor, check contiguity, fetch, decrypt, append | the Worker, `crypto.py`, the keyring |
| Keys, `crypto.py`, `keyring.py` | device key in keychain or file | wrap, unwrap, seal | publisher, puller |
| Collector, distiller, pipeline: `collect.py`, `distill.py`, `pipeline.py`, `llm*.py` | changelog files | window, label lanes, prompt, assemble | mirrored transcripts, model providers |
| Configuration and terminal, `config.py`, `store.py`, `render.py`, `console.py`, `picker.py`, ... | small files | read, write, print | all |

What makes this hard, and what correctness means for each part:

* **Lock.** Processes die while they hold it; a waiter that finds an old file
  acts on what it measured; a live holder may be silent for as long as its requests
  take. Correct: one publisher per session as long as no live holder's file is broken, and
  one more for each that is; a file that looks stale belongs to a holder that really was
  silent so long; a dead one's does not block for ever.
* **Publisher.** It runs for as long as an upload takes over a file that the
  editor appends to and rewrites, against a store it reaches through requests
  that can be applied without an answer, and it can be killed anywhere. Correct:
  nothing from before consent is sent; the state file never claims what the
  store lacks; a key and a nonce are used for one plaintext; generations only
  rise; what is shared reaches the store in the end.
* **Consent commands.** They write the publisher's state file without its lock.
  Correct: after `share off` nothing more is sent, after `share on` nothing
  older, after `unpublish` nothing is left.
* **Worker.** Requests of one session overlap, and a chunk is an R2 object and a
  D1 row. Correct: a row always has its body, a delete leaves neither, the
  session's time moves past every puller's cursor.
* **Puller.** It lists and fetches while sessions grow, rotate and disappear,
  and can be killed between the append and the save. Correct: the mirror is a
  prefix of one published document, never two documents spliced; no session is
  skipped for ever.
* **Grants.** Correct: whoever may read a session can resolve its key; one reader
  that is revoked does not stop the publish.

`PROJECT.json` lists every component with its status and every hazard at its line.

## 2. Plan

What is there, and what is left.

1. `StateLock` and `StateLockProofs`: the publish lock — **there**, proved.
2. `Publish`: one session's publisher, encryption and 409 recovery against an atomic
   store — **there**, all of its safety properties proved, in `PublishProofs`: types,
   consent, what is known of the transcript; generations, addresses, wraps, checkpoint,
   contiguity, migration.
3. `Pull`: one puller against an evolving store — **there**, all of its safety and action
   properties proved in `PullProofs`.
4. `SharePolicy` (operators) and `Consent` (the commands and the publisher on the same
   files, step by step) — **there**, all properties proved in `ConsentProofs`.
5. `Settings` and `Hook`: what starts publishes, and what wires that up — **there**, types and
   both safety properties proved in `HookProofs`.
6. `SessionStore`, the contract of a transport, and `LocalDir`, which is shown to
   implement it; `LocalDirProofs` — **there**, types, refinement and all three invariants proved.
7. `Distill` — **there**, model-checked. `Collect`, and on it `Changelog` and `Sync` — **there**;
   `ChangelogProofs` proves the three properties of the first two.
8. `Worker` and `WorkerProofs`: the Worker's write handlers statement by statement,
   several at once — **there**, types and all four properties proved.
9. Left to model: the command's side of grants (`readers.json`, the backfill of wraps),
   `AdminGate` (the lockout counter), the keyring, the retries inside one HTTP request.
   Left to prove: the two properties of `Distill`.

How the modules depend on each other:

    StateLock     Publish     Pull          each a component with its environment
    SharePolicy  <- Consent                 operators, and the system that uses them
    Settings     <- Hook                    Hook EXTENDS Settings: one state space
    SessionStore <- LocalDir                INSTANCE ... WITH, a refinement
    Worker                                  the store that Publish and Pull take for atomic
    Distill
    Collect      <- Changelog, Sync         each EXTENDS Collect

    StateLock <- StateLockProofs        Worker    <- WorkerProofs
    LocalDir  <- LocalDirProofs         Changelog <- ChangelogProofs
    Pull      <- PullProofs             Consent   <- ConsentProofs
    Publish   <- PublishProofs          Hook      <- HookProofs

`Publish` has one publisher at a time, which StateLock promises only as long as no waiter
breaks a live holder's file; Consent and Hook keep the lock, exclusive as well, but only one
byte per chunk of what Publish does under it. What two runs on one session send
at once meets as requests in `Worker`; what they do to their state file is not modelled.
Changelog keeps of Distill only which days a transcript yields.

## 3. The modules

### StateLock: `publish.py:499-560`

| TLA+ | code |
|---|---|
| `lock` | the lockfile: who created it, how many ticks ago it was touched |
| `pc[p]` | where process `p` is in `state_lock`: `trying` before `os.open`, `exists` after `FileExistsError`, `breaking` between the measured age and `unlink`, `holding` inside the `with` |
| `clock[p]` | time waited while trying; time since the last touch while holding |
| `Create`, `FindHeld` | `os.open(O_CREAT\|O_EXCL)` succeeds, or not (523-524) |
| `Measure`, `Break` | `stat` and the decision (525-538); `unlink` (530) |
| `Touch`, `Release` | `_touch` (555), `unlink` on leaving (551) |
| `Die` | a killed process; its file stays |
| `breaks` | history: how often a `Break` removed a live holder's file |

Time is counted in ticks, and nothing bounds how long a live holder goes without a touch. The
comment at `publish.py:73-76` says that "the stale timeout only has to survive one chunk";
but `LOCK_STALE_SECONDS` is 300, one upload may take three tries of 120 s and what the
server asks to wait between them (`transport.py:66-68`, 515-542), and the requests of
`reconcile`, of a deletion, of `put_session`, of the wraps and of the 409 recovery are followed by no
touch. So a waiter may break a live holder's file, and the properties say what is left then. Not
modelled: `os.open` failing with another error, which ends the process before
it holds anything, and time going backwards (`stat` is wall-clock time).

### Publish: `publish.py:133-1190`, with the Worker, the transport and `crypto.py` where it calls them

One session, one publisher at a time (StateLock's promise while no live holder's file is
broken), the store, and the world around: the editor, the user, the keychain, death.

A **byte** is the epoch in which it was written: a rewrite starts a new epoch, so
documents are equal exactly when their sequences are, and a digest of a range is
modelled as the range itself. A **ciphertext** is the record (key, generation,
offset, bytes): `encrypt_chunk` is deterministic with nonce (generation, offset).

| TLA+ | code |
|---|---|
| `saved`, `state` | `PublishState` in its file and in memory. `start` start_offset, `digest` published_sha256, `prefix` prefix_sha256 and prefix_len, `enc`/`gen`/`dk` enc, enc_gen, dk_wrapped |
| `row`, `chunks`, `wrap` | D1's sessions row (absent, live, tombstone), chunks rows, the publisher's own wrap |
| `run` | the locals of `_publish_locked`: mode of the transport, the one `stat`, `deleted_remote`, `conflicts`, the prefix digest, `cipher.wraps`; `look` has those of `reconcile` |
| `Begin` | `publish()` up to the first request: consent check (`cli.py:741`), load, `stat`, refusal to downgrade |
| `Reconcile` | `reconcile` (796-886), each request and each read of the file a step: `List` (812), `AskScheme` (830, 741-760), `AskKey` (766), `Compare` per listed chunk (842-862), `ReadPrefix` (874), `Record` (877) |
| `Settle` | `reconcile` has returned: to `_publish_locked` (994) or to the 409 recovery, which asks whether the offset moved (1084) |
| `Verify` | `_verify_published`, the reset, the migration, `_setup_cipher` (997-1031) |
| `Plan`, `Delete`, `Register`, `PutWraps` | `plan_chunks` and the empty plan (1033-1040), then the three requests (1042-1059) |
| `Send`, `Save` | one chunk: read, encrypt, `put_chunk`; the checkpoint (1143-1190) |
| `Conflict`, `Replace`, `Resave`, `Replan` | the 409 recovery (1073-1113) |
| `EndEarly` | the process is killed, or its next request fails for good (`transport.py:494-549`), at any step |
| `Grow`, `Rewrite` | the editor |
| `LoseState`, `SpoilKey` | the state file is lost or damaged (`load` returns a fresh one); the device key no longer opens the wrap |
| `Unpublish`, `ShareOff`, `ShareOn` | the commands of `cli.py` |

Each request to the store is one step, and so is each read of the file in `reconcile` (one chunk, the
prefix, the range), so the transcript can change, a command can run and the process can die
between any two of them. A request that was
applied while its answer was lost is the step followed by `EndEarly`.

`mark`, `sealed` and `mishaps` are history: the watermark of the last
`share on`, every ciphertext ever made, and which **mishaps** there were. The code
cannot keep every property through every failure; where it cannot, the run checks a
`...Unless...` form, which names the mishaps needed for the property as documented to fail.
The counterexamples that TLC gives when a name is taken out are told in section 4; they are not
runs of their own:

| mishap | meaning |
|---|---|
| `rewritten` | the transcript was rewritten while a run was under way |
| `reread` | and that between two reads of a reconciliation, below what it had found equal to the store's bytes and was to hash once more |
| `unsaved` | a run ended between a stored chunk and its checkpoint |
| `abandoned` | a run ended with the session it had deleted still deleted |
| `lost` | the state file was lost |
| `forgotten` | it was lost, or removed by `unpublish`, with only a tombstone in the store |
| `crossed` | a user command ran during a run |

### Pull: `pull.py`, with the handlers of `index.ts` it calls and is raced by

One puller that holds a key, the sessions of a store, and one publisher per
session. The store's side is what publishers may do to it, in the order a
publisher does it: register, wrap the key for this caller (or not: `Granted`), add
chunks one after the other, and delete the session and start over with a
transcript that was rewritten from some byte on, or is the same (a rotation),
from a watermark that may differ. A chunk upload is three steps of the Worker: the
time is read, the range is claimed, and the session row gets size and time.

| TLA+ | code |
|---|---|
| `row`, `chunks`, `wrap` | D1's sessions, chunks and, of wrapped_keys, this caller's |
| `stamp`, `claimed` | `writtenMs` of an upload in the Worker (`index.ts:795`), and whether its insert (804) is done |
| `mirror` | `pulled/<author>/<session>.jsonl` |
| `saved` | `pull-state.json`: the cursor, and per session `base`, `generation`, `enc`, `enc_gen` |
| `run` | the locals of `pull()` and `_pull_one` |
| `List`, `FetchWraps` | the two requests at the start (436-468) |
| `Skip` | the legacy gate (495-515) |
| `ListChunks`, `ProbeGeneration`, `ResolveKey` | the requests about one session, with the downgrade checks (728-790) |
| `Compare` | base, `_stale_reason`, `unlink`, `_plan` (813-845): no request, one step |
| `Fetch`, `Finish` | one blob with its checks and append (847-892); what is returned (894-908) |
| `Conclude` | the rest of the loop body (524-544) |
| `Save` | the cursor and the state file (546-557) |
| `RequestFails`, `EndEarly`, `LoseState` | a failed request about one session; a failed request at the start or a killed process; a state file that is lost or unreadable |

A **byte** is the document it belongs to and its position, so two documents that
share a head share its bytes only if the later one is marked as their
continuation (`kept`); a **digest** is the chunk itself; a record's
`generation` is the set of chunks it is the hash of.

| mishap | meaning |
|---|---|
| `late` | the time an upload read was old when it was written |
| `skipped` | a legacy session was passed over without `--allow-legacy` |
| `ended` | a pull died before it saved |
| `alarmed` | a pull had more bytes than its listing reported |
| `emptied` | a pull met a session before its first chunk |
| `lost` | the state file was lost |
| `moved` | the session was started over from another watermark than before |

`moved` alone does no harm; together with `ended` or `alarmed` it is `Misplaced` (section 4).
`MaxTime` is at least 1: a session that exists has been written at some time.

### SharePolicy and Consent: `share.py`, `cli.py:427-1000`, `config.py:194-265`

`SharePolicy` is `share.py` as operators on a tree of directories, one inside the
other (`1` is the working directory, `Depth` the outermost). Each holds an `.ez/config.json`
that declares a policy, a store, both or neither, or has no `.ez`. Every file that is missing, cannot be
read or makes no sense reads as `Empty`, as in the code.

| TLA+ | code |
|---|---|
| `PolicyChain`, `MostRestrictive`, `EffectiveMode` | `policy_chain`, `most_restrictive` and its tie-break, `effective_policy` |
| `FindRepo`, `NearestConfig`, `LoadConfig` | `find_repo`, and what `load_config` takes from environment or machine, repository, default |
| `Ack`, `AckStatus` | an acknowledgement is the text it accepted: the fingerprint is a hash of it |
| `Resolve`, `MaySetSession`, `SyncRefused` | `_resolve`, the refusal in `set_session`, `_sync_refusal` |

`Consent` is one session, any number of publishers of it and one user at a
terminal. A publisher is `cmd_publish`: read the policies (`Start`), then marker
and acknowledgement (`Decide`), then the configuration again (`Configure`), take
the lock, break a dead run's, or give up, reconcile, register, and per byte `Send` and `Save`. `via`
tells apart `ezup publish`, a tick in `ezup sync` and `ezup sync --enable`. The
commands take several steps: `ShareOn`, `Watermark`, `SaveWatermark`;
`PrintPolicy`, `Acknowledge`; `Unpublish`, `DeleteSession`, `Forget`, `Stop`. The store
is the set of bytes of the session each `Store` holds.

`floor` is history: the first byte the user agrees to share at this moment
(`share on`: what comes from now on; a policy, or `sync`: all of it; `share off`, `clear`,
`unpublish`: nothing). `gone` is set by a completed unpublish and reset by the
next agreement, `printed` holds the texts shown by `share ack`.

| mishap | meaning |
|---|---|
| `early` | a publish loaded its state between the marker and the watermark of `share on` (`cli.py:678-681`) |
| `overtaken` | `share off`, `clear` or `unpublish` took effect during a publish |
| `overwritten` | the watermark was saved over a state file it had not read |
| `swapped`, `repointed` | a policy file changed between printing and hashing it, or after a publish had decided on it |
| `nested` | the config that named the store is not the one that was acknowledged (`config.py:196`) |
| `moved` | when a publish took the lock, or `unpublish` began, another store than the one addressed had bytes of the session: nobody compares the store that the state file names |
| `halfway`, `unsaved` | a command, or a publish between chunk and checkpoint, died |

### Settings and Hook: `hooks.py`, `hook_entry.py`

A group of an event is the set of its commands: ours, theirs, or both. `install` and
`uninstall` are `Read` (load the JSON) and `Change` (write it back), with `UserEdits`
in between. `Hook` extends it with the session: `Turn` and `EndSession` fire events, each
source of hooks that is wired (settings file, plugin) runs a process, `Look` is the
debounce on the mark and the state file (`_recently_published`), `Mark`, `Spawn`; a
publish begins, waits `LockWait` for the lock or gives up, and `Upload`s a byte at a time what
was there when it took the lock. `Toggle` is consent, `Fail` any failure of a
publish, `KillSession` an editor that fires no SessionEnd. Ages and waits are ticks.

### SessionStore and LocalDir: `transport.py:221-400`

`SessionStore` is the contract of `class Transport` for the callers: a row per
session; `put_session` registers or revives it, `put_chunk` adds a chunk to a
registered session, `delete_session` leaves a tombstone; each takes effect at
once or not at all. `LocalDir` is the directory that implements it, with its
callers: a job loads `index.json` (`Load`), writes or removes files (`Files`), writes
`index.json` back (`Save`). `ContractKept` is the refinement
`Contract == INSTANCE SessionStore WITH rows <- index, ...`: every step of `LocalDir` is
one operation of `SessionStore` on one session, or a stutter, until an index is
written that was not what its writer had read.

### Worker: `worker/src/index.ts:464-536, 540-646, 698-977, 1038-1077`

`Publish` and `Pull` take a handler of the Worker for one step. `Worker` takes it
apart: every statement to D1 and every call to R2 is a step, `Requests` of them run
at once on one session, and each may end anywhere (the isolate is evicted, D1 or
R2 throws). A client that timed out sends the request again while the first one runs,
`unpublish` does not take the publisher's lock, and a broken lock lets two publishers in: so any
requests can meet.

| TLA+ | code |
|---|---|
| `session`, `chunks`, `wraps`, `readers` | the rows of D1; `size` is `sessions.size`, `listed` whether `updated_ms` was written after the last claim |
| `bucket` | R2: the bytes under each key; `chunkKey` is author and range, not the sha256; `junk` is any other body |
| `request[r]` | a handler: the step it is at and its locals |
| `PutSession` | the upsert of `putSession`, which revives a tombstone |
| `BeginUpload`, `Lookup`, `Put`, `Claim`, `Lost`, `Touch` | `putChunk`: the session's row, the fast path, `BUCKET.put`, the guarded insert with the row it finds instead (`Found`), the row of the winner, size and time |
| `PutFails`, `Sweep`, `Discard`, `ForgetFails` | a wrong body or a failing bucket, and what `forget` removes, or fails to |
| `BeginDelete`, `ListKeys`, `DeleteBlobs`, `DeleteBlobsFails`, `Batch` | `deleteSession`: the keys of the rows, the objects, then rows, wraps and tombstone in one batch |
| `BeginGrant`, `CheckReaders`, `StoreWraps` | `putWrappedKeys`: who may receive, then the guarded batch |
| `MintReader`, `RevokeReader` | the token handlers, on one reader |
| `Dies` | a request ends between two steps |

| mishap | meaning |
|---|---|
| `disputed` | an upload put other bytes under a key that a row, or an upload about to claim, relies on |
| `swept` | a failed upload removed the object of another one |
| `orphaned`, `untouched` | an upload ended before its claim with its object stored; or after it, before the row had its size |
| `halfway` | a delete ended with objects removed and their rows not |
| `crossed` | a delete overlapped an upload or a grant |
| `granting` | a reader was revoked between the check and the batch |

### Distill: `distill.py`, `pipeline.py:325-334`

The environment writes a transcript entry by entry: prompts, assistant entries with
calls, results, subagent entries, entries the tree has no node for, and rewinds to an
earlier entry. An edit writes a text or writes none: `_tool_excerpt` (76-85) finds none in a deletion
or in a `MultiEdit`, and `Edited` leaves those out (400). Everything else is operators on `entries`: `Nodes` and `ParentOf` (`build_tree`),
`Ancestry` and `Trunk` (`_label_lanes`), `Attempt`, `Kept`, `Goals` (`segment`, `prune`), `Excerpts`
and `Candidates`. `gone` is what the user rewound past. TLC evaluates them on every
transcript of up to `MaxEntries` entries.

### Collect, Changelog and Sync: `collect.py`, `pipeline.py`, `cli.py:221-352, 821-943`

A transcript has versions, counted as they are written (`written`); `disk` is the one that is
there, or 0. Each says any set of days of work (`says`): `Write` appends, compacts, rewrites, or is one
blob of a mirror that the puller has begun anew (`pull.py:836-892`), and `Remove` is the editor's
clearing out or the puller's `unlink`, at any step of any run. What the
index knows of a transcript is the signature it was scanned under, the version the facts
are of, and the signature it was copied under; `raw` is the copy. `Look` is the
signature and the cache, `Scan` the reading (later, of what is there by then), `Choose` the
picker (`Chosen`: what a run is left to copy), `Copy` and `Replace` the two halves of
`copy_raw` (`Copying`: nothing to do, or the signature is taken), `Save` the index. One scan, copy
or reading of a file is one step and sees one version; and no signature comes back.

`Changelog` continues a run that has collected: `Distill` reads each copy, or the mirror itself, and
the run ends when one is gone; `Brief` asks a
model per session, `Compose` and `Link` once each. A reply is not to be had, in
prose, cut short, of another shape, or any object: `Extracted` is what `extract_json` makes
of it. A beat is (session, day); `Resolved` and `Attached` are the code's defences
against references that do not exist. `Sync` puts `cmd_sync` and the hook's publish on `Collect`.

| mishap | meaning |
|---|---|
| `overlap` (Collect) | a run was started while another one had its index in hand |
| `refresh` | a run ignored what the index knows |
| `aside`, `paired`, `rewound` (Distill) | a subagent wrote into the transcript; one entry edited two files; the user rewound past an edit |
| `overlap`, `unread`, `broken`, `unsaved`, `crossed` (LocalDir) | an index was written over another; could not be read; a writer ended between its steps; a publisher ended before its checkpoint; unpublish met a run |
| `overlap`, `busy`, `failed`, `killed`, `unwired`, `off` (Hook) | two hooks looked before one had marked; a publish gave up on the lock; failed; no SessionEnd; no hook for it; not shared |
| `rewritten`, `mixed` (Settings) | the file changed between read and write; the user had put a command into a group of ours |

## 4. What the runs check

Passing runs:

| run | question | answer |
|---|---|---|
| `StateLockMC` | who holds the lock, with three publishers of any slowness and two deaths? | One at a time and with a file of its own, as old as its last touch, until a waiter unlinks a live holder's file (`HolderOwnsFile`); each such unlink lets in one more and no more than one (`OneMorePerBreak`); and a dead publisher's file does not block for ever (`OrphanIsBroken`). |
| `PublishMC` | encrypted publishing under all troubles | consent (`ConsentUnlessMisled`), true checkpoints, generations, addresses sealed once, a store that decrypts and is one run of bytes: each except after the mishaps it names. |
| `PublishLive` | a machine whose configuration switches between plaintext and encrypted: does it catch up? | `CatchesUp`: once edits and troubles stop and the configuration is settled, everything shared is in the store and stays. `NoPlaintextUnlessUnsaved`: no plaintext stays beside ciphertext. |
| `PullMC` | one session that changes under a puller in every way | `MirrorIsOneDocument`: never two documents spliced. `PinKeptUnlessEmptied`: the record never forgets that a session is encrypted, nor its generation. `ResumesUnlessEnded`: a file that is right is extended and not deleted. |
| `PullCursor` | two sessions and one cursor | `NothingSkippedUnlessLate`: what is not mirrored will be listed. `CatchesUp`: all that can be opened is mirrored in the end. |
| `ConsentMC` | the consent commands, the policy files and a publish, interleaved | `ResolveIsUnanimous`: nearer directories only restrict. `SentIsConsented`: no byte leaves before it was agreed to. `UnpublishLeavesNothing`, `NothingMissingBelow`, `DestinationAsPrinted`: each except after the mishaps it names. |
| `HookMC` | hooks, debounce, lock and settings | `TailReachesStore`: the end of a session is published although Stop is debounced. `NoPileUp`: publishes do not stack up behind a slow one. `TheirsSurvive`: install and uninstall keep the user's commands. |
| `WorkerMC` | three requests at once on one session | `RowsHaveBodies`: under each row's key are its bytes. `DeletedLeavesNothing`: no row, wrap, object or size outlives a delete. `StoredIsAnnounced`: the session's size and time speak of all its chunks. `RevokedGetsNothingNew`: no key for a revoked reader. Each except after the mishaps it names. |
| `LocalDirMC` | a directory as a store | `ContractKept`: it implements `SessionStore`. `EntriesHaveFiles`, `DeleteLeavesNothing`, `PublishedIsIndexed`: index, files and checkpoints agree. |
| `DistillMC` | is the digest true to the conversation? | `LanesTellTheTruth`: what survived is told from what was rewound. `CandidatesAreCurrent`: each file that a text was written to can be cited, with the last one. |
| `ChangelogMC` | two collects, and a journal from models that may answer anything | `IndexIsTrue`: a cache entry is never about something else. `JournalSeesWhatWasPicked`: the journal is of no older version than the chooser showed. `JournalIsGrounded`: dates and evidence are real. |

The code cannot keep every promise through every failure. Most properties therefore name
the mishaps after which they need not hold; each name is needed: without it TLC
finds a counterexample (some with larger bounds than the run's), and with it the sentence of the source the property comes from
is contradicted. What those counterexamples are:

* StateLock, `publish.py:32-33` ("so the loser waits instead of overwriting"; `MutualExclusion`):
  a publisher dies holding the lock; two others measure its
  file as stale; one unlinks and creates its own; the other unlinks that one. Or nobody dies: a
  holder's upload is retried for longer than `LOCK_STALE_SECONDS`, and its file is broken as stale, which
  it is. The holder goes on, and when it leaves it unlinks the file of the one that came after it.
* Publish, `publish.py:193` ("True when this session has bytes in the store to protect"; `CheckpointIsTrue`):
  a 409 makes the run delete the session; it is killed before
  it saves the reset state. The next run registers the session again and resumes
  behind bytes the store no longer has.
* The same property, found when the reads of `reconcile` were told apart: a chunk of a run that was
  killed before its checkpoint is in the store, and the state file is lost. The next run compares that chunk with the file,
  finds it equal, and before it takes the digest (`publish.py:877`) the editor rewrites the file. The
  digest is of the new bytes: this and every later run finds the state file true, and the store keeps the
  old bytes for ever. `reread` in `CheckpointUnlessAbandoned`; `CatchesUp` fails of the same story.
* `publish.py:578-582` ("R1 makes it unreachable"; `AddressSealedOnce`): verified once, the file is read
  again when a chunk is sent, and other bytes are sealed under the same key and nonce.
* `publish.py:25-29` ("Every recovery here is automatic"; `NeverRefused`): a tombstone reports generation 0
  and enforces the old one. A publish after `unpublish` and `share on` is refused with 400.
* `cli.py:623-625` ("nothing from before now is sent"; `NothingFromBefore`): a chunk is stored and the run
  ends before the checkpoint. The
  state file does not know of it, so `share off` and `share on` record a new watermark,
  which `reconcile` lowers to where that chunk starts.
* `publish.py:1044-1045` ("splice a stale tail"; `NoStaleTail`): a rewrite that leaves nothing above the
  watermark plans nothing, and the old text stays in the store.
* `NewGenerationIsNew` (`publish.py:694-696`): an interrupted recovery mints a
  generation twice, for the tombstone answers 0. `StoreDecrypts`
  (`publish.py:1056-1057`): an unsaved chunk stays under a newer generation.
  `NoPlaintextBeside` (`publish.py:1006-1010`): an unsaved plaintext chunk is not
  published in the state file's eyes, so there is nothing to migrate.
* The proofs found two more, which `PublishMC` and `PublishLive` do not reach. `plan_chunks` verifies
  the file again (`publish.py:459`): when it was rewritten since `_verify_published`, the
  plan starts over without a deletion. With longer transcripts and two rewrites such a plan meets a 409 at
  a later chunk, the recovery adopts the chunks that still match, and the second rewrite makes
  `_setup_cipher` mint a generation beside them: `rewritten` in `StoreDecryptsUnlessUnsaved`
  (`MaxLength = 5`, `MaxEpoch = 3`, no trouble). And a migration that is killed after its deletion, on a
  machine that goes back to plaintext, resumes behind an empty store; a plan of a later
  run that starts over sends in front of that: `abandoned` in `OneRunUnlessUnsaved` (the bounds of
  `PublishLive`). TLC finds both once the name is taken out.
* Pull, `NothingSkipped`, `index.ts:1095-1098` ("skipping one loses it forever"): an upload
  reads the time (795), another session is written later and pulled, and the
  upload then claims its range and writes the older time (835): the cursor has
  passed it. And `--allow-legacy` is not part of the cursor's scope, although
  `pull.py:134-135` says a cursor "is only true of the filter that produced it".
* `PinKept`, `pull.py:572-574`: a pull that finds no chunk records an empty pin
  (771-772), so a store that later shows the session as plaintext is believed
  as long as this caller has no wrap.
* `Resumes`, `pull.py:815-817` ("the state is stale and the file is still correct"):
  a killed pull's file of a new generation is compared with the record of the
  old one and fetched again. And a session that grew between the
  listing and its chunk list trips the size alarm (897), whose pull does not record what it
  appended.
* Pull, `MirrorIsOneDocument`, `pull.py:816-818` ("the state is stale and the file is still
  correct"), found by the proof: the record of a session that begins at byte 0 is saved; the session starts
  over from another watermark, and a pull that fetches it dies, or sounds the size alarm, before it saves;
  the session starts over from the first watermark. `_stale_reason` (345-371) compares the record with the
  listing, which agree, and believes a file that begins elsewhere: what comes next is spliced to it. TLC
  finds it with two deletions (`Schemes {"plain"}`, `MaxLength 3`, `MaxDeletes 2`, `MaxTroubles 1`, four
  minutes) once `Misplaced` is taken out; `PullMC` has one deletion. `NothingSkipped` and `CatchesUp`
  fail of the same story.
* Pull's `CatchesUp` needs a page as long as the number of sessions: with `Page = 1` a
  session that cannot be opened holds the cursor and hides the next.
  `SESSION_PAGE` is 1000.
* Consent: `share on` sets the marker before the watermark, and a publish in between sends
  everything; `unpublish` between two chunks of a run is followed by that run's next
  registration and save; a policy file that is edited while its text is on the
  screen is accepted as edited; an acknowledged outer policy sends to the store that
  an inner `.ez` names; a state file about one store is believed of the next: what `unpublish`
  removed there counts as published here, and (found by the proof, with two publishers) the
  store may change hands between a publisher's configuration and its turn at the lock. And
  `share on` says that `ezup sync` shares the earlier part (`cli.py:697`), which the watermark
  prevents.
* Hook: the publish of SessionEnd waits `LockWait` behind a slow upload and gives
  up; what was written since is in no later run (`hook_entry.py:189-191`).
* Settings: `uninstall` removes a group with the user's command in it (`hooks.py:164`, "and
  nothing else"), and both commands write back a file the editor has changed since.
* LocalDir: two publishers of different sessions write one index; an unreadable
  index counts as empty and is then written; a superseded chunk of another length keeps its
  file, and a deleted session thus keeps bytes after a run that was not saved.
* Worker, `RowsHaveBodies`: two uploads of one range put their objects under one key before
  either has claimed it; the second's bytes fail its sha256, and `forget` removes the object
  that the first has claimed meanwhile, although `index.ts:770-771` says of it "no chunks row can
  ever point at" and 787-788 "no chunks row points at it". Or the second loses the claim, and its bytes stay under the
  winner's row. `index.ts:1182-1183` ("the bytes at this URL never change") fails the same way.
* Worker, `DeletedLeavesNothing`: a claim does not look at `deleted_at`, so an upload that
  began before a delete claims its range after it, and "the old chunks are already gone" (`index.ts:580`) when
  the session is shared again is not true.
* Worker, `StoredIsAnnounced`: an upload ends between its claim and the row's size; the retry takes the
  fast path (`index.ts:751`) and never sets it, against `schema.sql:33-35`.
* Distill: when a subagent's entry is the last, every other turn is labelled abandoned;
  two edits in one entry share an id; a rewound file edit is still offered as the
  latest; a file that only lost lines, or that `MultiEdit` changed, has no row, or keeps that of an
  earlier edit, although `distill.py:393` says "one row per changed file"; a rewound prompt without work hangs off the trunk and stays, although `distill.py:375`
  calls it a typo (`RewoundPromptDropped`).
* Changelog: a refreshed scan is newer than a copy that is skipped (`collect.py:417`); two
  collects leave the older copy under the newer signature; a journal entry without a beat
  keeps the date the model wrote (`pipeline.py:216`), and references of the compose
  reply survive when LINK adds none (`pipeline.py:266`).

One run ends in a violation, with a finding in `PROJECT.json`. `SyncStale`: a collect
copies a transcript; the editor writes on, and the hook publishes it; `ezup sync`
publishes the copy, which is older than what is published and replaces it.

`OneRunUnlessUnsaved` (contiguity, see `tests/test_publish.py:137`) is what a puller
relies on; when it breaks, `pull.py` refuses the session
(`tests/test_roundtrip.py:179-194`) and does not splice.

### Bounds

* `StateLock`: `LockWait 1 < LockStale 2`: a caller gives up before
  the file is stale, as with 20 s and 300 s (`publish.py:77-78`). Three publishers are a dead one and the two that race for its
  file. `MaxDeaths` is 2 so that the one that replaced the dead one may die too. `breaks` is counted to
  2 (`MaxBreaks`): after the second, three publishers may all hold the lock.
* `Publish`: `MaxLength 3` and `MaxChunk 2` give plans of none, one and two chunks, a
  full and a short one; `PrefixBytes 1` is less than a chunk, as 64 KiB is;
  `MaxRecoveries 2` is the code's. `MaxEpoch 2` is one rewrite, to any head and tail
  that fit; `MaxTroubles 2` lets one trouble meet the aftermath of another, as in
  every story above. With mixed modes or liveness it is 1, for the sake of the
  state space. Eight keys suffice: no run reaches a state in which a key is
  needed and none is left, since deadlock is checked there and a run without a
  key would be stuck. `PublishLive` has both modes, so that a migration, its refusal and
  its end are among what liveness is about.
* `Pull`: `PullMC` has one session of up to two bytes, which is two chunks or one, a
  document and its successor that differ in all, in the tail or not at all, and
  two troubles, so that a pull can die and the next one fail; the clock does not
  matter there (`MaxTime 1`), since every listing begins at the cursor. In `PullCursor`
  the clock is what matters: two sessions, two times, one chunk each, one
  session that this caller cannot open. Deletions are left to `PullMC`.
* `Consent`: two directories with two stores and the default one are the least in which nearest,
  strictest and acknowledged differ; two bytes are one before and one after a
  watermark; one publisher at a time and the lockfile of a dead one, since two are the lock's business; three events (commands,
  commits to a policy, deaths) put any two in one another's way with a third behind them.
* `Hook`: one tick of debounce and one of waiting; `MaxPublishers 3` is two behind an
  upload; three turns are one published, one debounced and one at the end. The user
  edits one event's groups, since no event looks at another's.
* `LocalDir`: one session that is rewritten and one that only grows; the first has an
  unpublish; two bytes in one chunk or two, two versions.
* `Worker`: three requests are two that meet and one that comes between; five in all are two
  uploads, a delete and a retry or a grant of each; three ranges are two that begin alike and one
  behind; two contents, two authors (a renamed machine), one reader, one generation (the order of
  generations is in `Publish`), one failure. Deadlock is not checked, for the requests run out.
* `Distill`: seven entries are a prompt, work, a rewind, work, a subagent and their
  results; two files; assistant entries that call up to two tools; the limits of goals and
  rows are above what seven entries make, and the two properties except them.
* `Changelog`: one transcript of the editor and one pulled, two versions each, of any of two
  days, one of which has no tool call in one of them; two overlapping runs; one removal, rewriting that
  takes a day out, lost index, refresh or death; one beat per brief, one commit.
* `SyncStale`: one transcript of the editor, two versions, the second a day longer; two
  runs of collect one after the other, and no trouble at all: plain use is enough.
* Bounds named `Max...` are conjuncts of the
  environment's actions and of the start of a run or command; no later step of the program has a bound in its guard.

### Fairness

`StateLock`: a process that is not killed keeps running, time passes, a holder leaves
in the end (uploads are finite and requests time out), and new publishes are
started. `Publish`: `WF(RunStep)`, a run that is not ended goes on; `WF(Begin)`, there is
another publish after each one. The hook starts one at every stop of
the session and `ezup sync` does by hand; that someone does so after the last edit is an
assumption, which `Hook` examines: `TailReachesStore` says when the hook keeps it. Nothing is assumed of the editor, the user or troubles.
`Pull`: an upload the Worker has begun ends, a pull goes on, and there is another one
after it, with and without `--allow-legacy` where both are configured. Publishers promise
nothing.
`Hook`: hooks that were fired run to their end, time passes, a publish goes on, gives up or
fails; nothing makes turns, ends of sessions, edits of the settings or
changes of consent happen. The other modules have safety properties only.
`CatchesUp` of `Publish` assumes `Settles`: from some time on the machine's configuration stays
one of the two, and not plaintext while the session is an encrypted one, whose every
plaintext run is refused (`publish.py` does not downgrade).

## 5. What is proved

`tlapm` checks the eight proof modules with no obligation left. The assumptions are
`LockConstants`, `PublishConstants`, `LocalDirConstants`, `WorkerConstants`, `CollectConstants`,
`PullConstants`, `PolicyConstants`, `ConsentConstants`, `HolderNames`, `SettingsConstants` and
`HookConstants`: sets and naturals, a debounce that is not 0, and names that
differ. `TypeOK` of `StateLock`, `Publish`, `LocalDir`, `Worker` and `Hook` is a theorem and not in
a run. Every inductive invariant was checked by TLC on the constants of the run before it was proved.

* `StateLockProofs`: `TypeCorrect`; `HolderOwnsFileAlways`; `OneMorePerBreakAlways`;
  `ExclusiveUntilBroken` (`MutualExclusion` while `breaks` is 0). Nothing is assumed of how long a holder
  is silent. Mutual exclusion is not inductive. What is (`LockInv`): before the first break a holder's file
  is as old as its own clock, and the holders that have no file, the `Displaced`, are no more than the breaks.
  A break displaces one. A displaced holder that leaves unlinks the file of another, and so displaces
  that one, but is one less itself; a new holder has the file. All holders but the owner of the
  file are displaced, so there are at most `1 + breaks`.
* `PublishProofs`: `TypeCorrect`, `ConsentAlways`, and seven theorems about the store.
  * `TypeInv` is `TypeOK` with `PlanInv` (while a run is to send there is a chunk
    in its plan) and
    `KeyInv` (an encrypted run that gets past `Verify` works under a key that
    opens). Without them `Head(plan)` and `Seal(state.dk, ...)` have no type.
  * `ConsentInv`, kept as long as none of `lost`, `crossed`, `unsaved` happened:
    the state file's watermark is the mark unless something is published, and is
    never below it; the run's copy neither; every chunk of the plan starts at or above
    the mark, and so does every chunk in the store; and every chunk in the store
    is one the state file knows of, or the run in progress has just stored. The last is why
    `reconcile` cannot lower the watermark: with nothing published there is
    nothing in the store to adopt. It is also what `unsaved` breaks.
  * Everything the publisher knows of the file is bytes it once read, and the file moves under
    it. What makes such knowledge usable is that a rewrite writes bytes of a new epoch: bytes
    at a place are still there, or one of them is of an earlier epoch than now and not there, and then it never will be
    again (`Settled`: `Fits` or `Broken`). A state whose digest is broken is `Doomed`: no run
    will resume from it. What a reconciliation has read so
    far goes with the store (`LookInv`), which nobody changes under it but a command of the user; and every byte it
    found equal is in a chunk and in the file, unless that was rewritten there since (`LookHeld`).
  * `BytesInv`: all digests, chunks and what was just read are `Settled`; a plan is a row
    of pieces one behind the other, above the watermark, and no gap before the first
    (`PlanKnown`); and `WithinSize`, that nothing a run resumes from ends past the size it took.
  * `RowInv`: how the row in the store and the publisher's state say the same of mode and
    generation at each step of a run.
  * For `NewGenerationAlways`, `NeverRefusedAlways`, `AddressAlways` and `StoreDecryptsAlways`:
    `GenInv`, kept until a tombstone hides a generation: a key that opens is of a state
    that is doomed or whose generation the store has not passed.
  * `CalmInv`, kept until a chunk is not saved, the file is rewritten under a run, or the state
    file is lost or crossed: there is then no conflict (`CalmRun`), all that is in the store and all that was
    sealed under the key in use lies before the next offset (`ChunksBelow`, `SealedBelow`),
    and the wrap is of that key (`WrapFits`). A run that mints a key starts over, and no
    later run resumes from what it leaves behind.
  * For `CheckpointAlways`, `OneRunAlways` and `NoPlaintextAlways`: `PlainInv`: a run that
    encrypts finds plaintext only where its state knows of it, and then deletes before it registers.
  * `StoreInv`: at every step of a run the state it would resume from, in memory or in the
    file, is in the store byte by byte, or is one that no run resumes from (`Excused`), or the session is
    between deletion and replacement, or was adopted under a rewrite (`reread`); and what a run is about to delete nobody will resume from.
    Transcripts may be rewritten at any step of it.
  * `EdgesInv`: the chunks are `Tiled`, and where a run resumes, plans or sends is an `Edge` of
    them. A chunk that begins at an edge where none begins comes after them all.

* `LocalDirProofs`: `TypeCorrect`; `IndexIsStore`, the refinement of `SessionStore` for
  any number of sessions, writers and edits; `EntriesHaveFilesAlways`,
  `PublishedIsIndexedAlways`, `DeleteLeavesNothingAlways`.
  * `TypeInv` is `TypeOK` with `JobOK`: what goes with each step of an operation. A session
    is only deleted if the copy of the index knows it, a run that puts has a chunk.
  * `PastInv`: the index is among the rows of its history, and each of those is `Sound`: of a
    known session, with one chunk at an offset. `CopyInv`: what a writer will write back are
    rows the sessions once had, and those of now unless somebody wrote meanwhile (`stale`) or an
    index could not be read.
  * So `Save` is an operation on the rows of now, or an interfering one on rows that were. An
    index taken for empty is a step of the contract that changes no row, because some operation leaves each sound row as
    it is (`SoundIsResult`).
  * `AloneInv`: as long as nothing crossed, one writer at a time is at work on a session, on the
    document there is. `FilesInv`: a chunk has its file, a delete is removing it, or an upload
    has replaced it and is about to write its index. `SavedInv`: what was saved is covered by
    chunks, and a run builds on what was saved. `AccountInv`: a file belongs to a chunk or an upload under
    way, and a run has all chunks below its own, so that a delete finds every file.
* `WorkerProofs`: `TypeCorrect`, `RowsHaveBodiesAlways`, `DeletedLeavesNothingAlways`,
  `RevokedGetsNothingNewAlways`, `StoredIsAnnouncedAlways`, for any number of requests, ranges,
  contents and readers.
  * `RowsHaveBodies` is kept by four facts together: a row is at the offset of its key; what
    an upload is about to discard is named by no row; under every row's key are its bytes, except in a
    delete's last step; and an upload about to claim has put its bytes under its key. The
    first two make `Discard` harmless; the third and fourth are what `disputed` and `swept` break.
  * `RevokedGetsNothingNew`: a grant past its check gives only to readers that are active.
  * `DeletedLeavesNothing` needs the most: every object belongs to a row or an upload under way;
    a delete has listed all rows and then removed all their objects; an upload that lost has a winner. Each while nothing
    `crossed`, and `TombstoneIsEmpty` follows.
  * `StoredIsAnnounced` (`AInv`): a row counts in the size or the upload of its range is about to
    touch it (`RowsCount`); the size is 0 or where some row ends (`SizeIsOfRow`); who touches has its
    row (`TouchersHaveRows`); and a listing that is due has somebody to make it (`ListingIsDue`).
* `ChangelogProofs`: `IndexIsTrueAlways`, `JournalSeesWhatWasPickedAlways`, `JournalIsGroundedAlways`,
  for any transcripts, versions, runs and replies.
  * `IndexInv` is one order of versions, whatever they say: ingested <= signature <= facts <= the last one
    written, in the index and in every run's copy of it. So an entry with the signature of now is about now.
  * `CopyInv`, while at most one run has the index in hand: a copy is as new as what it was ingested under,
    and of what a run still has to copy and has copied. Told to ignore the index, a run
    picks more than an ingested copy holds: that is `refresh`.
  * `JobInv`: what is read lies between what was picked and the last version written, and every
    entry from `link` on is made of ids, days and commits of that (`Grounded`). An entry's date is the
    greatest of some days, so a finite set of naturals must have one (`FiniteHasGreatest`, by the least
    cardinality of a set without).

* `PullProofs`: `TypeCorrect`, `MirrorAlways`, `SkippedAlways`, `PinAlways`, `ResumesAlways`, for any
  sessions, page length, lengths and numbers of deletions and troubles.
  * `Basics`: types; `SessionRules`, what registering, uploading and deleting leave of a session; and
    `RunRules`, what a pull has in hand at each step.
  * `PinRules`: the record never loses the pin, and a key resolved is no older than the record says.
  * `AllStored`: the chunks of a session tile its document from its watermark on, so that what is
    listed of it is of one document.
  * `DataRules`: what the mirror, the record, the listing and the blob being written say of one another.
    The idea is `NoNewer`: the bytes of a listing are no older than those of the mirror and the record, and
    no newer than the transcript's. So what agrees at the edge agrees below it. `Misplaced` is where a
    record no longer says where its file begins.
  * `SkipRules`: a session the mirror is behind is `Later` than the cursor, `Listed` in the page in hand, or
    `HeldBack` by a session that failed before it.
* `ConsentProofs`: `TypeCorrect`, `ConsentAlways`, `UnanimityAlways`, `UnpublishAlways`,
  `DestinationAlways`, `NothingMissingAlways`, for any tree of directories, stores, publishers and events.
  * `UnanimityAlways` is about the operators of `SharePolicy`: that a chain has a strictest policy, and the
    nearest of several, is once more that a set of naturals has a least element.
  * `Basics`: types; `RunHasItsArguments` and `CommandHasItsArguments`, what was decided, resolved and
    printed by each step; `WithinTranscript`, that no watermark or offset is past the end.
  * `StaysUnpublished`: from the deletion on the stores are empty and nobody has the lock; once the marker
    says so nobody is past the decision either.
    `StateIsInAStore`: what the state file calls published is in some store. `FloorIsKept`: unless it was
    misled, every run and the state file resume at or above the watermark of the last agreement.
* `HookProofs`: `TypeCorrect`, `NoPileUpAlways`, `TheirsSurviveAlways`, for any debounce, waits, events,
  turns and lists of groups.
  * `NoPileUp` is not inductive: nothing in a count says that the next publish will be late enough.
    What is, unless two hooks overlapped (`InTurn`): one hook at a time is past its look at the mark
    (`OneGoes`); the mark is young until the publish waits (`MarkIsYoung`); at most one publish of Stop has
    started (`OneStarts`); those that wait are `Debounce` apart and the mark is no older than any
    (`WaitsApart`); and the next is `Debounce` behind them all (`NextIsApart`). Their waits then have
    different quotients by `Debounce`, an injection into `0 .. LockWait \div Debounce`.
  * `TheirsSurvive` needs no more than types, but lemmas on `Select`, a recursive function: that a list with
    one more group is selected from as expected (`SelectAppend`), and that a second selection changes
    nothing (`SelectTwice`). That the function exists, and each of these, is shown for the
    least length at which it would fail.

Model-checked only, and why:

* Liveness under fairness (`OrphanIsBroken`, both `CatchesUp`, `TailReachesStore`), which is
  outside what the installed provers do.
* `LanesTellTheTruth` and `CandidatesAreCurrent` of `Distill`: recursive functions over a tree and over
  sequences of sequences. What they compute for every input would be an induction over
  data, and the library's induction theorems take an operator as a parameter, which no prover here can instantiate. A
  non-empty set of naturals has a least element, and that does instead where a function is simple
  (`Select` in `HookProofs`, the greatest of a set in `ChangelogProofs`);
  for flattening, climbing and ancestry together it has not been done.

## 6. What is left out, and why

* In `Publish`: a chunk's row start_offset (only pullers read it); previews,
  reports and secret warnings; dry runs; the tripwire of `_Cipher`, which
  remembers what one `_Cipher` sealed and is made anew by each recovery, so it
  never fires in any behaviour of the model; `unpublish`'s three steps are one,
  and so are `share on`'s two: the separate steps are in `Consent`.
* In `Pull`: one scope of the cursor (no `--since`, authors or keyring; a listing
  is of the sessions this caller may see); transports without keys; malformed
  rows and digests that do not match what they name; overlapping ranges, which
  the Worker's primary key and a single publisher exclude; a live session whose generation is raised
  over the chunks it has (`index.ts:606` takes the one given), which takes the mishaps of
  `StoreDecryptsUnlessUnsaved`; a publisher that goes back to plaintext, which `publish.py` refuses; two uploads of one session at a time.
  A delete is one step: between its two halves a blob is missing, which is a
  `RequestFails`.
* In `Consent`: encryption, rewrites and the 409 recovery (they are `Publish`); previews and
  `--dry-run`; more than one session per command, which `cmd_sync` handles one after the other.
* In `Collect`: a rewriting in the middle of one scan or copy, and a file that is written
  and gets an earlier size and time again.
* In `Hook`: what the status line and the announcement print. (The announcement names
  `store_url(decision)`, while the publish asks `load_config`, see `nested`.)
* In `LocalDir`: digests. The directory never answers 409 and checks no sha.
* In `Distill`: clipping, previews and timestamps; an excerpt id's first eight characters of
  the session are taken to tell the sessions of a run apart.
* In `Changelog`: costs, retries inside a provider (a provider ends in a reply or an error; the HTTP one takes a
  stream that ends without `[DONE]` as whole), rendering, and two runs within one second,
  which would share a `journal_id` (`pipeline.py:298`).
* In `Worker`: the handlers that only read, whose statements change nothing (`Pull` has what they
  answer); parsing, limits and the check of the token; encryption and generations of the
  session, which are in `Publish`; requests of other devices, which the first statement refuses; the
  viewer's cache. `Publish` and `Pull` keep their atomic handlers: `Worker` says when that is true.
* Everything `PROJECT.json` lists as `not_modelled`: planned in section 2, or
  presentation, packaging and deployment, which keep no protocol state.
