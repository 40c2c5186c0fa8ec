--------------------------------- MODULE Hook ---------------------------------
(***************************************************************************)
(* What starts the publishes of one session: ezchangelog/hook_entry.py.    *)
(*                                                                         *)
(* The editor fires events; each hook that is wired up, by the settings    *)
(* file (Settings) and by the plugin, is a process of its own that decides *)
(* whether to start a background publish.  Publishes of the session take   *)
(* turns through the lock (StateLock) and give up after LockWait.          *)
(***************************************************************************)
EXTENDS Settings, FiniteSets

CONSTANTS
    Debounce,           \* DEBOUNCE_SECONDS
    LockWait,           \* LOCK_WAIT
    MaxPublishers,      \* bound: publishes at a time, see Fire
    MaxLength,          \* bound: turns of the session
    MaxTroubles         \* bound: failures and changes of consent

ASSUME HookConstants ==
    /\ Debounce \in Nat \ {0} /\ LockWait \in Nat /\ MaxPublishers \in Nat
    /\ MaxLength \in Nat /\ MaxTroubles \in Nat

VARIABLES
    plugin,             \* is the plugin installed (hooks.json wires every event)
    session,            \* "running" or "ended"
    length, published,  \* bytes in the transcript, and of them in the store
    sharing,            \* what share.resolve answers
    hook,               \* per source of hooks: its process
    markAge, stateAge,  \* how long ago <session>.spawn and the state were written
    starting,           \* background publishes: how many have just started,
    waiting,            \* how many wait for the lock, and for how long,
    upload,             \* and the one that has it
    troubles,           \* how many troubles so far
    mishaps             \* history, see below

hookVars == <<plugin, session, length, published, sharing, hook, markAge, stateAge,
              starting, waiting, upload, troubles, mishaps>>
vars == <<settingsVars, hookVars>>

Sources == {"settings", "plugin"}
PublishEvents == {"Stop", "SessionEnd", "SubagentStop"}     \* PUBLISH_EVENTS

(*   "overlap"  two hooks looked before either had left its mark             *)
(*   "busy"     a publish gave up on the lock                                *)
(*   "failed"   a publish failed or was killed                               *)
(*   "killed"   the session ended without SessionEnd                         *)
(*   "unwired"  SessionEnd found no hook                                     *)
(*   "off"      sharing was off when a hook or a publish looked              *)
Mishaps == {"overlap", "busy", "failed", "killed", "unwired", "off"}

Never == Debounce + 1   \* an age: the file is not there, or older than matters
NoHook == [pc |-> "idle", event |-> "Stop"]

(* A publish is final when SessionEnd started it.  *)
Waits == [final : BOOLEAN, wait : 0 .. LockWait]
NoUpload == [on |-> FALSE, to |-> 0]
publishes == <<starting, waiting, upload>>

TypeOK ==
    /\ SettingsTypeOK
    /\ plugin \in BOOLEAN /\ session \in {"running", "ended"}
    /\ length \in 0 .. MaxLength /\ published \in 0 .. length /\ sharing \in BOOLEAN
    /\ hook \in [Sources -> [pc : {"idle", "look", "mark", "spawn"}, event : Events]]
    /\ markAge \in 0 .. Never /\ stateAge \in 0 .. Never
    /\ starting \in [BOOLEAN -> Nat] /\ waiting \in [Waits -> Nat]
    /\ upload \in [on : BOOLEAN, to : 0 .. length]
    /\ troubles \in 0 .. MaxTroubles /\ mishaps \subseteq Mishaps

Init ==
    /\ SettingsInit
    /\ plugin \in BOOLEAN
    /\ session = "running" /\ length = 0 /\ published = 0 /\ sharing \in BOOLEAN
    /\ hook = [s \in Sources |-> NoHook]
    /\ markAge = Never /\ stateAge = Never
    /\ starting = [final \in BOOLEAN |-> 0] /\ waiting = [w \in Waits |-> 0]
    /\ upload = NoUpload
    /\ troubles = 0 /\ mishaps = {}

Suffers(condition, name) == mishaps' = IF condition THEN mishaps \cup {name} ELSE mishaps
Trouble == troubles < MaxTroubles /\ troubles' = troubles + 1

(* Publishes that were started and have not had the lock; `Queue` numbers    *)
(* those that have waited equally long.                                      *)
Queue(final) == UNION {{w} \X (1 .. waiting[w]) : w \in {v \in Waits : v.final = final}}
Count(final) == starting[final] + Cardinality(Queue(final))
Publishes == Count(TRUE) + Count(FALSE) + (IF upload.on THEN 1 ELSE 0)
Hooking == {s \in Sources : hook[s].pc # "idle"}

-----------------------------------------------------------------------------
(* The editor                                                               *)

(* The plugin wires all three events; the settings what they say now.  The   *)
(* editor waits for its hooks before it fires again.  Bound: there is room   *)
(* for the publishes that the hooks may start.                               *)
Fire(event) ==
    LET starts == (IF Wired(event) THEN {"settings"} ELSE {})
                  \cup (IF plugin THEN {"plugin"} ELSE {})
    IN  /\ Hooking = {}
        /\ Publishes + Cardinality(starts) <= MaxPublishers
        /\ hook' = [s \in Sources |-> IF s \in starts THEN [pc |-> "look", event |-> event]
                                                      ELSE NoHook]
        /\ Suffers(event = "SessionEnd" /\ starts = {}, "unwired")

(* A turn: the transcript grows and Stop fires. *)
Turn ==
    /\ session = "running" /\ length < MaxLength
    /\ length' = length + 1
    /\ Fire("Stop")
    /\ UNCHANGED <<settingsVars, plugin, session, published, sharing, markAge, stateAge, publishes, troubles>>

(* The session ends, and says so with the last thing it wrote, *)
EndSession ==
    /\ session = "running"
    /\ session' = "ended"
    /\ length' \in {length, length + 1} \cap 0 .. MaxLength
    /\ Fire("SessionEnd")
    /\ UNCHANGED <<settingsVars, plugin, published, sharing, markAge, stateAge, publishes, troubles>>

(* or is killed. *)
KillSession ==
    /\ session = "running"
    /\ Trouble
    /\ session' = "ended"
    /\ Suffers(TRUE, "killed")
    /\ UNCHANGED <<settingsVars, plugin, length, published, sharing, hook, markAge, stateAge, publishes>>

-----------------------------------------------------------------------------
(* The hook                                                                 *)

Aside == <<settingsVars, plugin, session, length, published, sharing>>

(* Wrong versions of Skips: SessionEnd waits its turn; only finished         *)
(* publishes count.                                                          *)
SkipsAll(event) == markAge < Debounce \/ stateAge < Debounce
SkipsAfterSave(event) == event # "SessionEnd" /\ stateAge < Debounce

(* _recently_published, which SessionEnd does not ask. *)
Skips(event) == event # "SessionEnd" /\ (markAge < Debounce \/ stateAge < Debounce)

(* run: resolve, and leave when not sharing, when the event publishes nothing*)
(* or when a publish was started or has saved a moment ago.                  *)
Look(s) ==
    LET event == hook[s].event
        goes == sharing /\ event \in PublishEvents /\ ~Skips(event)
    IN  /\ hook[s].pc = "look"
        /\ hook' = [hook EXCEPT ![s] = IF goes THEN [@ EXCEPT !.pc = "mark"] ELSE NoHook]
        /\ mishaps' = mishaps
             \cup (IF ~sharing THEN {"off"} ELSE {})
             \cup (IF goes /\ \E t \in Sources : hook[t].pc \in {"mark", "spawn"}
                     THEN {"overlap"} ELSE {})
        /\ UNCHANGED <<Aside, markAge, stateAge, publishes, troubles>>

(* _spawn_publish: the marker, then the process. *)
Mark(s) ==
    /\ hook[s].pc = "mark"
    /\ hook' = [hook EXCEPT ![s].pc = "spawn"]
    /\ markAge' = 0
    /\ UNCHANGED <<Aside, stateAge, publishes, troubles, mishaps>>

Spawn(s) ==
    /\ hook[s].pc = "spawn"
    /\ hook' = [hook EXCEPT ![s] = NoHook]
    /\ starting' = [starting EXCEPT ![hook[s].event = "SessionEnd"] = @ + 1]
    /\ UNCHANGED <<Aside, markAge, stateAge, waiting, upload, troubles, mishaps>>

-----------------------------------------------------------------------------
(* A background publish                                                     *)

(* cmd_publish asks for consent again. *)
Begin(final) ==
    /\ starting[final] > 0
    /\ starting' = [starting EXCEPT ![final] = @ - 1]
    /\ waiting' = IF sharing THEN [waiting EXCEPT ![[final |-> final, wait |-> 0]] = @ + 1]
                              ELSE waiting
    /\ Suffers(~sharing, "off")
    /\ UNCHANGED <<Aside, hook, markAge, stateAge, upload, troubles>>

Leaves(w) == waiting[w] > 0 /\ waiting' = [waiting EXCEPT ![w] = @ - 1]

(* The lock, and the stat that says how far this publish goes. *)
TakeLock(w) ==
    /\ ~upload.on
    /\ Leaves(w)
    /\ upload' = [on |-> TRUE, to |-> length]
    /\ UNCHANGED <<Aside, hook, markAge, stateAge, starting, troubles, mishaps>>

(* PublishBusy: another publish has the lock and LockWait is over. *)
GiveUp(w) ==
    /\ upload.on /\ w.wait = LockWait
    /\ Leaves(w)
    /\ Suffers(w.final, "busy")
    /\ UNCHANGED <<Aside, hook, markAge, stateAge, starting, upload, troubles>>

(* The upload ends; with nothing to send the state file is not written. *)
Upload ==
    /\ upload.on
    /\ IF published < upload.to
         THEN published' = upload.to /\ stateAge' = 0
         ELSE UNCHANGED <<published, stateAge>>
    /\ upload' = NoUpload
    /\ UNCHANGED <<settingsVars, plugin, session, length, sharing, hook, markAge,
                   starting, waiting, troubles, mishaps>>

(* A publish fails or is killed before its upload is over. *)
Fail ==
    /\ Trouble
    /\ \/ /\ upload.on /\ upload' = NoUpload
          /\ UNCHANGED waiting
       \/ /\ \E w \in Waits : Leaves(w)
          /\ UNCHANGED upload
    /\ Suffers(TRUE, "failed")
    /\ UNCHANGED <<Aside, hook, markAge, stateAge, starting>>

-----------------------------------------------------------------------------
(* Time and the user                                                        *)

Older(age) == IF age = Never THEN Never ELSE age + 1

(* Time passes.  A hook is done, and a process has started, within a tick;   *)
(* who has waited long enough gives up.                                      *)
Tick ==
    /\ Hooking = {}
    /\ \A final \in BOOLEAN : starting[final] = 0
    /\ \A w \in Waits : waiting[w] > 0 => upload.on /\ w.wait < LockWait
    /\ markAge' = Older(markAge) /\ stateAge' = Older(stateAge)
    /\ waiting' = [w \in Waits |-> IF w.wait = 0 THEN 0
                                   ELSE waiting[[w EXCEPT !.wait = @ - 1]]]
    /\ UNCHANGED <<Aside, hook, starting, upload, troubles, mishaps>>

(* `share on` and `share off`. *)
Toggle ==
    /\ Trouble
    /\ sharing' = ~sharing
    /\ UNCHANGED <<settingsVars, plugin, session, length, published, hook, markAge,
                   stateAge, publishes, mishaps>>

(* The settings file changes.  Only Fire reads it, so that it changes between*)
(* publishes says as much as that it changes at any time.                    *)
Wires ==
    /\ Hooking = {} /\ Publishes = 0
    /\ SettingsNext
    /\ UNCHANGED hookVars

HookStep(s) == Look(s) \/ Mark(s) \/ Spawn(s)
PublishStep ==
    \/ \E final \in BOOLEAN : Begin(final)
    \/ \E w \in Waits : TakeLock(w) \/ GiveUp(w)
    \/ Upload

Next ==
    \/ Turn \/ EndSession
    \/ KillSession
    \/ \E s \in Sources : HookStep(s)
    \/ PublishStep \/ Fail
    \/ Tick \/ Toggle \/ Wires

(* A process that was started runs, uploads end and time goes on.  Nobody    *)
(* has to take a turn, or to end the session.                                *)
Fairness ==
    /\ \A s \in Sources : WF_vars(HookStep(s))
    /\ WF_vars(PublishStep)
    /\ WF_vars(Tick)

Spec == Init /\ [][Next]_vars /\ Fairness

-----------------------------------------------------------------------------
(* Properties                                                               *)

(* Stop events do not stack up processes (hook_entry.py:88): however long an *)
(* upload takes, those that wait behind it are at most one for each Debounce *)
(* in LockWait, and the next.                                                *)
NoPileUp ==
    \/ Count(FALSE) <= (LockWait \div Debounce) + 1
    \/ "overlap" \in mishaps

(* The last thing a shared session wrote reaches the store, although Stop is *)
(* debounced (hook_entry.py:189-191, "strand ... forever"): unless a publish *)
(* of SessionEnd found the lock held for LockWait, or something failed.      *)
TailReachesStore ==
    <>[](session = "ended" =>
           \/ published = length
           \/ mishaps \cap {"busy", "failed", "killed", "unwired", "off"} # {})
=============================================================================
