------------------------------- MODULE Consent -------------------------------
(***************************************************************************)
(* Consent for one session: the commands `ezup share on | off | clear |    *)
(* ack`, `unpublish` and `sync` of ezchangelog/cli.py beside publishers of  *)
(* that session, with the files they share and do not lock together.       *)
(*                                                                         *)
(* A command is one process of the user; publishers are started by the     *)
(* hook, by hand or by `sync`.  Each read and each write of a file, and    *)
(* each request to a store, is a step.  The publisher is what Publish      *)
(* makes of it when the transcript only grows: one byte is one chunk.      *)
(***************************************************************************)
EXTENDS SharePolicy

CONSTANTS
    Publishers,
    Machines,           \* stores this machine may be configured for, or NoStore
    Configs,            \* what a commit may put into a directory
    Trees,              \* the directories at the beginning
    Commands,           \* the commands the user gives
    MaxLength,          \* bound: length of the transcript
    MaxEvents           \* bound: commands, commits to configs and deaths together

(* Why a property may fail, told apart by what came between two steps:       *)
(*   "early"       a publish loaded its state between the marker and the     *)
(*                 watermark of `share on`                                   *)
(*   "overtaken"   `share off` or `unpublish` took effect during a publish   *)
(*   "overwritten" the watermark was saved over a state file that was not    *)
(*                 the one it had read                                       *)
(*   "swapped"     a policy file changed while `share ack` had it printed    *)
(*   "repointed"   a config changed while a publish had decided on it        *)
(*   "nested"      the config that named the store is not the one whose      *)
(*                 policy was acknowledged                                   *)
(*   "moved"       the session was sent to, or removed from, another store   *)
(*                 than the one that has it                                  *)
(*   "halfway"     `unpublish` or `share on` died                            *)
(*   "unsaved"     a publish died between a chunk and its checkpoint         *)
Mishaps == {"early", "overtaken", "overwritten", "swapped", "repointed",
            "nested", "moved", "halfway", "unsaved"}

ASSUME ConsentConstants ==
    /\ Machines \subseteq Stores \cup {NoStore}
    /\ Configs \subseteq Config
    /\ Trees \subseteq Tree
    /\ Commands \subseteq {"on", "off", "clear", "ack", "unpublish"}
    /\ MaxLength \in Nat /\ MaxEvents \in Nat

VARIABLES
    length,             \* bytes in the transcript
    tree, acks,         \* config.json of each directory; ack/<repo> files
    machine,            \* the store of the environment or <store>/config.json
    marker,             \* sessions/<session>.share
    saved,              \* publish/<session>.json
    remote, live,       \* per store: bytes held, and is the session registered
    run,                \* publishers
    holder,             \* the publisher that holds the lock
    cmd,                \* the command of the user
    floor,              \* history: the first byte the user agreed to share
    gone,               \* history: the store `unpublish` emptied, until a next consent
    printed,            \* history: per directory, the texts printed for `ack`
    mishaps,            \* history
    events              \* commits, commands and deaths so far

files == <<tree, acks, machine, marker, saved>>
stores == <<remote, live>>
procs == <<run, holder, cmd>>
history == <<floor, gone, printed, mishaps, events>>
vars == <<length, files, stores, procs, history>>

Bytes == 0 .. MaxLength - 1
Nothing == MaxLength    \* no byte: the floor while the user shares nothing
NoOne == "no one"
Dead == "a dead run"    \* its lockfile is still there
ASSUME HolderNames == NoOne \notin Publishers /\ Dead \notin Publishers

PublishState == [start : 0 .. MaxLength, offset : 0 .. MaxLength]
Fresh == [start |-> 0, offset |-> 0]
Published(s) == s.offset > s.start
Most(m, n) == IF m >= n THEN m ELSE n

(* Where a plan starts; and a wrong version that forgets the watermark. *)
OffsetOnly(s) == s.offset
PlanStart(s) == Most(s.offset, s.start)

NoRun == [pc |-> "idle", via |-> "publish", mode |-> "unset", dir |-> 0,
          source |-> "default", dest |-> NoStore, state |-> Fresh, to |-> 0]
NoCmd == [pc |-> "idle", state |-> Fresh, size |-> 0, dir |-> 0, dest |-> NoStore]

RunSteps == {"idle", "decide", "config", "lock", "reconcile", "register", "send",
             "save", "enable"}
CmdSteps == {"idle", "on read", "on save", "ack", "delete", "forget", "stop"}

TypeOK ==
    /\ length \in 0 .. MaxLength
    /\ tree \in Tree /\ acks \in [Dirs -> Ack]
    /\ machine \in Machines /\ marker \in Markers /\ saved \in PublishState
    /\ remote \in [Stores -> SUBSET Bytes] /\ live \in [Stores -> BOOLEAN]
    /\ run \in [Publishers -> [pc : RunSteps, via : {"publish", "sync", "enable"},
                               mode : Modes \cup {"unset"}, dir : 0 .. Depth,
                               source : {"session", "repo", "default"},
                               dest : Stores \cup {NoStore},
                               state : PublishState, to : 0 .. MaxLength]]
    /\ holder \in Publishers \cup {NoOne, Dead}
    /\ cmd \in [pc : CmdSteps, state : PublishState, size : 0 .. MaxLength,
                dir : 0 .. Depth, dest : Stores \cup {NoStore}]
    /\ floor \in 0 .. MaxLength /\ gone \in Stores \cup {NoStore}
    /\ printed \in [Dirs -> SUBSET Config] /\ mishaps \subseteq Mishaps

Init ==
    /\ length = 0
    /\ tree \in Trees /\ machine \in Machines
    /\ acks = [d \in Dirs |-> NoAck]
    /\ marker = "unset" /\ saved = Fresh
    /\ remote = [s \in Stores |-> {}] /\ live = [s \in Stores |-> FALSE]
    /\ run = [p \in Publishers |-> NoRun] /\ holder = NoOne /\ cmd = NoCmd
    /\ floor = Nothing /\ gone = NoStore /\ printed = [d \in Dirs |-> {}]
    /\ mishaps = {}
    /\ events = 0

Happens == events < MaxEvents /\ events' = events + 1
Suffers(names) == mishaps' = mishaps \cup names
If(condition, name) == IF condition THEN {name} ELSE {}

-----------------------------------------------------------------------------
(* A publish                                                                *)

Step(p, from) == run[p].pc = from
Goto(p, to) == run' = [run EXCEPT ![p].pc = to]

(* The run is over, with its lock when it has it. *)
Leave(p) ==
    /\ run' = [run EXCEPT ![p] = NoRun]
    /\ holder' = IF holder = p THEN NoOne ELSE holder

Governing == IF MostRestrictive(tree) = {} THEN 0
             ELSE CHOOSE d \in MostRestrictive(tree) : TRUE

(* share.resolve begins: the ancestors' configs are read. *)
Start(p, via) ==
    /\ Step(p, "idle")
    /\ run' = [run EXCEPT ![p] = [NoRun EXCEPT !.pc = "decide", !.via = via,
                                     !.mode = EffectiveMode(tree), !.dir = Governing]]
    /\ UNCHANGED <<length, files, stores, holder, cmd, history>>

Decided(p) ==
    LET r == run[p]
        status == IF r.dir = 0 THEN "none" ELSE AckStatus(tree[r.dir], acks[r.dir])
    IN  Resolve(marker, r.mode, status)

(* Then the marker is read, and the governing file once more with its        *)
(* acknowledgement.  `publish` needs sharing to be on, `sync` that nobody    *)
(* decided against it; ticking a session in `sync`, and a policy that was    *)
(* accepted, is consent to all of it.                                        *)
Decide(p) ==
    LET decision == Decided(p)
        sync == run[p].via # "publish"
        allowed == IF sync THEN ~SyncRefused(decision, tree) ELSE decision.sharing
        whole == sync \/ decision.source = "repo"
    IN  /\ Step(p, "decide")
        /\ IF allowed
             THEN /\ run' = [run EXCEPT ![p].pc = "config", ![p].mode = "unset",
                                        ![p].source = IF sync THEN "default" ELSE decision.source,
                                        ![p].dir = IF sync \/ marker = "on" THEN 0 ELSE @]
                  /\ floor' = IF whole THEN 0 ELSE floor
                  /\ gone' = IF sync THEN NoStore ELSE gone
                  /\ UNCHANGED holder
             ELSE Leave(p) /\ UNCHANGED <<floor, gone>>
        /\ UNCHANGED <<length, files, stores, cmd, printed, mishaps, events>>

(* load_config reads the nearest config again. *)
Configure(p) ==
    LET dest == LoadConfig(machine, tree)
        byPolicy == run[p].source = "repo"
    IN  /\ Step(p, "config")
        /\ run' = [run EXCEPT ![p].pc = "lock", ![p].dest = dest]
        /\ Suffers(If(byPolicy /\ machine = NoStore /\ run[p].dir \notin FindRepo(tree), "nested"))
        /\ UNCHANGED <<length, files, stores, holder, cmd, floor, gone, printed, events>>

(* Some store other than this one holds bytes of the session. *)
Elsewhere(dest) == \E s \in Stores : s # dest /\ remote[s] # {}

(* state_lock, then the state file and the one stat.  State that knows of    *)
(* nothing published is reconciled with the store first.                     *)
TakeLock(p) ==
    /\ Step(p, "lock")
    /\ holder = NoOne
    /\ holder' = p
    /\ run' = [run EXCEPT ![p].state = saved, ![p].to = length,
                          ![p].pc = IF Published(saved) THEN "register" ELSE "reconcile"]
    /\ Suffers(If(cmd.pc \in {"on read", "on save"}, "early")
               \cup If(cmd.pc \in {"delete", "forget", "stop"}, "overtaken")
               \cup If(Elsewhere(run[p].dest), "moved"))
    /\ UNCHANGED <<length, files, stores, cmd, floor, gone, printed, events>>

(* A lockfile that nobody has touched for long is broken: see StateLock. *)
BreakLock(p) ==
    /\ Step(p, "lock")
    /\ holder = Dead
    /\ holder' = NoOne
    /\ UNCHANGED <<length, files, stores, run, cmd, history>>

(* PublishBusy. *)
GiveUp(p) ==
    /\ Step(p, "lock")
    /\ holder # NoOne
    /\ Leave(p)
    /\ UNCHANGED <<length, files, stores, cmd, history>>

Held(p) == IF live[run[p].dest] THEN remote[run[p].dest] ELSE {}

(* What reconcile adopts: the run of bytes from the first the store holds. *)
Adopted(held) ==
    LET base == CHOOSE b \in held : \A c \in held : b <= c
        stop == CHOOSE e \in base + 1 .. MaxLength :
                  e \notin held /\ \A b \in base .. e - 1 : b \in held
    IN  [start |-> base, offset |-> stop]

Reconcile(p) ==
    /\ Step(p, "reconcile")
    /\ run' = [run EXCEPT ![p].pc = "register",
                          ![p].state = IF Held(p) = {} THEN @ ELSE Adopted(Held(p))]
    /\ UNCHANGED <<length, files, stores, holder, cmd, history>>

(* publish returns and the lock goes; `sync --enable` has one thing left. *)
Return(p, state) ==
    IF run[p].via = "enable"
      THEN /\ run' = [run EXCEPT ![p].pc = "enable", ![p].state = state]
           /\ holder' = NoOne
      ELSE Leave(p)

(* put_session, unless there is nothing to send. *)
Register(p) ==
    /\ Step(p, "register")
    /\ IF PlanStart(run[p].state) < run[p].to
         THEN /\ live' = [live EXCEPT ![run[p].dest] = TRUE]
              /\ Goto(p, "send")
              /\ UNCHANGED holder
         ELSE Return(p, run[p].state) /\ UNCHANGED live
    /\ UNCHANGED <<length, files, remote, cmd, history>>

(* put_chunk; a session that is not registered any more ends the run. *)
Send(p) ==
    /\ Step(p, "send")
    /\ IF live[run[p].dest]
         THEN /\ remote' = [remote EXCEPT ![run[p].dest] = @ \cup {PlanStart(run[p].state)}]
              /\ Goto(p, "save")
              /\ UNCHANGED holder
         ELSE Leave(p) /\ UNCHANGED remote
    /\ UNCHANGED <<length, files, live, cmd, history>>

(* A wrong version of Checkpoint, one byte too far. *)
CheckpointPast(s) == [s EXCEPT !.offset = PlanStart(s) + 2]
Checkpoint(s) == [s EXCEPT !.offset = PlanStart(s) + 1]

(* The checkpoint, and on to the next chunk. *)
Save(p) ==
    LET state == Checkpoint(run[p].state)
    IN  /\ Step(p, "save")
        /\ saved' = state
        /\ IF state.offset < run[p].to
             THEN /\ run' = [run EXCEPT ![p].state = state, ![p].pc = "send"]
                  /\ UNCHANGED holder
             ELSE Return(p, state)
        /\ UNCHANGED <<length, tree, acks, machine, marker, stores, cmd, history>>

(* set_session(on) of `sync --enable`: no watermark, the session is already  *)
(* shared from its beginning.                                                *)
Enable(p) ==
    /\ Step(p, "enable")
    /\ marker' = IF MaySetSession(TRUE, tree) THEN "on" ELSE marker
    /\ Leave(p)
    /\ UNCHANGED <<length, tree, acks, machine, saved, stores, cmd, history>>

(* A request fails for good, or the process is killed and leaves its lockfile.*)
RunDies(p) ==
    /\ ~Step(p, "idle")
    /\ Happens
    /\ Suffers(If(Step(p, "save"), "unsaved"))
    /\ run' = [run EXCEPT ![p] = NoRun]
    /\ holder' \in IF holder = p THEN {NoOne, Dead} ELSE {holder}
    /\ UNCHANGED <<length, files, stores, cmd, floor, gone, printed>>

Publish(p) ==
    \/ \E via \in {"publish", "sync", "enable"} : Start(p, via)
    \/ Decide(p) \/ Configure(p) \/ TakeLock(p) \/ BreakLock(p) \/ GiveUp(p) \/ Reconcile(p)
    \/ Register(p) \/ Send(p) \/ Save(p) \/ Enable(p) \/ RunDies(p)

-----------------------------------------------------------------------------
(* Commands                                                                 *)

(* Publishes that have read the marker and have not ended. *)
UnderWay == \E p \in Publishers : run[p].pc \notin {"idle", "decide"}

Give(command) ==
    /\ command \in Commands
    /\ cmd.pc = "idle"
    /\ Happens

Then(to) == cmd' = [cmd EXCEPT !.pc = to]
Done == cmd' = NoCmd

Aside == <<length, tree, machine, run, holder>>

(* `share on`: set_session, unless the policy says never.  The user agrees to*)
(* what is recorded from now on; or, when the session has published before,  *)
(* to all that comes after that, as the command says.                        *)
ShareOn ==
    /\ Give("on")
    /\ MaySetSession(TRUE, tree)
    /\ marker' = "on"
    /\ LET from == IF Published(saved) THEN saved.offset ELSE length
       IN  floor' = IF from < floor THEN from ELSE floor
    /\ gone' = NoStore
    /\ Then("on read")
    /\ UNCHANGED <<Aside, acks, saved, stores, printed, mishaps>>

(* _watermark_session reads the state file, and the size of the transcript   *)
(* when nothing is published.                                                *)
Watermark ==
    /\ cmd.pc = "on read"
    /\ IF Published(saved) THEN Done
       ELSE cmd' = [cmd EXCEPT !.pc = "on save", !.state = saved, !.size = length]
    /\ UNCHANGED <<Aside, acks, marker, saved, stores, history>>

(* And writes the state file. *)
SaveWatermark ==
    /\ cmd.pc = "on save"
    /\ saved' = [cmd.state EXCEPT !.start = cmd.size]
    /\ Suffers(If(saved # cmd.state, "overwritten"))
    /\ Done
    /\ UNCHANGED <<Aside, acks, marker, stores, floor, gone, printed, events>>

(* `share off` and `share clear`: one file. *)
ShareOff ==
    /\ \/ Give("off") /\ marker' = "off"
       \/ Give("clear") /\ marker' = "unset"
    /\ floor' = Nothing
    /\ gone' = IF marker' = "off" THEN gone ELSE NoStore
    /\ Suffers(If(UnderWay, "overtaken"))
    /\ UNCHANGED <<Aside, acks, saved, stores, cmd, printed>>

(* `share ack`: the policy that governs is printed when it says always. *)
PrintPolicy ==
    /\ Give("ack")
    /\ EffectiveMode(tree) = "always"
    /\ printed' = [printed EXCEPT ![Governing] = @ \cup {tree[Governing]}]
    /\ cmd' = [NoCmd EXCEPT !.pc = "ack", !.dir = Governing]
    /\ UNCHANGED <<Aside, acks, marker, saved, stores, floor, gone, mishaps>>

(* acknowledge: the file is read again, and what it says now is accepted.    *)
Acknowledge ==
    /\ cmd.pc = "ack"
    /\ IF tree[cmd.dir].share \in Modes
         THEN /\ acks' = [acks EXCEPT ![cmd.dir] = tree[cmd.dir]]
              /\ Suffers(If(tree[cmd.dir] \notin printed[cmd.dir], "swapped"))
         ELSE UNCHANGED <<acks, mishaps>>
    /\ Done
    /\ UNCHANGED <<Aside, marker, saved, stores, floor, gone, printed, events>>

(* `unpublish`: where to, delete_session there, unlink the state file, switch*)
(* sharing off.                                                              *)
Unpublish ==
    /\ Give("unpublish")
    /\ cmd' = [NoCmd EXCEPT !.pc = "delete", !.dest = LoadConfig(machine, tree)]
    /\ UNCHANGED <<Aside, acks, marker, saved, stores, floor, gone, printed, mishaps>>

DeleteSession ==
    /\ cmd.pc = "delete"
    /\ remote' = [remote EXCEPT ![cmd.dest] = {}]
    /\ live' = [live EXCEPT ![cmd.dest] = FALSE]
    /\ Suffers(If(UnderWay, "overtaken") \cup If(Elsewhere(cmd.dest), "moved"))
    /\ Then("forget")
    /\ UNCHANGED <<Aside, acks, marker, saved, floor, gone, printed, events>>

(* A wrong version of Forget, that keeps the state file. *)
ForgetNothing ==
    /\ cmd.pc = "forget"
    /\ Then("stop")
    /\ UNCHANGED <<Aside, acks, marker, saved, stores, history>>

Forget ==
    /\ cmd.pc = "forget"
    /\ saved' = Fresh
    /\ Then("stop")
    /\ UNCHANGED <<Aside, acks, marker, stores, history>>

(* A wrong version of Stop, that leaves the marker as it is. *)
StopNothing ==
    /\ cmd.pc = "stop"
    /\ floor' = Nothing /\ gone' = cmd.dest
    /\ Suffers(If(UnderWay, "overtaken"))
    /\ Done
    /\ UNCHANGED <<Aside, acks, marker, saved, stores, printed, events>>

Stop ==
    /\ cmd.pc = "stop"
    /\ marker' = "off"
    /\ floor' = Nothing /\ gone' = cmd.dest
    /\ Suffers(If(UnderWay, "overtaken"))
    /\ Done
    /\ UNCHANGED <<Aside, acks, saved, stores, printed, events>>

CommandDies ==
    /\ cmd.pc \notin {"idle", "ack"}
    /\ Happens
    /\ Suffers({"halfway"})
    /\ Done
    /\ UNCHANGED <<Aside, acks, marker, saved, stores, floor, gone, printed>>

Command ==
    \/ ShareOn \/ Watermark \/ SaveWatermark \/ ShareOff
    \/ PrintPolicy \/ Acknowledge
    \/ Unpublish \/ DeleteSession \/ Forget \/ Stop \/ CommandDies

-----------------------------------------------------------------------------
(* The rest of the world                                                    *)

(* The editor appends. *)
Grow ==
    /\ length < MaxLength
    /\ length' = length + 1
    /\ UNCHANGED <<files, stores, procs, history>>

(* A commit, a pull or an edit changes one config. *)
Edit(d, config) ==
    /\ Happens
    /\ config # tree[d]
    /\ tree' = [tree EXCEPT ![d] = config]
    /\ Suffers(If(\E p \in Publishers : run[p].pc \in {"decide", "config"}, "repointed"))
    /\ UNCHANGED <<length, acks, machine, marker, saved, stores, procs, floor, gone, printed>>

Next ==
    \/ \E p \in Publishers : Publish(p)
    \/ Command
    \/ Grow
    \/ \E d \in Dirs, config \in Configs : Edit(d, config)

Spec == Init /\ [][Next]_vars

-----------------------------------------------------------------------------
(* Properties                                                               *)

Unless(names) == mishaps \cap names # {}

(* Whatever the files say, a session is shared exactly when no directory     *)
(* above it says never and the user switched it on, or left it to policies   *)
(* that all say always, of which this machine accepted the outermost one as  *)
(* it reads now: `share.py` lines 16-30.  A directory added further in can   *)
(* restrict sharing and never widen it.                                      *)
ResolveIsUnanimous ==
    LET policies == PolicyChain(tree)
        status == IF Governing = 0 THEN "none" ELSE AckStatus(tree[Governing], acks[Governing])
        unanimous == /\ policies # {}
                     /\ \A d \in policies : tree[d].share = "always"
                     /\ \E d \in policies : acks[d] = tree[d] /\ \A e \in policies : e <= d
    IN  Resolve(marker, EffectiveMode(tree), status).sharing
          <=> /\ \A d \in Dirs : tree[d].share # "never"
              /\ marker = "on" \/ (marker = "unset" /\ unanimous)

(* A byte is sent only after the user agreed to share it: by a policy this   *)
(* machine accepted or by `sync`, or, with `share on`, when it was recorded  *)
(* later; and not after `share off`, `clear` or `unpublish` took that back.  *)
SentIsConsented ==
    [][\A s \in Stores : \A b \in remote'[s] \ remote[s] :
         \/ b >= floor
         \/ Unless({"early", "overtaken", "overwritten", "halfway", "unsaved", "moved"})]_vars

(* After `unpublish` no store holds a byte of the session until the user     *)
(* agrees again (cli.py:809, "stop the hook from immediately re-uploading    *)
(* what was just deleted").                                                  *)
UnpublishLeavesNothing ==
    gone # NoStore =>
      (\A s \in Stores : remote[s] = {}) \/ Unless({"overtaken", "moved"})

(* What a publish takes as already published is in the store it sends to:    *)
(* below the first byte it sends there is no hole down to the watermark.     *)
NothingMissingBelow ==
    \A p \in Publishers : LET r == run[p] IN
      r.pc \in {"send", "save"} =>
        \/ \A b \in r.state.start .. PlanStart(r.state) - 1 : b \in remote[r.dest]
        \/ Unless({"overtaken", "moved", "halfway"})

(* A policy sends bytes only to the machine's own store, or to the one that  *)
(* the text printed for `share ack` named (cli.py:596-597, "it is the field  *)
(* that decides where the bytes actually land").                             *)
DestinationAsPrinted ==
    \A p \in Publishers : LET r == run[p] IN
      r.source = "repo" /\ r.dest # NoStore =>
        \/ r.dest = machine
        \/ \E text \in printed[r.dir] :
             text.store = r.dest \/ (text.store = NoStore /\ r.dest = DefaultStore)
        \/ Unless({"swapped", "repointed", "nested"})
=============================================================================
