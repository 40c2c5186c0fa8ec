------------------------------- MODULE Settings -------------------------------
(***************************************************************************)
(* `ezup hook install | uninstall`: ezchangelog/hooks.py on the settings   *)
(* file of the editor, which the user and the editor write too.            *)
(*                                                                         *)
(* An event has a list of groups and a group is the set of its commands:   *)
(* ours (it carries MARKER), theirs, or both.                              *)
(***************************************************************************)
EXTENDS Integers, Sequences

CONSTANTS
    OtherEvents,        \* events that hooks.py installs nothing for
    UserEvents,         \* bound: events whose groups the user edits
    MaxWrites           \* bound: writes of the user and commands together

HookEvents == {"Stop", "SessionEnd", "SessionStart"}        \* HOOK_EVENTS
Events == HookEvents \cup OtherEvents

ASSUME SettingsConstants == MaxWrites \in Nat /\ OtherEvents \cap HookEvents = {} /\ UserEvents \subseteq Events

VARIABLES
    settings,           \* ~/.claude/settings.json
    job,                \* the command under way
    writes,             \* writes and commands so far
    spoilt              \* history: how entries of the user got lost, see below

settingsVars == <<settings, job, writes, spoilt>>

Groups == {{"ours"}, {"theirs"}, {"ours", "theirs"}}
File == [groups : [Events -> Seq(Groups)], line : {"none", "ours", "theirs"}]
NoFile == [groups |-> [e \in Events |-> <<>>], line |-> "none"]
NoJob == [pc |-> "idle", copy |-> NoFile]

(*   "rewritten"   the file was not what the command had read when it wrote  *)
(*   "mixed"       the user had put a command into a group of ours           *)
Spoils == {"rewritten", "mixed"}

(* The groups of a kind, in their order.  (SelectSeq on a set, and as a      *)
(* function, for the sake of HookProofs.)                                    *)
Select(groups, kind) ==
    LET upTo[i \in 0 .. Len(groups)] ==
          IF i = 0 THEN <<>>
          ELSE IF groups[i] \in kind THEN Append(upTo[i - 1], groups[i]) ELSE upTo[i - 1]
    IN  upTo[Len(groups)]

IsOurs(group) == "ours" \in group
Theirs(groups) == Select(groups, {g \in Groups : "theirs" \in g})
Ours(groups) == Select(groups, {g \in Groups : IsOurs(g)})

(* Wired up for an event. *)
Wired(event) == Ours(settings.groups[event]) # <<>>

Write == writes < MaxWrites /\ writes' = writes + 1

SettingsTypeOK ==
    /\ settings \in File
    /\ job \in [pc : {"idle", "install", "uninstall"}, copy : File]
    /\ writes \in 0 .. MaxWrites /\ spoilt \subseteq Spoils

-----------------------------------------------------------------------------
(* install: one group of ours for each event that has none, and the status   *)
(* line when there is none.                                                  *)
Installed(file) ==
    [groups |-> [e \in Events |-> IF e \in HookEvents /\ Ours(file.groups[e]) = <<>>
                                    THEN Append(file.groups[e], {"ours"}) ELSE file.groups[e]],
     line |-> IF file.line = "none" THEN "ours" ELSE file.line]

(* A wrong version of Uninstalled, that removes an event that has one of ours.*)
UninstalledEvents(file) ==
    [groups |-> [e \in Events |-> IF Ours(file.groups[e]) = <<>> THEN file.groups[e] ELSE <<>>],
     line |-> file.line]

(* uninstall: every group that holds a command of ours goes, of any event.   *)
Uninstalled(file) ==
    [groups |-> [e \in Events |-> Select(file.groups[e], {g \in Groups : ~IsOurs(g)})],
     line |-> IF file.line = "ours" THEN "none" ELSE file.line]

(* No file, or one of the user that install has added to. *)
SettingsInit ==
    /\ LET users == [NoFile EXCEPT !.groups["Stop"] = <<{"theirs"}>>, !.line = "theirs"]
       IN  settings \in {NoFile, Installed(users)}
    /\ job = NoJob /\ writes = 0 /\ spoilt = {}

(* The command reads the file, *)
Read(command) ==
    /\ job.pc = "idle"
    /\ Write
    /\ job' = [pc |-> command, copy |-> settings]
    /\ UNCHANGED <<settings, spoilt>>

(* and writes it whole when something is to change.  (Nothing ever reads the *)
(* copy that _backup makes the first time.)                                  *)
Change ==
    LET changed == IF job.pc = "install" THEN Installed(job.copy) ELSE Uninstalled(job.copy)
        mixed == \E e \in Events : \E i \in DOMAIN job.copy.groups[e] :
                   job.copy.groups[e][i] = {"ours", "theirs"}
    IN  /\ job.pc \in {"install", "uninstall"}
        /\ job' = NoJob
        /\ IF changed = job.copy THEN UNCHANGED <<settings, spoilt>>
           ELSE /\ settings' = changed
                /\ spoilt' = spoilt \cup (IF settings # job.copy THEN {"rewritten"} ELSE {})
                                    \cup (IF mixed /\ job.pc = "uninstall" THEN {"mixed"} ELSE {})
        /\ UNCHANGED writes

(* The user, or the editor for the user, writes the file: a group or a status*)
(* line of their own, a command beside ours, or one of our groups removed.   *)
UserEdits(event) ==
    LET groups == settings.groups[event]
        ours == {i \in DOMAIN groups : groups[i] = {"ours"}}
    IN  /\ Write
        /\ \/ /\ Theirs(groups) = <<>>
              /\ settings' = [settings EXCEPT !.groups[event] = Append(@, {"theirs"})]
           \/ /\ settings.line # "theirs"
              /\ settings' = [settings EXCEPT !.line = "theirs"]
           \/ \E i \in ours :
                settings' = [settings EXCEPT !.groups[event][i] = {"ours", "theirs"}]
           \/ /\ ours # {}
              /\ settings' = [settings EXCEPT !.groups[event] =
                                Select(@, Groups \ {{"ours"}})]
        /\ UNCHANGED <<job, spoilt>>

SettingsNext ==
    \/ \E command \in {"install", "uninstall"} : Read(command)
    \/ Change
    \/ \E event \in UserEvents : UserEdits(event)

-----------------------------------------------------------------------------
(* install and uninstall leave the user's own entries and status line as they*)
(* are (hooks.py:164 "and nothing else"), unless the file changed under the  *)
(* command or the user's command shared a group with ours.                   *)
TheirsSurvive ==
    [][job.pc # "idle" /\ job' = NoJob =>
         \/ /\ \A e \in Events : Theirs(settings'.groups[e]) = Theirs(settings.groups[e])
            /\ settings.line = "theirs" => settings'.line = "theirs"
         \/ spoilt' \cap {"rewritten", "mixed"} # {}]_settingsVars
=============================================================================
