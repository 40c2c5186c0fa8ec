---------------------------------- MODULE Sync ----------------------------------
(***************************************************************************)
(* `ez sync` over the collection of Collect: cmd_sync of ezchangelog/cli.py *)
(* lists what a dry run selects and publishes what the user ticks, while    *)
(* the hook publishes the transcript that the editor is writing.            *)
(*                                                                         *)
(* A publish makes what the store holds of a session what the file it was   *)
(* given says: module Publish, which also says that a file shorter than what*)
(* is published replaces it.                                                *)
(***************************************************************************)
EXTENDS Collect

VARIABLES
    sent,               \* the version the session store holds, 0 being none
    newest              \* history: the newest it has held

vars == <<collectVars, sent, newest>>

Init ==
    /\ CollectInit
    /\ sent = [f \in Local |-> 0] /\ newest = [f \in Local |-> 0]

Send(f, version) ==
    /\ sent' = [sent EXCEPT ![f] = version]
    /\ newest' = [newest EXCEPT ![f] = IF version > @ THEN version ELSE @]

(* cmd_publish, from the hook: _find_transcript takes the live file first. *)
Publish(f) ==
    /\ f \in Local /\ disk[f] # 0
    /\ Send(f, disk[f])
    /\ UNCHANGED collectVars

(* selection.stored_path, which a dry run has from the index. *)
Source(run, f) == IF run.index[f].ingested # 0 THEN raw[f] ELSE disk[f]

(* The user has ticked a session of the list; the others stay for the next   *)
(* step.  A file that is not there fails this session only.                  *)
Tick(r) ==
    /\ runs[r].pc = "scan" /\ runs[r].todo = {}
    /\ \E f \in Picked(r) \cap Local :
          /\ runs' = [runs EXCEPT ![r].picked[f] = 0]
          /\ IF Source(runs[r], f) # 0 THEN Send(f, Source(runs[r], f))
                                       ELSE UNCHANGED <<sent, newest>>
    /\ UNCHANGED <<transcripts, raw, index, started, troubles, mishaps>>

(* A `collect` ends with Save (its journal is module Changelog). *)
Leave(r) ==
    /\ runs[r].pc = "collected"
    /\ runs' = [runs EXCEPT ![r] = NoRun]
    /\ UNCHANGED <<transcripts, raw, index, started, troubles, mishaps, sent, newest>>

Next ==
    \/ CollectNext /\ UNCHANGED <<sent, newest>>
    \/ \E f \in Local : Publish(f)
    \/ \E r \in Runs : Tick(r) \/ Leave(r)

Spec == Init /\ [][Next]_vars

-----------------------------------------------------------------------------

(* Publishing takes nothing back: the store never goes from a version of a   *)
(* transcript to one that was written before it (cli.py:429-431 calls the    *)
(* live file authoritative, "the store copy only helps for a session whose   *)
(* original has since been deleted").                                        *)
NothingTakenBack == \A f \in Local : sent[f] >= newest[f]
================================================================================
