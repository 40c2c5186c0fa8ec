-------------------------------- MODULE Collect --------------------------------
(***************************************************************************)
(* `ez collect` up to the journal: collect() of ezchangelog/collect.py over *)
(* the store of ezchangelog/store.py, that is the scan of the transcripts,  *)
(* the index that spares the next scan, and the raw copies.                 *)
(*                                                                         *)
(* The editor and the puller go on writing while a run reads: they append,  *)
(* rewrite, remove and begin anew, so that a version of a transcript may say *)
(* less than the one before.  Versions are counted, in the order in which    *)
(* they are written; what stat_signature returns tells them apart, and none  *)
(* comes back (size and mtime_ns together).                                  *)
(***************************************************************************)
EXTENDS Integers, FiniteSets, FiniteSetsExt

CONSTANTS
    Local,              \* transcripts of this machine's editor
    Pulled,             \* transcripts the puller mirrors below the store
    Runs,               \* runs of the program that may overlap
    FirstWork,          \* of each, the first day with a tool call in it
    MaxDay,             \* bound: days of work
    MaxVersion,         \* bound: versions of a transcript
    MaxRuns,            \* bound: runs that are started
    MaxTroubles         \* bound: versions that add no day or lose one, removals,
                        \* lost indexes, refreshes, deaths

Files == Local \cup Pulled
Days == 1 .. MaxDay

ASSUME CollectConstants ==
    /\ IsFiniteSet(Files) /\ Local \cap Pulled = {} /\ "none" \notin Files
    /\ MaxDay \in Nat \ {0} /\ FirstWork \in [Files -> Days] /\ MaxVersion \in Nat \ {0}
    /\ MaxRuns \in Nat /\ MaxTroubles \in Nat

VARIABLES
    disk,               \* the version each transcript has; 0: no such file
    written,            \* versions written of each
    says,               \* the days of work in each version
    raw,                \* the store's copies
    index,              \* the store's index.json
    runs,               \* what each run has in hand
    started, troubles,  \* bounds
    mishaps             \* history, see Mishaps

transcripts == <<disk, written, says>>
collectVars == <<transcripts, raw, index, runs, started, troubles, mishaps>>

(*   "overlap"   a run was started while another had its own index in hand   *)
(*   "refresh"   a run was told to ignore what the index knows               *)
Mishaps == {"overlap", "refresh"}
Unless(names) == mishaps \cap names # {}

(* An entry of the index: the signature it was scanned under, the version    *)
(* its facts describe, the signature it was copied under.  0: none.          *)
NoEntry == [signature |-> 0, facts |-> 0, ingested |-> 0]
NoIndex == [f \in Files |-> NoEntry]

NothingPicked == [f \in Files |-> 0]
NoRun == [pc |-> "idle", refresh |-> FALSE, index |-> NoIndex, todo |-> {},
          file |-> "none", seen |-> 0, picked |-> NothingPicked]

CollectInit ==
    /\ disk = [f \in Files |-> 1]
    /\ written = [f \in Files |-> 1]
    /\ says = [f \in Files |-> [v \in 0 .. MaxVersion |-> IF v = 1 THEN {1} ELSE {}]]
    /\ raw = [f \in Local |-> 0]
    /\ index = NoIndex
    /\ runs = [r \in Runs |-> NoRun]
    /\ started = 0 /\ troubles = 0 /\ mishaps = {}

Picked(r) == {f \in Files : runs[r].picked[f] # 0}
Collecting == {r \in Runs : runs[r].pc \in {"scan", "read", "copy", "replace"}}

Trouble == troubles < MaxTroubles /\ troubles' = troubles + 1
AtEase == UNCHANGED <<troubles, mishaps>>

-----------------------------------------------------------------------------
(* The world                                                                *)

(* A transcript is written: the editor appends to it or compacts it, the     *)
(* puller appends to its mirror or takes it up again, blob by blob.          *)
Write(f) ==
    LET version == written[f] + 1 before == says[f][disk[f]]
    IN  /\ version <= MaxVersion
        /\ disk' = [disk EXCEPT ![f] = version]
        /\ written' = [written EXCEPT ![f] = version]
        /\ \E days \in SUBSET Days :
              /\ says' = [says EXCEPT ![f][version] = days]
              /\ IF before \subseteq days /\ before # days THEN UNCHANGED troubles ELSE Trouble
        /\ UNCHANGED <<raw, index, runs, started, mishaps>>

(* The editor clears out an old session, the puller unlinks a stale mirror. *)
Remove(f) ==
    /\ disk[f] # 0
    /\ disk' = [disk EXCEPT ![f] = 0]
    /\ Trouble
    /\ UNCHANGED <<written, says, raw, index, runs, started, mishaps>>

(* An index of another version, or one that does not parse, counts as none. *)
LoseIndex ==
    /\ index # NoIndex
    /\ index' = NoIndex
    /\ Trouble
    /\ UNCHANGED <<transcripts, raw, runs, started, mishaps>>

-----------------------------------------------------------------------------
(* collect()                                                                *)

(* load_index; `refresh` is the caller's. *)
Load(r) ==
    /\ runs[r].pc = "idle" /\ started < MaxRuns
    /\ started' = started + 1
    /\ \E refresh \in BOOLEAN :
          /\ runs' = [runs EXCEPT ![r] = [NoRun EXCEPT !.pc = "scan", !.todo = Files,
                                              !.refresh = refresh, !.index = index]]
          /\ mishaps' = mishaps \cup (IF refresh THEN {"refresh"} ELSE {})
                                \cup (IF Collecting # {} THEN {"overlap"} ELSE {})
          /\ IF refresh THEN Trouble ELSE UNCHANGED troubles
    /\ UNCHANGED <<transcripts, raw, index>>

(* match_root, overlaps_window and the least turns and tool calls: of what   *)
(* lies in scope, a version with no tool call in it is not selected.         *)
Wanted(f, facts) == \E day \in says[f][facts] : day >= FirstWork[f]

(* The run is done with file f, whose facts are those of version `facts`. *)
Selected(run, f, facts) ==
    [run EXCEPT !.pc = "scan", !.file = "none", !.seen = 0, !.todo = @ \ {f},
                !.picked[f] = IF Wanted(f, facts) THEN facts ELSE 0]

(* The entry of a transcript that had to be read. *)
Scanned(entry, signature, facts) == [entry EXCEPT !.signature = signature, !.facts = facts]

(* Its signature is taken; when the index has it, so are the facts.  *)
Looked(run, f) ==
    LET reuse == ~run.refresh /\ run.index[f].signature = disk[f]
    IN  CASE disk[f] = 0 -> Selected(run, f, 0)
          [] disk[f] # 0 /\ reuse -> Selected(run, f, run.index[f].facts)
          [] OTHER -> [run EXCEPT !.pc = "read", !.file = f, !.seen = disk[f]]

Look(r, some) ==
    /\ runs[r].pc = "scan"
    /\ \E f \in runs[r].todo \cap some : runs' = [runs EXCEPT ![r] = Looked(@, f)]
    /\ UNCHANGED <<transcripts, raw, index, started>> /\ AtEase

(* The next transcript of the editor, *)
Stat(r) == Look(r, Local)

(* and when those are through, of the mirror. *)
StatPulled(r) == runs[r].todo \cap Local = {} /\ Look(r, Pulled)

(* scan_transcript: what the file has by now, under the signature of before. *)
(* A file that is gone by now ends the run.                                  *)
Scan(r) ==
    LET run == runs[r] f == run.file
    IN  /\ run.pc = "read"
        /\ runs' = [runs EXCEPT ![r] =
              IF disk[f] = 0 THEN NoRun
              ELSE [Selected(run, f, disk[f]) EXCEPT
                      !.index[f] = Scanned(@, run.seen, disk[f])]]
        /\ UNCHANGED <<transcripts, raw, index, started>> /\ AtEase

(* The run goes on with what was chosen; the mirror needs no copies. *)
Chosen(run, chosen) ==
    [run EXCEPT !.pc = "copy", !.todo = chosen \cap Local,
                !.picked = [f \in Files |-> IF f \in chosen THEN @[f] ELSE 0]]

(* All transcripts are seen: the chooser lets the user narrow the list, for  *)
(* as long as that takes.                                                   *)
Choose(r) ==
    /\ runs[r].pc = "scan" /\ runs[r].todo = {}
    /\ \E chosen \in SUBSET Picked(r) : runs' = [runs EXCEPT ![r] = Chosen(@, chosen)]
    /\ UNCHANGED <<transcripts, raw, index, started>> /\ AtEase

(* A dry run ends with the choice. *)
DryRunEnds(r) ==
    /\ runs[r].pc = "scan" /\ runs[r].todo = {}
    /\ runs' = [runs EXCEPT ![r] = NoRun]
    /\ UNCHANGED <<transcripts, raw, index, started>> /\ AtEase

(* Any copy will do. *)
IngestedOnce(entry, copy) == copy # 0

(* There is a copy, and it was made under the signature the index holds. *)
Ingested(entry, copy) == entry.ingested = entry.signature /\ copy # 0

(* copy_raw reads the file as it is now, which must still be there; *)
Copying(run, f) ==
    LET ingested == Ingested(run.index[f], raw[f])
    IN  CASE ingested -> [run EXCEPT !.todo = @ \ {f}]
          [] ~ingested /\ disk[f] = 0 -> NoRun
          [] OTHER -> [run EXCEPT !.pc = "replace", !.file = f, !.seen = disk[f]]

Copy(r) ==
    /\ runs[r].pc = "copy"
    /\ \E f \in runs[r].todo : runs' = [runs EXCEPT ![r] = Copying(@, f)]
    /\ UNCHANGED <<transcripts, raw, index, started>> /\ AtEase

(* it replaces the copy, and the entry says so. *)
Copied(run, signature) ==
    [run EXCEPT !.pc = "copy", !.todo = @ \ {run.file}, !.file = "none", !.seen = 0,
                !.index[run.file].ingested = signature]

(* The copy is marked with a signature that is taken once it is there. *)
ReplaceThenStat(r) ==
    LET run == runs[r]
    IN  /\ run.pc = "replace"
        /\ raw' = [raw EXCEPT ![run.file] = run.seen]
        /\ runs' = [runs EXCEPT ![r] = Copied([run EXCEPT !.index[run.file].signature = disk[run.file]],
                                              disk[run.file])]
        /\ UNCHANGED <<transcripts, index, started>> /\ AtEase

Replace(r) ==
    LET run == runs[r]
    IN  /\ run.pc = "replace"
        /\ raw' = [raw EXCEPT ![run.file] = run.seen]
        /\ runs' = [runs EXCEPT ![r] = Copied(run, run.index[run.file].signature)]
        /\ UNCHANGED <<transcripts, index, started>> /\ AtEase

(* save_index writes the run's whole index, write_run the manifest. *)
Save(r) ==
    /\ runs[r].pc = "copy" /\ runs[r].todo = {}
    /\ index' = runs[r].index
    /\ runs' = [runs EXCEPT ![r] = [@ EXCEPT !.pc = "collected", !.index = NoIndex]]
    /\ UNCHANGED <<transcripts, raw, started>> /\ AtEase

(* A run may die anywhere: nothing it has in hand is on disk. *)
Die(r) ==
    /\ runs[r].pc # "idle"
    /\ runs' = [runs EXCEPT ![r] = NoRun]
    /\ Trouble
    /\ UNCHANGED <<transcripts, raw, index, started, mishaps>>

CollectNext ==
    \/ \E f \in Files : Write(f) \/ Remove(f)
    \/ LoseIndex
    \/ \E r \in Runs : \/ Load(r) \/ Stat(r) \/ StatPulled(r) \/ Scan(r) \/ Choose(r) \/ DryRunEnds(r)
                       \/ Copy(r) \/ Replace(r) \/ Save(r) \/ Die(r)

-----------------------------------------------------------------------------

(* What the index knows of a transcript that has not changed since is what   *)
(* the transcript says, and a copy it calls current is the transcript: else  *)
(* no later run would look again (_facts_for and `already_ingested` trust    *)
(* them).  Two runs at once may leave the older of their copies.             *)
IndexIsTrue ==
    \A f \in Files :
        disk[f] # 0 =>
            /\ index[f].signature = disk[f] => index[f].facts = disk[f]
            /\ (f \in Local /\ index[f].ingested = disk[f]) =>
                    raw[f] = disk[f] \/ Unless({"overlap"})
================================================================================
