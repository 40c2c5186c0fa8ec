---------------------------- MODULE ChangelogProofs ----------------------------
(***************************************************************************)
(* The index of a collection is true, and a journal is of what was picked:  *)
(* the three properties of Changelog, for any files, versions and runs.     *)
(*                                                                         *)
(* Everything rests on the order in which the versions of a transcript were *)
(* written, whatever each of them says.  The version an entry was copied    *)
(* under is no newer than the one it was scanned under, which is no newer   *)
(* than that of its facts, which is no newer than the last one written      *)
(* (IndexInv).  A copy is as new as its entry says, and a run has no copy   *)
(* left to make but of what is older than it picked (CopyInv), which holds  *)
(* as long as one run at a time has an index in hand and none was told to   *)
(* ignore it.  What a pipeline reads lies between what was picked and the   *)
(* last version written (JobInv), and what it writes is picked from the days*)
(* of that, whatever the models reply.                                      *)
(***************************************************************************)
EXTENDS Changelog, FiniteSetTheorems, TLAPS

-----------------------------------------------------------------------------
(* The types, and where a run is                                            *)

Entries == [signature : Nat, facts : Nat, ingested : Nat]
RunSteps == {"idle", "scan", "read", "copy", "replace", "collected",
             "brief", "compose", "link", "written"}
RunRecords == [pc : RunSteps, refresh : BOOLEAN, index : [Files -> Entries], todo : SUBSET Files,
               file : Files \cup {"none"}, seen : Nat, picked : [Files -> Nat]]

TypeInv ==
    /\ disk \in [Files -> Nat] /\ raw \in [Local -> Nat]
    /\ index \in [Files -> Entries]
    /\ runs \in [Runs -> RunRecords]
    /\ written \in [Files -> Nat] /\ says \in [Files -> [0 .. MaxVersion -> SUBSET Days]]
    /\ \A f \in Files : disk[f] \in {0, written[f]} /\ written[f] <= MaxVersion /\ says[f][0] = {}

Collects(run) == run.pc \in {"scan", "read", "copy", "replace"}

-----------------------------------------------------------------------------
(* What an index says                                                       *)

(* An entry was scanned under its signature or later, and no later than now; *)
(* it was copied under the signature it has, or an earlier one.              *)
EntryOK(f, entry) ==
    /\ entry.ingested <= entry.signature /\ entry.signature <= entry.facts
    /\ entry.facts <= written[f]

(* A run picked what its index says; a transcript it has to read changed, or *)
(* it was told to read it; and a copy it makes is as new as its facts.       *)
RunOK(run) ==
    /\ \A f \in Files : EntryOK(f, run.index[f])
    /\ \A f \in Files : run.picked[f] <= written[f]
    /\ Collects(run) => \A f \in Files : run.picked[f] \in {0, run.index[f].facts}
    /\ run.pc = "read" =>
         /\ run.file \in Files
         /\ run.seen <= written[run.file]
         /\ run.index[run.file].signature <= run.seen
         /\ run.refresh \/ run.index[run.file].signature # run.seen
    /\ run.pc = "replace" =>
         /\ run.file \in run.todo
         /\ run.seen <= written[run.file]
         /\ run.index[run.file].facts <= run.seen
    /\ run.pc \in {"copy", "replace"} => run.todo \subseteq Local
    /\ run.refresh => "refresh" \in mishaps

IndexInv ==
    /\ \A f \in Files : EntryOK(f, index[f])
    /\ \A r \in Runs : RunOK(runs[r])
    /\ \A f \in Local : raw[f] <= written[f]

-----------------------------------------------------------------------------
(* What the copies hold                                                     *)

CopiesOK(entries) == \A f \in Local : entries[f].ingested <= raw[f]

(* A copy a run would not make again is as new as what it picked; and so are *)
(* those it has made.                                                        *)
PickedOK(run, f) ==
    /\ Collects(run) /\ Ingested(run.index[f], raw[f]) => run.picked[f] <= raw[f]
    /\ run.pc \in {"copy", "replace"} /\ f \notin run.todo => run.picked[f] <= raw[f]
    /\ run.pc = "collected" => run.picked[f] <= raw[f]

(* A run replaces a copy with one as new; all of this unless it was told to  *)
(* ignore what the index knows.                                             *)
RunCopies(run) ==
    /\ CopiesOK(run.index)
    /\ run.pc = "replace" => raw[run.file] <= run.seen
    /\ ~Unless({"refresh"}) => \A f \in Local : PickedOK(run, f)

CopyInv ==
    ~Unless({"overlap"}) =>
        /\ \A q, r \in Runs : Collects(runs[q]) /\ Collects(runs[r]) => q = r
        /\ CopiesOK(index)
        /\ \A r \in Runs : RunCopies(runs[r])

-----------------------------------------------------------------------------
(* What a journal is made from                                              *)

Shown(read) == {id \in Ids : Day(id) \in says[id[1]][read[id[1]]]}

(* An entry: its beats, its date and its evidence are of the sessions. *)
Grounded(read, picked, e) ==
    /\ e.beats \subseteq Shown(read)
    /\ \/ e.date = 0 \/ (e.date = Claimed /\ e.beats = {})
       \/ \E id \in e.beats : e.date = Day(id)
       \/ \E f \in Files : picked[f] # 0 /\ e.date \in says[f][picked[f]]
    /\ \A v \in e.evidence \ {MadeUp} : /\ v.excerpt \in {NoId} \cup Shown(read)
                                        /\ v.commit \in Commits \cup {"none"}

Pipelines == {"brief", "compose", "link", "written"}

(* What is read is of the sessions that were picked, no newer than the       *)
(* last version written, and as new as what was picked.                      *)
ReadOK(read, picked) ==
    /\ picked \in [Files -> Nat]
    /\ \A f \in Files : picked[f] = 0 => read[f] = 0
    /\ \A f \in Files : read[f] <= written[f] /\ picked[f] <= written[f]
    /\ ~Unless({"refresh", "overlap"}) => \A f \in Files : read[f] >= picked[f]

PipeOK(run, j) ==
    /\ run.pc \in Pipelines => ReadOK(j.read, run.picked)
    /\ run.pc \in {"link", "written"} => \A e \in j.entries : Grounded(j.read, run.picked, e)

References == [excerpt : Ids \cup {NoId}, commit : Commits \cup {"none", "made up"}]
EntryRecords == [beats : SUBSET Ids, date : Nat, evidence : SUBSET References]
JobRecords == [read : [Files -> Nat], todo : SUBSET Files, briefed : BOOLEAN,
               entries : SUBSET EntryRecords]

JobInv ==
    /\ job \in [Runs -> JobRecords]
    /\ \A r \in Runs : PipeOK(runs[r], job[r])


-----------------------------------------------------------------------------
(* Steps                                                                    *)

(* Versions are only added, and say what they said; what happened stays so.  *)
Later ==
    /\ \A f \in Files : /\ written[f] <= written'[f]
                        /\ \A v \in 0 .. written[f] : says'[f][v] = says[f][v]
    /\ mishaps \subseteq mishaps'

Calm ==
    /\ disk' = disk /\ written' = written /\ says' = says
    /\ raw' = raw /\ index' = index /\ mishaps' = mishaps

Becomes(r, new) == new \in RunRecords /\ runs' = [runs EXCEPT ![r] = new]

LEMMA NoRunIs ==
    /\ NoRun \in RunRecords /\ NoRun.pc = "idle" /\ NoRun.refresh = FALSE
    /\ NoRun.index = NoIndex /\ NoRun.picked = NothingPicked /\ NoRun.todo = {}
    /\ NoIndex \in [Files -> Entries] /\ NothingPicked \in [Files -> Nat]
  BY DEF NoRun, NoIndex, NoEntry, NothingPicked, RunRecords, RunSteps, Entries

LEMMA CalmIsLater == TypeInv /\ Calm => Later
  BY DEF TypeInv, Calm, Later

LEMMA StillIsLater ==
  ASSUME TypeInv, written' = written, says' = says, mishaps \subseteq mishaps'
  PROVE  Later
  BY DEF TypeInv, Later

LEMMA LoadFacts ==
  ASSUME TypeInv, NEW r \in Runs, Load(r)
  PROVE  \E new :
            /\ Becomes(r, new) /\ runs[r].pc = "idle" /\ new.pc = "scan"
            /\ new.index = index /\ new.picked = NothingPicked /\ new.todo = Files
            /\ new.refresh => "refresh" \in mishaps'
            /\ disk' = disk /\ written' = written /\ says' = says
            /\ raw' = raw /\ index' = index /\ mishaps \subseteq mishaps'
            /\ Collecting # {} => "overlap" \in mishaps'
<1>1. PICK refresh \in BOOLEAN :
          /\ runs' = [runs EXCEPT ![r] = [NoRun EXCEPT !.pc = "scan", !.todo = Files,
                                              !.refresh = refresh, !.index = index]]
          /\ mishaps' = mishaps \cup (IF refresh THEN {"refresh"} ELSE {})
                                \cup (IF Collecting # {} THEN {"overlap"} ELSE {})
  BY Zenon DEF Load
<1> DEFINE new == [NoRun EXCEPT !.pc = "scan", !.todo = Files, !.refresh = refresh, !.index = index]
<1>2. /\ new \in RunRecords /\ new.pc = "scan" /\ new.index = index
      /\ new.picked = NothingPicked /\ new.todo = Files /\ new.refresh = refresh
  BY NoRunIs DEF NoRun, TypeInv, RunRecords, RunSteps
<1>3. Becomes(r, new)
  BY <1>1, <1>2 DEF Becomes
<1>4. /\ runs[r].pc = "idle" /\ disk' = disk /\ written' = written /\ says' = says
      /\ raw' = raw /\ index' = index
      /\ mishaps \subseteq mishaps' /\ (refresh => "refresh" \in mishaps')
      /\ (Collecting # {} => "overlap" \in mishaps')
  BY <1>1, Zenon DEF Load, transcripts
<1> HIDE DEF new
<1>5. QED
  BY <1>2, <1>3, <1>4, Zenon

LEMMA SelectedIs ==
  ASSUME NEW run \in RunRecords, NEW f \in Files, NEW facts \in Nat,
         NEW s, s = Selected(run, f, facts)
  PROVE  /\ s \in RunRecords /\ s.pc = "scan" /\ s.index = run.index /\ s.refresh = run.refresh
         /\ s.todo = run.todo \ {f} /\ s.picked[f] \in {0, facts}
         /\ \A g \in Files \ {f} : s.picked[g] = run.picked[g]
  BY DEF Selected, RunRecords, RunSteps

(* Done with a transcript in a scan: gone, or as the index has it. *)
Passes(r, new, f) ==
    /\ new.pc = "scan" /\ new.todo = runs[r].todo \ {f}
    /\ \A g \in Files \ {f} : new.picked[g] = runs[r].picked[g]
    /\ \/ new.picked[f] = 0
       \/ /\ disk[f] # 0 /\ runs[r].index[f].signature = disk[f]
          /\ new.picked[f] = runs[r].index[f].facts

Opens(r, new, f) ==
    /\ new.pc = "read" /\ new.file = f /\ new.seen = disk[f] /\ disk[f] # 0
    /\ new.picked = runs[r].picked /\ new.todo = runs[r].todo
    /\ runs[r].refresh \/ runs[r].index[f].signature # disk[f]

LEMMA LookFacts ==
  ASSUME TypeInv, NEW r \in Runs, Stat(r) \/ StatPulled(r)
  PROVE  \E f \in runs[r].todo : \E new :
            /\ Becomes(r, new) /\ Calm /\ runs[r].pc = "scan"
            /\ new.index = runs[r].index /\ new.refresh = runs[r].refresh
            /\ Passes(r, new, f) \/ Opens(r, new, f)
<1>1. PICK some : Look(r, some)
  BY Zenon DEF Stat, StatPulled
<1>2. PICK f \in runs[r].todo \cap some : runs' = [runs EXCEPT ![r] = Looked(runs[r], f)]
  BY <1>1 DEF Look, TypeInv
<1>3. runs[r] \in RunRecords /\ f \in Files /\ f \in runs[r].todo /\ disk[f] \in Nat
  BY <1>2 DEF TypeInv, RunRecords
<1>4. Calm /\ runs[r].pc = "scan"
  BY <1>1 DEF Look, AtEase, Calm, transcripts
<1> DEFINE new == Looked(runs[r], f)
<1>5. CASE disk[f] = 0
  <2>1. new = Selected(runs[r], f, 0)
    BY <1>5 DEF Looked
  <2>2. /\ new \in RunRecords /\ new.pc = "scan" /\ new.index = runs[r].index
        /\ new.refresh = runs[r].refresh
        /\ new.todo = runs[r].todo \ {f} /\ new.picked[f] \in {0, 0}
        /\ \A g \in Files \ {f} : new.picked[g] = runs[r].picked[g]
    <3> HIDE DEF new
    <3>1. 0 \in Nat
      OBVIOUS
    <3>2. QED
      BY <1>3, <2>1, <3>1, SelectedIs
  <2>3. Becomes(r, new) /\ Passes(r, new, f)
    BY <1>2, <2>2 DEF Becomes, Passes
  <2> HIDE DEF new
  <2>4. QED
    BY <1>3, <1>4, <2>2, <2>3, Zenon
<1>6. CASE disk[f] # 0 /\ ~runs[r].refresh /\ runs[r].index[f].signature = disk[f]
  <2> DEFINE facts == runs[r].index[f].facts
  <2>0. facts \in Nat
    BY <1>3 DEF RunRecords, Entries
  <2>1. new = Selected(runs[r], f, facts)
    BY <1>6, Zenon DEF Looked
  <2>2. /\ new \in RunRecords /\ new.pc = "scan" /\ new.index = runs[r].index
        /\ new.refresh = runs[r].refresh
        /\ new.todo = runs[r].todo \ {f} /\ new.picked[f] \in {0, facts}
        /\ \A g \in Files \ {f} : new.picked[g] = runs[r].picked[g]
    <3> DEFINE run == runs[r]
               f0 == f
    <3>1. run \in RunRecords /\ f0 \in Files /\ facts \in Nat /\ new = Selected(run, f0, facts)
      BY <1>3, <2>0, <2>1
    <3> HIDE DEF new, facts, run, f0
    <3>2. /\ new \in RunRecords /\ new.pc = "scan" /\ new.index = run.index /\ new.refresh = run.refresh
          /\ new.todo = run.todo \ {f0} /\ new.picked[f0] \in {0, facts}
          /\ \A g \in Files \ {f0} : new.picked[g] = run.picked[g]
      BY <3>1, SelectedIs
    <3>3. QED
      BY <3>2, Zenon DEF run, f0
  <2>3. Becomes(r, new) /\ Passes(r, new, f)
    BY <1>2, <1>6, <2>2 DEF Becomes, Passes
  <2> HIDE DEF new
  <2>4. QED
    BY <1>3, <1>4, <2>2, <2>3, Zenon
<1>7. CASE disk[f] # 0 /\ (runs[r].refresh \/ runs[r].index[f].signature # disk[f])
  <2>1. new = [runs[r] EXCEPT !.pc = "read", !.file = f, !.seen = disk[f]]
    BY <1>7, Zenon DEF Looked
  <2>2. /\ new \in RunRecords /\ new.pc = "read" /\ new.index = runs[r].index
        /\ new.refresh = runs[r].refresh /\ new.todo = runs[r].todo
        /\ new.picked = runs[r].picked /\ new.file = f /\ new.seen = disk[f]
    BY <1>3, <2>1 DEF RunRecords, RunSteps
  <2>3. Becomes(r, new) /\ Opens(r, new, f)
    BY <1>2, <1>7, <2>2 DEF Becomes, Opens
  <2> HIDE DEF new
  <2>4. QED
    BY <1>3, <1>4, <2>2, <2>3, Zenon
<1>8. QED
  BY <1>3, <1>5, <1>6, <1>7

(* A run whose index has another entry is the same else. *)
LEMMA ReindexIs ==
  ASSUME NEW s \in RunRecords, NEW f \in Files, NEW entry \in Entries,
         NEW n, n = [s EXCEPT !.index[f] = entry]
  PROVE  /\ n \in RunRecords /\ n.pc = s.pc /\ n.refresh = s.refresh /\ n.todo = s.todo
         /\ n.picked = s.picked /\ n.index = [s.index EXCEPT ![f] = entry]
  BY DEF RunRecords

(* What a scan makes of the transcript it has read. *)
Reads(r, new, f) ==
    LET old == runs[r].index
    IN  /\ new.pc = "scan" /\ new.todo = runs[r].todo \ {f}
        /\ new.index = [old EXCEPT ![f] = Scanned(@, runs[r].seen, disk[f])]
        /\ \A g \in Files \ {f} : new.picked[g] = runs[r].picked[g]
        /\ new.picked[f] \in {0, disk[f]}

LEMMA ScanFacts ==
  ASSUME TypeInv, NEW r \in Runs, Scan(r), runs[r].file \in Files
  PROVE  /\ Calm /\ runs[r].pc = "read"
         /\ \E new :
              /\ Becomes(r, new)
              /\ \/ new = NoRun
                 \/ disk[runs[r].file] # 0 /\ new.refresh = runs[r].refresh /\ Reads(r, new, runs[r].file)
<1> DEFINE f == runs[r].file
           s == Selected(runs[r], f, disk[f])
           new == [s EXCEPT !.index[f] = Scanned(@, runs[r].seen, disk[f])]
<1>1. Calm /\ runs[r].pc = "read"
  BY DEF Scan, AtEase, Calm, transcripts
<1>2. runs[r] \in RunRecords /\ f \in Files /\ disk[f] \in Nat /\ runs[r].seen \in Nat
  BY DEF TypeInv, RunRecords
<1>3. runs' = [runs EXCEPT ![r] = IF disk[f] = 0 THEN NoRun ELSE new]
  BY Zenon DEF Scan
<1>4. CASE disk[f] = 0
  <2>1. runs' = [runs EXCEPT ![r] = NoRun]
    BY <1>3, <1>4, Zenon
  <2>2. QED
    BY <1>1, <2>1, NoRunIs, Zenon DEF Becomes
<1>5. CASE disk[f] # 0
  <2>1. /\ s \in RunRecords /\ s.pc = "scan" /\ s.index = runs[r].index /\ s.refresh = runs[r].refresh
        /\ s.todo = runs[r].todo \ {f} /\ s.picked[f] \in {0, disk[f]}
        /\ \A g \in Files \ {f} : s.picked[g] = runs[r].picked[g]
    <3> DEFINE t == s
               run == runs[r]
               d == disk[f]
               g0 == f
    <3>1. t = Selected(run, g0, d) /\ run \in RunRecords /\ g0 \in Files /\ d \in Nat
      BY <1>2
    <3> HIDE DEF t, run, d, g0
    <3>2. /\ t \in RunRecords /\ t.pc = "scan" /\ t.index = run.index /\ t.refresh = run.refresh
          /\ t.todo = run.todo \ {g0} /\ t.picked[g0] \in {0, d}
          /\ \A g \in Files \ {g0} : t.picked[g] = run.picked[g]
      BY <3>1, SelectedIs
    <3>3. QED
      BY <3>2, Zenon DEF t, run, d, g0
  <2>2. /\ new.pc = "scan" /\ new.refresh = runs[r].refresh /\ new.todo = runs[r].todo \ {f}
        /\ new.index = [runs[r].index EXCEPT ![f] = Scanned(@, runs[r].seen, disk[f])]
        /\ new.picked = s.picked
        /\ new \in RunRecords
    <3> DEFINE entry == Scanned(s.index[f], runs[r].seen, disk[f])
    <3>1. new = [s EXCEPT !.index[f] = entry]
      OBVIOUS
    <3>2. s.index \in [Files -> Entries] /\ entry \in Entries
      <4> DEFINE old == s.index[f]
                 seen == runs[r].seen
                 facts == disk[f]
      <4> HIDE DEF s
      <4>1. s.index \in [Files -> Entries] /\ old \in Entries /\ seen \in Nat /\ facts \in Nat
        BY <1>2, <2>1 DEF RunRecords
      <4> HIDE DEF old, seen, facts
      <4>2. Scanned(old, seen, facts) \in Entries
        BY <4>1 DEF Scanned, Entries
      <4>3. QED
        BY <4>1, <4>2, Zenon DEF old, seen, facts
    <3>3. entry = Scanned(runs[r].index[f], runs[r].seen, disk[f])
      BY <2>1, Zenon
    <3> HIDE DEF s, new, entry
    <3>4. /\ new \in RunRecords /\ new.pc = s.pc /\ new.refresh = s.refresh /\ new.todo = s.todo
          /\ new.picked = s.picked /\ new.index = [s.index EXCEPT ![f] = entry]
      BY <1>2, <2>1, <3>1, <3>2, ReindexIs
    <3>5. new.index = [runs[r].index EXCEPT ![f] = entry]
      BY <2>1, <3>4, Zenon
    <3>6. new.index = [runs[r].index EXCEPT ![f] = Scanned(@, runs[r].seen, disk[f])]
      BY <3>3, <3>5, Zenon
    <3>7. QED
      BY <2>1, <3>4, <3>6, Zenon
  <2>3. runs' = [runs EXCEPT ![r] = new]
    BY <1>3, <1>5, Zenon
  <2> HIDE DEF new, s
  <2>4. Becomes(r, new) /\ Reads(r, new, f)
    BY <2>1, <2>2, <2>3 DEF Becomes, Reads
  <2>5. QED
    BY <1>1, <1>5, <2>2, <2>4, Zenon
<1>6. QED
  BY <1>4, <1>5

LEMMA ChooseFacts ==
  ASSUME TypeInv, NEW r \in Runs, Choose(r)
  PROVE  /\ Calm /\ runs[r].pc = "scan" /\ runs[r].todo = {}
         /\ \E new :
              /\ Becomes(r, new) /\ new.pc = "copy"
              /\ new.index = runs[r].index /\ new.refresh = runs[r].refresh
              /\ new.todo \subseteq Local
              /\ \A f \in Files : new.picked[f] \in {0, runs[r].picked[f]}
              /\ \A f \in Local \ new.todo : new.picked[f] = 0
<1>1. Calm /\ runs[r].pc = "scan" /\ runs[r].todo = {} /\ runs[r] \in RunRecords
  BY DEF Choose, AtEase, Calm, TypeInv, transcripts
<1>2. PICK chosen \in SUBSET Picked(r) : runs' = [runs EXCEPT ![r] = Chosen(runs[r], chosen)]
  BY Zenon DEF Choose
<1> DEFINE run == runs[r]
           new == Chosen(run, chosen)
           some == chosen \cap Local
<1>3. run \in RunRecords /\ some \in SUBSET Files /\ chosen \in SUBSET Files
  BY <1>1 DEF Picked, Files
<1> HIDE DEF run
<1> DEFINE kept == [f \in Files |-> IF f \in chosen THEN run.picked[f] ELSE 0]
<1>8. kept \in [Files -> Nat]
  BY <1>3 DEF RunRecords
<1>9. new = [run EXCEPT !.pc = "copy", !.todo = some, !.picked = kept]
  BY <1>3 DEF Chosen, RunRecords
<1>4. /\ new.pc = "copy" /\ new.index = run.index /\ new.refresh = run.refresh /\ new.todo = some
      /\ new.picked = kept /\ new \in RunRecords
  <2> HIDE DEF kept, some, new
  <2>1. QED
    BY <1>3, <1>8, <1>9 DEF RunRecords, RunSteps
<1>5. Becomes(r, new)
  BY <1>2, <1>4 DEF Becomes, run
<1> HIDE DEF new
<1>6. /\ new.todo \subseteq Local /\ \A f \in Files : new.picked[f] \in {0, run.picked[f]}
      /\ \A f \in Local \ new.todo : new.picked[f] = 0
  BY <1>4 DEF Files
<1>7. QED
  BY <1>1, <1>4, <1>5, <1>6, Zenon DEF run

LEMMA CopyFacts ==
  ASSUME TypeInv, NEW r \in Runs, Copy(r)
  PROVE  /\ Calm /\ runs[r].pc = "copy"
         /\ \E f \in runs[r].todo : \E new :
              /\ Becomes(r, new)
              /\ \/ new = NoRun
                 \/ /\ Ingested(runs[r].index[f], raw[f]) /\ new.pc = "copy"
                    /\ new.todo = runs[r].todo \ {f}
                    /\ new.index = runs[r].index /\ new.refresh = runs[r].refresh
                    /\ new.picked = runs[r].picked
                 \/ /\ disk[f] # 0 /\ new.pc = "replace" /\ new.file = f /\ new.seen = disk[f]
                    /\ new.todo = runs[r].todo
                    /\ new.index = runs[r].index /\ new.refresh = runs[r].refresh
                    /\ new.picked = runs[r].picked
<1>1. Calm /\ runs[r].pc = "copy" /\ runs[r] \in RunRecords
  BY DEF Copy, AtEase, Calm, TypeInv, transcripts
<1>2. PICK f \in runs[r].todo : runs' = [runs EXCEPT ![r] = Copying(runs[r], f)]
  BY Zenon DEF Copy
<1>3. f \in Files /\ disk[f] \in Nat
  BY <1>1 DEF RunRecords, TypeInv
<1> DEFINE new == Copying(runs[r], f)
<1>4. CASE Ingested(runs[r].index[f], raw[f])
  <2>1. new = [runs[r] EXCEPT !.todo = @ \ {f}]
    BY <1>4, Zenon DEF Copying
  <2> HIDE DEF new
  <2>2. /\ new.pc = "copy" /\ new.todo = runs[r].todo \ {f} /\ new \in RunRecords
        /\ new.index = runs[r].index /\ new.refresh = runs[r].refresh /\ new.picked = runs[r].picked
    BY <1>1, <2>1 DEF RunRecords
  <2>3. runs' = [runs EXCEPT ![r] = new]
    BY <1>2, Zenon DEF new
  <2>4. QED
    BY <1>1, <1>4, <2>2, <2>3, Zenon DEF Becomes
<1>5. CASE ~Ingested(runs[r].index[f], raw[f]) /\ disk[f] = 0
  <2>1. new = NoRun
    BY <1>5, Zenon DEF Copying
  <2>2. runs' = [runs EXCEPT ![r] = NoRun]
    BY <1>2, <2>1, Zenon
  <2>3. QED
    BY <1>1, <2>2, NoRunIs, Zenon DEF Becomes
<1>6. CASE ~Ingested(runs[r].index[f], raw[f]) /\ disk[f] # 0
  <2>1. new = [runs[r] EXCEPT !.pc = "replace", !.file = f, !.seen = disk[f]]
    BY <1>6, Zenon DEF Copying
  <2> HIDE DEF new
  <2>2. /\ new.pc = "replace" /\ new.file = f /\ new.seen = disk[f]
        /\ new.todo = runs[r].todo /\ new \in RunRecords
        /\ new.index = runs[r].index /\ new.refresh = runs[r].refresh /\ new.picked = runs[r].picked
    BY <1>1, <1>3, <2>1 DEF RunRecords, RunSteps
  <2>3. runs' = [runs EXCEPT ![r] = new]
    BY <1>2, Zenon DEF new
  <2>4. QED
    BY <1>1, <1>6, <2>2, <2>3, Zenon DEF Becomes
<1>7. QED
  BY <1>4, <1>5, <1>6

LEMMA ReplaceFacts ==
  ASSUME TypeInv, NEW r \in Runs, Replace(r), runs[r].file \in Local
  PROVE  /\ disk' = disk /\ written' = written /\ says' = says
         /\ index' = index /\ mishaps' = mishaps /\ runs[r].pc = "replace"
         /\ raw' = [raw EXCEPT ![runs[r].file] = runs[r].seen]
         /\ \E new :
              /\ Becomes(r, new) /\ new.pc = "copy"
              /\ new.todo = runs[r].todo \ {runs[r].file}
              /\ new.index = [runs[r].index EXCEPT ![runs[r].file].ingested =
                                                      runs[r].index[runs[r].file].signature]
              /\ new.refresh = runs[r].refresh /\ new.picked = runs[r].picked
<1> DEFINE new == Copied(runs[r], runs[r].index[runs[r].file].signature)
<1>1. /\ disk' = disk /\ written' = written /\ says' = says
      /\ index' = index /\ mishaps' = mishaps /\ runs[r].pc = "replace"
      /\ raw' = [raw EXCEPT ![runs[r].file] = runs[r].seen]
      /\ runs' = [runs EXCEPT ![r] = new]
  BY Zenon DEF Replace, AtEase, transcripts
<1>2. /\ new.pc = "copy" /\ new.todo = runs[r].todo \ {runs[r].file}
      /\ new.index = [runs[r].index EXCEPT ![runs[r].file].ingested =
                                              runs[r].index[runs[r].file].signature]
      /\ new.refresh = runs[r].refresh /\ new.picked = runs[r].picked
      /\ new \in RunRecords
  <2> DEFINE f == runs[r].file
             run == runs[r]
             signature == run.index[f].signature
             entry == [run.index[f] EXCEPT !.ingested = signature]
             n == [run EXCEPT !.index[f] = entry]
  <2>1. run \in RunRecords /\ f \in Files
    BY DEF TypeInv, Files
  <2>11. f = run.file /\ new = Copied(run, signature)
    OBVIOUS
  <2>2. run.index \in [Files -> Entries] /\ signature \in Nat
    <3> HIDE DEF run, f
    <3>1. QED
      BY <2>1 DEF RunRecords, Entries
  <2> HIDE DEF run, f, signature, new
  <2>0. \A g \in Files : g = f => run.index[g] \in Entries
    BY <2>2
  <2>3. entry \in Entries
    BY <2>1, <2>2 DEF Entries
  <2>4. [run.index EXCEPT ![f].ingested = signature] = [run.index EXCEPT ![f] = entry]
    BY <2>2
  <2>5. n = [run EXCEPT !.index[f] = entry]
    OBVIOUS
  <2> HIDE DEF n, entry
  <2>6. /\ n \in RunRecords /\ n.pc = run.pc /\ n.refresh = run.refresh /\ n.todo = run.todo
        /\ n.picked = run.picked /\ n.index = [run.index EXCEPT ![f] = entry]
    BY <2>1, <2>3, <2>5 DEF RunRecords
  <2>7. new = [n EXCEPT !.pc = "copy", !.todo = run.todo \ {f}, !.file = "none", !.seen = 0]
    BY <2>1, <2>11, <2>2, <2>3, <2>5 DEF Copied, RunRecords, entry
  <2> HIDE DEF n
  <2>8. /\ new.pc = "copy" /\ new.todo = run.todo \ {f} /\ new.refresh = n.refresh
        /\ new.picked = n.picked /\ new.index = n.index /\ new \in RunRecords
    BY <2>1, <2>6, <2>7 DEF RunRecords, RunSteps
  <2>9. new.index = [run.index EXCEPT ![f].ingested = signature]
    BY <2>4, <2>6, <2>8, Zenon
  <2>10. QED
    BY <2>6, <2>8, <2>9, Zenon DEF run, f, signature
<1> HIDE DEF new
<1>3. QED
  BY <1>1, <1>2, Zenon DEF Becomes

LEMMA SaveFacts ==
  ASSUME TypeInv, NEW r \in Runs, Save(r)
  PROVE  /\ disk' = disk /\ written' = written /\ says' = says
         /\ raw' = raw /\ mishaps' = mishaps /\ index' = runs[r].index
         /\ runs[r].pc = "copy" /\ runs[r].todo = {}
         /\ \E new :
              /\ Becomes(r, new) /\ new.pc = "collected" /\ new.index = NoIndex
              /\ new.refresh = runs[r].refresh /\ new.picked = runs[r].picked
<1> DEFINE new == [runs[r] EXCEPT !.pc = "collected", !.index = NoIndex]
<1>1. /\ disk' = disk /\ written' = written /\ says' = says
      /\ raw' = raw /\ mishaps' = mishaps /\ index' = runs[r].index
      /\ runs[r].pc = "copy" /\ runs[r].todo = {} /\ runs' = [runs EXCEPT ![r] = new]
      /\ runs[r] \in RunRecords
  BY DEF Save, AtEase, TypeInv, transcripts
<1>2. /\ new.pc = "collected" /\ new.index = NoIndex /\ new \in RunRecords
      /\ new.refresh = runs[r].refresh /\ new.picked = runs[r].picked
  BY <1>1, NoRunIs DEF RunRecords, RunSteps
<1> HIDE DEF new
<1>3. QED
  BY <1>1, <1>2, Zenon DEF Becomes

LEMMA DropFacts ==
  ASSUME TypeInv, NEW r \in Runs, DryRunEnds(r) \/ Die(r) \/ Stop(r)
  PROVE  Calm /\ Becomes(r, NoRun)
  BY NoRunIs DEF DryRunEnds, Die, Stop, AtEase, Calm, Becomes, transcripts

LEMMA MoveFacts ==
  ASSUME TypeInv, NEW r \in Runs, NEW pc \in RunSteps, NEW j, Move(r, pc, j)
  PROVE  /\ Calm /\ job' = [job EXCEPT ![r] = j]
         /\ \E new : /\ Becomes(r, new) /\ new.pc = pc /\ new.index = runs[r].index
                     /\ new.refresh = runs[r].refresh /\ new.picked = runs[r].picked
<1> DEFINE new == [runs[r] EXCEPT !.pc = pc]
<1>1. Calm /\ job' = [job EXCEPT ![r] = j] /\ runs' = [runs EXCEPT ![r] = new] /\ runs[r] \in RunRecords
  BY DEF Move, Calm, TypeInv, transcripts
<1>2. /\ new.pc = pc /\ new.index = runs[r].index /\ new \in RunRecords
      /\ new.refresh = runs[r].refresh /\ new.picked = runs[r].picked
  BY <1>1 DEF RunRecords
<1> HIDE DEF new
<1>3. QED
  BY <1>1, <1>2, Zenon DEF Becomes

-----------------------------------------------------------------------------
(* The types                                                                *)

World == (\E f \in Files : Write(f) \/ Remove(f)) \/ LoseIndex

(* The transcripts as they are typed. *)
FilesOK ==
    /\ disk \in [Files -> Nat]
    /\ written \in [Files -> Nat] /\ says \in [Files -> [0 .. MaxVersion -> SUBSET Days]]
    /\ \A f \in Files : disk[f] \in {0, written[f]} /\ written[f] <= MaxVersion /\ says[f][0] = {}

LEMMA WriteFacts ==
  ASSUME TypeInv, NEW f \in Files, Write(f)
  PROVE  FilesOK' /\ Later
<1> DEFINE n == written[f]
<1>1. PICK days \in SUBSET Days :
        /\ n + 1 <= MaxVersion /\ disk' = [disk EXCEPT ![f] = n + 1] /\ mishaps' = mishaps
        /\ written' = [written EXCEPT ![f] = n + 1] /\ says' = [says EXCEPT ![f][n + 1] = days]
  BY DEF Write
<1>2. n \in Nat /\ MaxVersion \in Nat /\ written \in [Files -> Nat] /\ disk \in [Files -> Nat]
  BY CollectConstants DEF TypeInv
<1> DEFINE old == says[f]
           new == [old EXCEPT ![n + 1] = days]
<1>3. /\ says \in [Files -> [0 .. MaxVersion -> SUBSET Days]] /\ old \in [0 .. MaxVersion -> SUBSET Days]
      /\ old[0] = {}
  BY DEF TypeInv
<1>4. says' = [says EXCEPT ![f] = new]
  BY <1>1, <1>3
<1>5. /\ new \in [0 .. MaxVersion -> SUBSET Days] /\ new[0] = {}
      /\ \A v \in 0 .. n : new[v] = old[v]
  BY <1>1, <1>2, <1>3
<1> HIDE DEF new
<1>6. /\ says' \in [Files -> [0 .. MaxVersion -> SUBSET Days]]
      /\ \A g \in Files : says'[g] = IF g = f THEN new ELSE says[g]
  BY <1>3, <1>4, <1>5
<1> HIDE DEF n
<1>7. /\ disk' \in [Files -> Nat] /\ written' \in [Files -> Nat]
      /\ \A g \in Files : /\ disk'[g] = IF g = f THEN n + 1 ELSE disk[g]
                          /\ written'[g] = IF g = f THEN n + 1 ELSE written[g]
  BY <1>1, <1>2
<1>8. \A g \in Files : disk'[g] \in {0, written'[g]} /\ written'[g] <= MaxVersion /\ says'[g][0] = {}
  BY <1>1, <1>5, <1>6, <1>7 DEF TypeInv
<1>9. Later
  <2>1. SUFFICES ASSUME NEW g \in Files
                 PROVE  /\ written[g] <= written'[g]
                        /\ \A v \in 0 .. written[g] : says'[g][v] = says[g][v]
    BY <1>1 DEF Later
  <2>2. CASE g = f
    BY <2>2, <1>2, <1>5, <1>6, <1>7 DEF n
  <2>3. CASE g # f
    BY <2>3, <1>2, <1>6, <1>7
  <2>4. QED
    BY <2>2, <2>3
<1>10. QED
  BY <1>6, <1>7, <1>8, <1>9 DEF FilesOK

LEMMA WorldFacts ==
  ASSUME TypeInv, World
  PROVE  /\ runs' = runs /\ raw' = raw /\ mishaps' = mishaps /\ index' \in {index, NoIndex}
         /\ FilesOK' /\ Later
<1>1. CASE LoseIndex
  BY <1>1 DEF LoseIndex, TypeInv, Later, FilesOK, transcripts
<1>2. ASSUME NEW f \in Files, Write(f)
      PROVE  /\ runs' = runs /\ raw' = raw /\ mishaps' = mishaps /\ index' = index
             /\ FilesOK' /\ Later
  <2>1. runs' = runs /\ raw' = raw /\ mishaps' = mishaps /\ index' = index
    BY <1>2 DEF Write
  <2>2. QED
    BY <1>2, <2>1, WriteFacts
<1>3. ASSUME NEW f \in Files, Remove(f)
      PROVE  /\ runs' = runs /\ raw' = raw /\ mishaps' = mishaps /\ index' = index
             /\ FilesOK' /\ Later
  BY <1>3 DEF Remove, TypeInv, Later, FilesOK
<1>4. QED
  BY <1>1, <1>2, <1>3, Zenon DEF World

(* What the pipeline does to a run: it moves on, or ends. *)
Moves(r) ==
    /\ runs[r].pc \in {"collected", "brief", "compose", "link", "written"}
    /\ \E pc \in {"brief", "compose", "link", "written"} : \E j : Move(r, pc, j)

LEMMA PipelineFacts ==
  ASSUME NEW r \in Runs, Pipeline(r)
  PROVE  Stop(r) \/ Moves(r)
<1>1. CASE NoJournal(r) \/ ComposeFails(r) \/ Misshapen(r) \/ End(r)
  BY <1>1, Zenon DEF NoJournal, ComposeFails, Misshapen, End
<1>2. CASE Distill(r)
  BY <1>2, Zenon DEF Distill, Moves
<1>3. CASE Brief(r)
  BY <1>3, Zenon DEF Brief, Moves
<1>4. CASE EndBriefs(r)
  BY <1>4, Zenon DEF EndBriefs, Moves
<1>5. CASE Compose(r)
  BY <1>5, Zenon DEF Compose, Moves
<1>6. CASE LinkNothing(r)
  BY <1>6, Zenon DEF LinkNothing, Moves
<1>7. CASE Link(r)
  BY <1>7, Zenon DEF Link, Moves
<1>8. QED
  BY <1>1, <1>2, <1>3, <1>4, <1>5, <1>6, <1>7 DEF Pipeline

(* Every step, as a proof takes them. *)
Drops(r) == DryRunEnds(r) \/ Die(r) \/ Stop(r)

LEMMA StepIs ==
  ASSUME [Next]_vars
  PROVE  \/ UNCHANGED vars \/ World
         \/ \E r \in Runs : \/ Load(r) \/ Stat(r) \/ StatPulled(r) \/ Scan(r) \/ Choose(r)
                            \/ Copy(r) \/ Replace(r) \/ Save(r) \/ Drops(r) \/ Moves(r)
<1>1. ASSUME NEW r \in Runs, Pipeline(r)
      PROVE  Drops(r) \/ Moves(r)
  BY <1>1, PipelineFacts, Zenon DEF Drops
<1>2. QED
  BY <1>1, Zenon DEF Next, CollectNext, World, Drops

LEMMA MovesFacts ==
  ASSUME TypeInv, NEW r \in Runs, Moves(r)
  PROVE  /\ Calm
         /\ runs[r].pc \in {"collected", "brief", "compose", "link", "written"}
         /\ \E new : /\ Becomes(r, new) /\ new.pc \in {"brief", "compose", "link", "written"}
                     /\ new.index = runs[r].index
                     /\ new.refresh = runs[r].refresh /\ new.picked = runs[r].picked
<1>1. PICK pc \in {"brief", "compose", "link", "written"} : \E j : Move(r, pc, j)
  BY DEF Moves
<1>2. pc \in RunSteps
  BY DEF RunSteps
<1>3. /\ Calm
      /\ \E new : /\ Becomes(r, new) /\ new.pc = pc /\ new.index = runs[r].index
                  /\ new.refresh = runs[r].refresh /\ new.picked = runs[r].picked
  BY <1>1, <1>2, MoveFacts, Zenon
<1>4. QED
  BY <1>3, Zenon DEF Moves

LEMMA TypeStart == Init => TypeInv
<1>1. MaxVersion \in Nat \ {0} /\ 1 \in Days
  BY CollectConstants DEF Days
<1> DEFINE first == [v \in 0 .. MaxVersion |-> IF v = 1 THEN {1} ELSE {}]
<1>2. first \in [0 .. MaxVersion -> SUBSET Days] /\ first[0] = {}
  BY <1>1
<1>3. SUFFICES ASSUME Init
               PROVE  TypeInv
  OBVIOUS
<1>4. says = [f \in Files |-> first]
  BY <1>3 DEF Init, CollectInit
<1> HIDE DEF first
<1>5. QED
  BY <1>1, <1>2, <1>3, <1>4, NoRunIs DEF Init, CollectInit, TypeInv, Files

LEMMA TypeAt ==
  ASSUME TypeInv, NEW r \in Runs, NEW new, Becomes(r, new),
         disk' = disk, written' = written, says' = says,
         raw' \in [Local -> Nat], index' \in [Files -> Entries]
  PROVE  TypeInv'
  BY DEF TypeInv, Becomes

LEMMA TypeStep ==
  ASSUME TypeInv, IndexInv, [Next]_vars
  PROVE  TypeInv'
<1>1. CASE UNCHANGED vars
  BY <1>1 DEF vars, collectVars, transcripts, TypeInv
<1>2. CASE World
  BY <1>2, WorldFacts, NoRunIs DEF TypeInv, FilesOK
<1>3. ASSUME NEW r \in Runs, Load(r)
      PROVE  TypeInv'
  BY <1>3, LoadFacts, TypeAt DEF TypeInv
<1>4. ASSUME NEW r \in Runs, Stat(r) \/ StatPulled(r)
      PROVE  TypeInv'
  BY <1>4, LookFacts, TypeAt DEF TypeInv, Calm
<1>5. ASSUME NEW r \in Runs, Scan(r)
      PROVE  TypeInv'
  <2>1. runs[r].file \in Files
    BY <1>5 DEF Scan, IndexInv, RunOK
  <2>2. QED
    BY <1>5, <2>1, ScanFacts, TypeAt DEF TypeInv, Calm
<1>6. ASSUME NEW r \in Runs, Choose(r)
      PROVE  TypeInv'
  BY <1>6, ChooseFacts, TypeAt DEF TypeInv, Calm
<1>7. ASSUME NEW r \in Runs, Copy(r)
      PROVE  TypeInv'
  BY <1>7, CopyFacts, TypeAt DEF TypeInv, Calm
<1>8. ASSUME NEW r \in Runs, Replace(r)
      PROVE  TypeInv'
  <2>1. runs[r].file \in Local
    BY <1>8, Zenon DEF Replace, IndexInv, RunOK
  <2>2. runs[r].seen \in Nat
    BY DEF TypeInv, RunRecords
  <2>3. /\ disk' = disk /\ written' = written /\ says' = says /\ index' = index
        /\ raw' = [raw EXCEPT ![runs[r].file] = runs[r].seen]
        /\ \E new : Becomes(r, new)
    BY <1>8, <2>1, ReplaceFacts, Zenon
  <2>4. raw' \in [Local -> Nat] /\ index' \in [Files -> Entries]
    BY <2>2, <2>3 DEF TypeInv
  <2>5. QED
    BY <2>3, <2>4, TypeAt, Zenon
<1>9. ASSUME NEW r \in Runs, Save(r)
      PROVE  TypeInv'
  <2>1. runs[r].index \in [Files -> Entries]
    BY DEF TypeInv, RunRecords
  <2>2. QED
    BY <1>9, <2>1, SaveFacts, TypeAt DEF TypeInv
<1>10. ASSUME NEW r \in Runs, Drops(r)
       PROVE  TypeInv'
  BY <1>10, DropFacts, TypeAt DEF TypeInv, Calm, Drops
<1>11. ASSUME NEW r \in Runs, Moves(r)
       PROVE  TypeInv'
  BY <1>11, MovesFacts, TypeAt DEF TypeInv, Calm
<1>12. QED
  BY <1>1, <1>2, <1>3, <1>4, <1>5, <1>6, <1>7, <1>8, <1>9, <1>10, <1>11, StepIs, Zenon

-----------------------------------------------------------------------------
(* The index                                                                *)

(* The index, and the copies, next to the transcripts. *)
IndexOK(entries) == \A f \in Files : EntryOK(f, entries[f])
CopiesAreOld == \A f \in Local : raw[f] <= written[f]

LEMMA EntryStays ==
  ASSUME TypeInv, TypeInv', Later, NEW f \in Files, NEW entry \in Entries, EntryOK(f, entry)
  PROVE  EntryOK(f, entry)'
<1>1. written[f] \in Nat /\ written'[f] \in Nat /\ entry.facts \in Nat
  BY DEF TypeInv, Entries
<1>2. QED
  BY <1>1 DEF EntryOK, Later

LEMMA IndexStays ==
  ASSUME TypeInv, TypeInv', Later, NEW entries \in [Files -> Entries], IndexOK(entries)
  PROVE  IndexOK(entries)'
<1>1. SUFFICES ASSUME NEW f \in Files
               PROVE  EntryOK(f, entries[f])'
  BY DEF IndexOK
<1>2. entries[f] \in Entries /\ EntryOK(f, entries[f])
  BY DEF IndexOK
<1>3. QED
  BY <1>2, EntryStays

LEMMA NoIndexOK == TypeInv => IndexOK(NoIndex)
  BY DEF TypeInv, IndexOK, EntryOK, NoIndex, NoEntry

LEMMA RunStays ==
  ASSUME TypeInv, TypeInv', Later, NEW run \in RunRecords, RunOK(run)
  PROVE  RunOK(run)'
<1>1. run.index \in [Files -> Entries] /\ run.picked \in [Files -> Nat] /\ run.seen \in Nat
  BY DEF RunRecords
<1>2. \A f \in Files : EntryOK(f, run.index[f])'
  <2>1. IndexOK(run.index)
    BY DEF RunOK, IndexOK
  <2>2. IndexOK(run.index)'
    BY <1>1, <2>1, IndexStays
  <2>3. QED
    BY <2>2 DEF IndexOK
<1>3. ASSUME NEW f \in Files, NEW n \in Nat, n <= written[f]
      PROVE  n <= written'[f]
  <2>1. written[f] \in Nat /\ written'[f] \in Nat /\ written[f] <= written'[f]
    BY DEF TypeInv, Later
  <2>2. QED
    BY <1>3, <2>1
<1>4. \A f \in Files : run.picked[f] <= written'[f]
  BY <1>1, <1>3 DEF RunOK
<1>5. \A f \in Files : (run.seen <= written[f]) => (run.seen <= written'[f])
  BY <1>1, <1>3
<1>6. run.pc = "replace" => run.file \in Files
  BY DEF RunOK, Files
<1>7. mishaps \subseteq mishaps'
  BY DEF Later
<1> HIDE DEF EntryOK, Later, TypeInv
<1>8. QED
  BY <1>2, <1>4, <1>5, <1>6, <1>7 DEF RunOK

LEMMA IndexAt ==
  ASSUME IndexInv, TypeInv, TypeInv', Later, NEW r \in Runs, NEW new, Becomes(r, new), RunOK(new)',
         IndexOK(index)', CopiesAreOld'
  PROVE  IndexInv'
<1>1. ASSUME NEW q \in Runs, NEW run, run = runs'[q]
      PROVE  RunOK(run)'
  <2>1. CASE q = r
    BY <1>1, <2>1 DEF Becomes, TypeInv
  <2>2. CASE q # r
    <3>1. run \in RunRecords /\ run = runs[q]
      BY <1>1, <2>2 DEF Becomes, TypeInv
    <3>2. RunOK(run)
      BY <3>1 DEF IndexInv
    <3>3. QED
      BY <3>1, <3>2, RunStays
  <2>3. QED
    BY <2>1, <2>2
<1>2. \A q \in Runs : \A run : run = runs'[q] => RunOK(run)'
  BY <1>1
<1>3. \A q \in Runs : RunOK(runs[q])'
  BY <1>2 DEF RunOK
<1>4. QED
  BY <1>3 DEF IndexInv, IndexOK, CopiesAreOld

LEMMA CopiesStay ==
  ASSUME TypeInv, TypeInv', Later, CopiesAreOld, raw' = raw
  PROVE  CopiesAreOld'
<1>1. SUFFICES ASSUME NEW f \in Local
               PROVE  raw'[f] <= written'[f]
  BY DEF CopiesAreOld
<1>2. f \in Files
  BY DEF Files
<1>3. /\ written[f] \in Nat /\ written'[f] \in Nat /\ raw[f] \in Nat
      /\ written[f] <= written'[f] /\ raw[f] <= written[f]
  BY <1>2 DEF TypeInv, Later, CopiesAreOld
<1>4. QED
  BY <1>3

(* A step that leaves the index and the copies alone. *)
LEMMA IndexCalm ==
  ASSUME IndexInv, TypeInv, TypeInv', Later, raw' = raw, index' = index,
         NEW r \in Runs, NEW new, Becomes(r, new), RunOK(new)'
  PROVE  IndexInv'
<1>1. IndexOK(index) /\ CopiesAreOld /\ index \in [Files -> Entries]
  BY DEF IndexInv, IndexOK, CopiesAreOld, TypeInv
<1>2. CopiesAreOld'
  BY <1>1, CopiesStay
<1>3. ASSUME NEW entries, entries = index
      PROVE  IndexOK(entries)'
  BY <1>1, <1>3, IndexStays
<1>4. IndexOK(index)'
  BY <1>3 DEF IndexOK, EntryOK
<1>5. QED
  BY <1>2, <1>4, IndexAt

LEMMA NoRunOK ==
  ASSUME TypeInv', NEW run, run = NoRun
  PROVE  RunOK(run)'
<1>1. run.pc = "idle" /\ run.refresh = FALSE /\ run.index = NoIndex /\ run.picked = NothingPicked
  BY NoRunIs
<1> HIDE DEF NoRun
<1>2. QED
  BY <1>1 DEF TypeInv, RunOK, EntryOK, NoIndex, NoEntry, NothingPicked, Collects

LEMMA LoadOK ==
  ASSUME IndexInv, TypeInv, TypeInv', NEW r \in Runs, Load(r)
  PROVE  IndexInv'
<1>1. PICK new :
        /\ Becomes(r, new) /\ runs[r].pc = "idle" /\ new.pc = "scan"
        /\ new.index = index /\ new.picked = NothingPicked /\ new.todo = Files
        /\ new.refresh => "refresh" \in mishaps'
        /\ disk' = disk /\ written' = written /\ says' = says
        /\ raw' = raw /\ index' = index /\ mishaps \subseteq mishaps'
  BY LoadFacts
<1>2. Later
  BY <1>1 DEF Later, TypeInv
<1>3. \A f \in Files : EntryOK(f, new.index[f])'
  BY <1>1 DEF IndexInv, EntryOK
<1>4. \A f \in Files : new.picked[f] = 0 /\ written'[f] \in Nat
  BY <1>1 DEF NothingPicked, TypeInv
<1>5. RunOK(new)'
  BY <1>1, <1>3, <1>4 DEF RunOK, Collects
<1>6. QED
  BY <1>1, <1>2, <1>5, IndexCalm

LEMMA LookOK ==
  ASSUME IndexInv, TypeInv, TypeInv', NEW r \in Runs, Stat(r) \/ StatPulled(r)
  PROVE  IndexInv'
<1>1. PICK f \in runs[r].todo : \E new :
        /\ Becomes(r, new) /\ Calm /\ runs[r].pc = "scan"
        /\ new.index = runs[r].index /\ new.refresh = runs[r].refresh
        /\ Passes(r, new, f) \/ Opens(r, new, f)
  BY LookFacts, Zenon
<1>2. PICK new :
        /\ Becomes(r, new) /\ Calm /\ runs[r].pc = "scan"
        /\ new.index = runs[r].index /\ new.refresh = runs[r].refresh
        /\ Passes(r, new, f) \/ Opens(r, new, f)
  BY <1>1, Zenon
<1> DEFINE old == runs[r]
<1>3. /\ Later /\ disk' = disk /\ written' = written /\ says' = says
      /\ raw' = raw /\ index' = index /\ mishaps' = mishaps
  BY <1>2, CalmIsLater DEF Calm
<1>4. /\ f \in Files /\ old \in RunRecords /\ RunOK(old) /\ new \in RunRecords
      /\ old.index \in [Files -> Entries] /\ disk[f] \in Nat
      /\ written[f] \in Nat /\ disk[f] \in {0, written[f]}
  BY <1>2 DEF TypeInv, RunRecords, IndexInv, Becomes
<1>5. \A g \in Files : EntryOK(g, new.index[g])'
  BY <1>2, <1>3, <1>4 DEF RunOK, EntryOK
<1>6. \A g \in Files : /\ old.picked[g] \in {0, old.index[g].facts}
                       /\ old.picked[g] <= written[g]
  BY <1>2, <1>4 DEF RunOK, Collects
<1>7. old.refresh => "refresh" \in mishaps'
  BY <1>3, <1>4 DEF RunOK
<1>8. old.index[f] \in Entries /\ EntryOK(f, old.index[f])
  BY <1>4 DEF RunOK
<1>9. CASE Passes(r, new, f)
  <2>1. new.pc = "scan" /\ \A g \in Files \ {f} : new.picked[g] = old.picked[g]
    BY <1>9 DEF Passes
  <2>2. new.picked[f] \in {0, old.index[f].facts} /\ (new.picked[f] <= written[f])
    BY <1>4, <1>8, <1>9 DEF Passes, EntryOK, Entries
  <2>3. \A g \in Files : /\ new.picked[g] \in {0, new.index[g].facts}
                         /\ new.picked[g] <= written'[g]
    <3> HIDE DEF old
    <3>1. \A g \in Files : /\ new.picked[g] \in {0, old.index[g].facts}
                           /\ new.picked[g] <= written[g]
      BY <1>6, <2>1, <2>2
    <3>2. QED
      BY <1>2, <1>3, <3>1 DEF old
  <2> HIDE DEF old
  <2>4. new.refresh => "refresh" \in mishaps'
    BY <1>2, <1>7 DEF old
  <2>5. RunOK(new)'
    BY <1>5, <2>1, <2>3, <2>4, Zenon DEF RunOK, Collects
  <2>6. QED
    BY <1>2, <1>3, <2>5, IndexCalm
<1>10. CASE Opens(r, new, f)
  <2>1. /\ new.pc = "read" /\ new.file = f /\ new.seen = disk'[f] /\ disk'[f] # 0
        /\ new.picked = old.picked
        /\ new.refresh \/ new.index[f].signature # disk'[f]
    BY <1>2, <1>3, <1>10 DEF Opens
  <2>2. \A g \in Files : /\ new.picked[g] \in {0, new.index[g].facts}
                         /\ new.picked[g] <= written'[g]
    BY <1>2, <1>3, <1>6, <2>1
  <2>3. new.refresh => "refresh" \in mishaps'
    BY <1>2, <1>7
  <2>4. new.index[f].signature <= new.seen /\ new.seen <= written'[f]
    BY <1>2, <1>3, <1>4, <1>8, <2>1 DEF EntryOK, Entries
  <2> HIDE DEF old
  <2>5. RunOK(new)'
    BY <1>4, <1>5, <2>1, <2>2, <2>3, <2>4 DEF RunOK, Collects
  <2>6. QED
    BY <1>2, <1>3, <2>5, IndexCalm
<1>11. QED
  BY <1>2, <1>9, <1>10

LEMMA ScanOK ==
  ASSUME IndexInv, TypeInv, TypeInv', NEW r \in Runs, Scan(r)
  PROVE  IndexInv'
<1> DEFINE old == runs[r]
           f == runs[r].file
<1>1. /\ f \in Files /\ old \in RunRecords /\ RunOK(old) /\ old.pc = "read"
      /\ old.index \in [Files -> Entries] /\ disk[f] \in Nat /\ old.seen \in Nat
      /\ written[f] \in Nat /\ disk[f] \in {0, written[f]}
  BY DEF Scan, IndexInv, RunOK, TypeInv, RunRecords
<1>2. /\ Calm
      /\ \E new :
              /\ Becomes(r, new)
              /\ new = NoRun \/ (disk[f] # 0 /\ new.refresh = old.refresh /\ Reads(r, new, f))
  BY <1>1, ScanFacts
<1>3. /\ Later /\ disk' = disk /\ written' = written /\ says' = says
      /\ raw' = raw /\ index' = index /\ mishaps' = mishaps
  BY <1>2, CalmIsLater DEF Calm
<1>4. PICK new :
              /\ Becomes(r, new)
              /\ new = NoRun \/ (disk[f] # 0 /\ new.refresh = old.refresh /\ Reads(r, new, f))
  BY <1>2, Zenon
<1>5. CASE new = NoRun
  BY <1>3, <1>4, <1>5, NoRunOK, IndexCalm
<1>6. CASE disk[f] # 0 /\ new.refresh = old.refresh /\ Reads(r, new, f)
  <2> DEFINE e == old.index[f]
             n == new.index[f]
             now == disk[f]
  <2>1. e \in Entries /\ EntryOK(f, e)
    BY <1>1 DEF RunOK
  <2>2. e.signature <= old.seen /\ old.seen <= now
    BY <1>1, <1>6 DEF RunOK
  <2>3. /\ new.pc = "scan" /\ n = Scanned(e, old.seen, now)
        /\ \A g \in Files \ {f} : new.index[g] = old.index[g] /\ new.picked[g] = old.picked[g]
        /\ new.picked[f] \in {0, now}
    BY <1>1, <1>6 DEF Reads
  <2>4. n.signature = old.seen /\ n.facts = now /\ n.ingested = e.ingested
    <3> HIDE DEF e, n, now
    <3>1. QED
      BY <2>1, <2>3 DEF Scanned, Entries
  <2>5. /\ n.ingested <= n.signature /\ n.signature <= n.facts /\ n.facts = now
    <3>1. e.ingested <= e.signature /\ e.ingested \in Nat /\ e.signature \in Nat /\ now \in Nat
      BY <1>1, <2>1 DEF EntryOK, Entries
    <3> DEFINE i == e.ingested
               s == e.signature
               seen == old.seen
    <3>2. i <= s /\ s <= seen /\ seen <= now /\ i \in Nat /\ s \in Nat /\ seen \in Nat /\ now \in Nat
      BY <1>1, <2>2, <3>1
    <3> HIDE DEF i, s, seen, now
    <3>3. i <= seen /\ seen <= now
      BY <3>2
    <3>4. QED
      BY <2>4, <3>3 DEF i, seen
  <2>6. \A g \in Files : EntryOK(g, new.index[g])'
    BY <1>1, <1>3, <2>3, <2>5 DEF RunOK, EntryOK
  <2>7. \A g \in Files : /\ new.picked[g] \in {0, new.index[g].facts}
                         /\ new.picked[g] <= written'[g]
    <3>1. \A g \in Files \ {f} : /\ new.picked[g] \in {0, new.index[g].facts}
                                 /\ new.picked[g] <= written'[g]
      BY <1>1, <1>3, <2>3 DEF RunOK, Collects
    <3>2. /\ new.picked[f] \in {0, new.index[f].facts}
          /\ new.picked[f] <= written'[f]
      BY <1>1, <1>3, <2>3, <2>5
    <3>3. QED
      BY <3>1, <3>2
  <2>8. new.refresh => "refresh" \in mishaps'
    BY <1>1, <1>3, <1>6 DEF RunOK
  <2> HIDE DEF old, e, n, now
  <2>9. RunOK(new)'
    BY <2>3, <2>6, <2>7, <2>8, Zenon DEF RunOK, Collects
  <2>10. QED
    BY <1>3, <1>4, <2>9, IndexCalm
<1>7. QED
  BY <1>4, <1>5, <1>6

LEMMA ChooseOK ==
  ASSUME IndexInv, TypeInv, TypeInv', NEW r \in Runs, Choose(r)
  PROVE  IndexInv'
<1> DEFINE old == runs[r]
<1>1. /\ Calm /\ old.pc = "scan"
      /\ \E new :
              /\ Becomes(r, new) /\ new.pc = "copy"
              /\ new.index = old.index /\ new.refresh = old.refresh
              /\ new.todo \subseteq Local
              /\ \A f \in Files : new.picked[f] \in {0, old.picked[f]}
  BY ChooseFacts
<1>2. /\ Later /\ disk' = disk /\ written' = written /\ says' = says
      /\ raw' = raw /\ index' = index /\ mishaps' = mishaps
  BY <1>1, CalmIsLater DEF Calm
<1>3. PICK new :
              /\ Becomes(r, new) /\ new.pc = "copy"
              /\ new.index = old.index /\ new.refresh = old.refresh
              /\ new.todo \subseteq Local
              /\ \A f \in Files : new.picked[f] \in {0, old.picked[f]}
  BY <1>1, Zenon
<1>4. RunOK(old) /\ old \in RunRecords
  BY DEF IndexInv, TypeInv
<1>5. \A g \in Files : EntryOK(g, new.index[g])'
  BY <1>2, <1>3, <1>4 DEF RunOK, EntryOK
<1>6. \A g \in Files : /\ new.picked[g] \in {0, new.index[g].facts}
                       /\ new.picked[g] <= written'[g]
  <2>1. \A g \in Files : /\ old.picked[g] \in {0, old.index[g].facts} /\ written[g] \in Nat
                         /\ old.picked[g] <= written[g]
    BY <1>1, <1>4 DEF RunOK, Collects, TypeInv
  <2> HIDE DEF old
  <2>2. QED
    BY <1>2, <1>3, <2>1
<1>7. new.refresh => "refresh" \in mishaps'
  BY <1>2, <1>3, <1>4 DEF RunOK
<1> HIDE DEF old
<1>8. RunOK(new)'
  BY <1>3, <1>5, <1>6, <1>7 DEF RunOK, Collects
<1>9. QED
  BY <1>2, <1>3, <1>8, IndexCalm

LEMMA CopyOK ==
  ASSUME IndexInv, TypeInv, TypeInv', NEW r \in Runs, Copy(r)
  PROVE  IndexInv'
<1> DEFINE old == runs[r]
<1>1. /\ Calm /\ old.pc = "copy" /\ RunOK(old) /\ old \in RunRecords
  BY CopyFacts DEF IndexInv, TypeInv
<1>2. /\ Later /\ disk' = disk /\ written' = written /\ says' = says
      /\ raw' = raw /\ index' = index /\ mishaps' = mishaps
  BY <1>1, CalmIsLater DEF Calm
<1>3. PICK f \in old.todo : \E new :
              /\ Becomes(r, new)
              /\ \/ new = NoRun
                 \/ /\ Ingested(old.index[f], raw[f]) /\ new.pc = "copy"
                    /\ new.todo = old.todo \ {f}
                    /\ new.index = old.index /\ new.refresh = old.refresh
                    /\ new.picked = old.picked
                 \/ /\ disk[f] # 0 /\ new.pc = "replace" /\ new.file = f /\ new.seen = disk[f]
                    /\ new.todo = old.todo
                    /\ new.index = old.index /\ new.refresh = old.refresh
                    /\ new.picked = old.picked
  BY CopyFacts, Zenon
<1>4. PICK new :
              /\ Becomes(r, new)
              /\ \/ new = NoRun
                 \/ /\ Ingested(old.index[f], raw[f]) /\ new.pc = "copy"
                    /\ new.todo = old.todo \ {f}
                    /\ new.index = old.index /\ new.refresh = old.refresh
                    /\ new.picked = old.picked
                 \/ /\ disk[f] # 0 /\ new.pc = "replace" /\ new.file = f /\ new.seen = disk[f]
                    /\ new.todo = old.todo
                    /\ new.index = old.index /\ new.refresh = old.refresh
                    /\ new.picked = old.picked
  BY <1>3, Zenon
<1>5. CASE new = NoRun
  BY <1>2, <1>4, <1>5, NoRunOK, IndexCalm
<1>6. CASE new # NoRun
  <2>1. new.index = old.index /\ new.refresh = old.refresh /\ new.picked = old.picked
    BY <1>4, <1>6
  <2>2. \A g \in Files : EntryOK(g, new.index[g])'
    BY <1>1, <1>2, <2>1 DEF RunOK, EntryOK
  <2>3. /\ \A g \in Files : new.picked[g] <= written'[g]
        /\ new.refresh => "refresh" \in mishaps'
    BY <1>1, <1>2, <2>1 DEF RunOK
  <2>4. /\ old.todo \subseteq Local /\ f \in Files
        /\ disk[f] \in {0, written[f]} /\ written[f] \in Nat
    BY <1>1, <1>3 DEF RunOK, Files, TypeInv
  <2>5. CASE new.pc = "copy"
    <3>1. new.todo \subseteq Local
      BY <1>4, <1>6, <2>4, <2>5
    <3>2. \A g \in Files : new.picked[g] \in {0, new.index[g].facts}
      BY <1>1, <2>1 DEF RunOK, Collects
    <3> HIDE DEF old
    <3>3. RunOK(new)'
      BY <2>2, <2>3, <2>5, <3>1, <3>2 DEF RunOK, Collects
    <3>4. QED
      BY <1>2, <1>4, <3>3, IndexCalm
  <2>6. CASE new.pc = "replace"
    <3>1. /\ disk[f] # 0 /\ new.file = f /\ new.seen = disk[f] /\ new.todo = old.todo
      BY <1>4, <1>6, <2>6
    <3>2. /\ new.file \in new.todo /\ new.todo \subseteq Local /\ new.seen <= written'[new.file]
      BY <1>2, <1>3, <2>4, <3>1
    <3>3. new.index[new.file].facts <= new.seen
      BY <1>1, <2>1, <2>4, <3>1 DEF RunOK, EntryOK
    <3>4. \A g \in Files : new.picked[g] \in {0, new.index[g].facts}
      BY <1>1, <2>1 DEF RunOK, Collects
    <3> HIDE DEF old
    <3>5. RunOK(new)'
      BY <2>2, <2>3, <2>6, <3>2, <3>3, <3>4 DEF RunOK, Collects
    <3>6. QED
      BY <1>2, <1>4, <3>5, IndexCalm
  <2>7. QED
    BY <1>4, <1>6, <2>5, <2>6
<1>7. QED
  BY <1>5, <1>6

LEMMA ReplaceOK ==
  ASSUME IndexInv, TypeInv, TypeInv', NEW r \in Runs, Replace(r)
  PROVE  IndexInv'
<1> DEFINE old == runs[r]
           f == runs[r].file
<1>1. /\ old.pc = "replace" /\ RunOK(old) /\ old \in RunRecords
      /\ f \in old.todo /\ f \in Local /\ f \in Files /\ old.todo \subseteq Local
  BY DEF Replace, IndexInv, TypeInv, RunOK, Files
<1>2. /\ disk' = disk /\ written' = written /\ says' = says /\ index' = index /\ mishaps' = mishaps
      /\ raw' = [raw EXCEPT ![f] = old.seen]
      /\ \E new :
              /\ Becomes(r, new) /\ new.pc = "copy" /\ new.todo = old.todo \ {f}
              /\ new.index = [old.index EXCEPT ![f].ingested = old.index[f].signature]
              /\ new.refresh = old.refresh /\ new.picked = old.picked
  BY <1>1, ReplaceFacts
<1>3. PICK new :
              /\ Becomes(r, new) /\ new.pc = "copy" /\ new.todo = old.todo \ {f}
              /\ new.index = [old.index EXCEPT ![f].ingested = old.index[f].signature]
              /\ new.refresh = old.refresh /\ new.picked = old.picked
  BY <1>2, Zenon
<1>4. Later
  BY <1>2 DEF Later, TypeInv
<1>5. old.index \in [Files -> Entries] /\ old.seen \in Nat /\ disk[f] \in Nat
  BY <1>1 DEF RunRecords, TypeInv
<1>6. /\ \A g \in Files \ {f} : new.index[g] = old.index[g]
      /\ new.index[f] = [old.index[f] EXCEPT !.ingested = old.index[f].signature]
  BY <1>1, <1>3, <1>5
<1>7. /\ new.index[f].ingested = old.index[f].signature
      /\ new.index[f].signature = old.index[f].signature
      /\ new.index[f].facts = old.index[f].facts
  <2> DEFINE e == old.index[f]
  <2>1. e \in Entries
    BY <1>1, <1>5
  <2>2. new.index[f] = [e EXCEPT !.ingested = e.signature]
    BY <1>6
  <2> HIDE DEF e
  <2>3. new.index[f].ingested = e.signature /\ new.index[f].signature = e.signature
        /\ new.index[f].facts = e.facts
    BY <2>1, <2>2 DEF Entries
  <2>4. QED
    BY <2>3 DEF e
<1>8. \A g \in Files : EntryOK(g, new.index[g])'
  <2>1. \A g \in Files : g = f => EntryOK(g, new.index[g])'
    <3>1. old.index[f].signature \in Nat
      BY <1>1, <1>5 DEF Entries
    <3>2. QED
      BY <1>1, <1>2, <1>7, <3>1 DEF RunOK, EntryOK
  <2>2. \A g \in Files : g # f => EntryOK(g, new.index[g])'
    BY <1>1, <1>2, <1>6 DEF RunOK, EntryOK
  <2>3. QED
    BY <2>1, <2>2
<1>9. \A g \in Files : new.picked[g] \in {0, new.index[g].facts}
  BY <1>1, <1>3, <1>6, <1>7 DEF RunOK, Collects
<1>10. /\ \A g \in Files : new.picked[g] <= written'[g]
       /\ new.refresh => "refresh" \in mishaps'
       /\ new.todo \subseteq Local
  BY <1>1, <1>2, <1>3 DEF RunOK
<1>11. CopiesAreOld'
  <2>1. SUFFICES ASSUME NEW g \in Local
                 PROVE  raw'[g] <= written'[g]
    BY DEF CopiesAreOld
  <2>2. CASE g = f
    <3>1. raw'[g] = old.seen /\ written'[g] = written[f] /\ old.seen <= written[f]
      BY <1>1, <1>2, <2>1, <2>2 DEF TypeInv, RunOK
    <3>2. QED
      BY <3>1
  <2>3. CASE g # f
    BY <1>2, <2>1, <2>3 DEF TypeInv, IndexInv
  <2>4. QED
    BY <2>2, <2>3
<1>12. IndexOK(index)'
  BY <1>2 DEF IndexInv, IndexOK, EntryOK
<1> HIDE DEF old, f
<1>13. RunOK(new)'
  BY <1>3, <1>8, <1>9, <1>10 DEF RunOK, Collects
<1>14. QED
  BY <1>3, <1>4, <1>11, <1>12, <1>13, IndexAt

LEMMA SaveOK ==
  ASSUME IndexInv, TypeInv, TypeInv', NEW r \in Runs, Save(r)
  PROVE  IndexInv'
<1> DEFINE old == runs[r]
<1>1. RunOK(old) /\ old \in RunRecords
  BY DEF IndexInv, TypeInv
<1>2. /\ disk' = disk /\ written' = written /\ says' = says
      /\ raw' = raw /\ mishaps' = mishaps /\ index' = old.index
      /\ \E new :
              /\ Becomes(r, new) /\ new.pc = "collected" /\ new.index = NoIndex
              /\ new.refresh = old.refresh /\ new.picked = old.picked
  BY SaveFacts
<1>3. PICK new :
              /\ Becomes(r, new) /\ new.pc = "collected" /\ new.index = NoIndex
              /\ new.refresh = old.refresh /\ new.picked = old.picked
  BY <1>2, Zenon
<1>4. Later
  BY <1>2 DEF Later, TypeInv
<1>5. IndexOK(index)' /\ CopiesAreOld'
  BY <1>1, <1>2 DEF RunOK, IndexOK, EntryOK, CopiesAreOld, IndexInv
<1>6. \A g \in Files : EntryOK(g, new.index[g])'
  BY <1>3 DEF EntryOK, NoIndex, NoEntry, TypeInv
<1>7. /\ \A g \in Files : new.picked[g] <= written'[g]
      /\ new.refresh => "refresh" \in mishaps'
  BY <1>1, <1>2, <1>3 DEF RunOK
<1> HIDE DEF old
<1>8. RunOK(new)'
  BY <1>3, <1>6, <1>7 DEF RunOK, Collects
<1>9. QED
  BY <1>3, <1>4, <1>5, <1>8, IndexAt

LEMMA MovesOK ==
  ASSUME IndexInv, TypeInv, TypeInv', NEW r \in Runs, Moves(r)
  PROVE  IndexInv'
<1> DEFINE old == runs[r]
<1>1. RunOK(old) /\ old \in RunRecords /\ Calm
  BY MovesFacts DEF IndexInv, TypeInv
<1>2. PICK new :
              /\ Becomes(r, new) /\ new.pc \in {"brief", "compose", "link", "written"}
              /\ new.index = old.index
              /\ new.refresh = old.refresh /\ new.picked = old.picked
  BY MovesFacts
<1>3. /\ Later /\ disk' = disk /\ written' = written /\ says' = says
      /\ raw' = raw /\ index' = index /\ mishaps' = mishaps
  BY <1>1, CalmIsLater DEF Calm
<1>4. \A g \in Files : EntryOK(g, new.index[g])'
  BY <1>1, <1>2, <1>3 DEF RunOK, EntryOK
<1>5. /\ \A g \in Files : new.picked[g] <= written'[g]
      /\ new.refresh => "refresh" \in mishaps'
  BY <1>1, <1>2, <1>3 DEF RunOK
<1> HIDE DEF old
<1>6. RunOK(new)'
  BY <1>2, <1>4, <1>5 DEF RunOK, Collects
<1>7. QED
  BY <1>2, <1>3, <1>6, IndexCalm

LEMMA DropsOK ==
  ASSUME IndexInv, TypeInv, TypeInv', NEW r \in Runs, Drops(r)
  PROVE  IndexInv'
<1>1. Calm /\ Becomes(r, NoRun)
  BY DropFacts DEF Drops
<1>2. Later /\ raw' = raw /\ index' = index
  BY <1>1, CalmIsLater DEF Calm
<1>3. ASSUME NEW run, run = NoRun
      PROVE  Becomes(r, run) /\ RunOK(run)'
  BY <1>1, <1>3, NoRunOK, Zenon
<1>4. \E run : Becomes(r, run) /\ RunOK(run)'
  BY <1>3, Zenon
<1>5. PICK run : Becomes(r, run) /\ RunOK(run)'
  BY <1>4, Zenon
<1>6. QED
  BY <1>2, <1>5, IndexCalm

LEMMA WorldOK ==
  ASSUME IndexInv, TypeInv, TypeInv', World
  PROVE  IndexInv'
<1>1. runs' = runs /\ raw' = raw /\ mishaps' = mishaps /\ index' \in {index, NoIndex} /\ Later
  BY WorldFacts
<1>2. CopiesAreOld'
  BY <1>1, CopiesStay DEF IndexInv, CopiesAreOld
<1>3. \A entries : entries \in {index, NoIndex} => IndexOK(entries)'
  <2>1. SUFFICES ASSUME NEW entries, entries \in {index, NoIndex}
                 PROVE  IndexOK(entries)'
    OBVIOUS
  <2>2. entries \in [Files -> Entries] /\ IndexOK(entries)
    BY <2>1, NoIndexOK, NoRunIs DEF TypeInv, IndexInv, IndexOK
  <2>3. QED
    BY <1>1, <2>2, IndexStays
<1>4. IndexOK(index)'
  BY <1>1, <1>3 DEF IndexOK, EntryOK
<1>5. ASSUME NEW q \in Runs, NEW run, run = runs'[q]
      PROVE  RunOK(run)'
  <2>1. run \in RunRecords /\ run = runs[q]
    BY <1>1, <1>5 DEF TypeInv
  <2>2. RunOK(run)
    BY <2>1 DEF IndexInv
  <2>3. QED
    BY <1>1, <2>1, <2>2, RunStays
<1>6. \A q \in Runs : \A run : run = runs'[q] => RunOK(run)'
  BY <1>5
<1>7. \A q \in Runs : RunOK(runs[q])'
  BY <1>6 DEF RunOK
<1>8. QED
  BY <1>2, <1>4, <1>7 DEF IndexInv, IndexOK, CopiesAreOld

LEMMA IndexStart == Init => IndexInv
<1>1. SUFFICES ASSUME Init
               PROVE  IndexInv
  OBVIOUS
<1>2. TypeInv /\ index = NoIndex /\ (\A q \in Runs : runs[q] = NoRun) /\ raw = [f \in Local |-> 0]
      /\ \A f \in Files : written[f] = 1
  BY <1>1, TypeStart DEF Init, CollectInit
<1>3. \A q \in Runs : RunOK(runs[q])
  <2>1. /\ NoRun.pc = "idle" /\ NoRun.refresh = FALSE /\ NoRun.index = NoIndex
        /\ NoRun.picked = NothingPicked
    BY NoRunIs
  <2>2. SUFFICES ASSUME NEW run, run = NoRun
                 PROVE  RunOK(run)
    BY <1>2, Zenon
  <2> HIDE DEF NoRun
  <2>3. QED
    BY <1>2, <2>1, <2>2 DEF TypeInv, RunOK, EntryOK, NoIndex, NoEntry, NothingPicked, Collects
<1>4. QED
  BY <1>2, <1>3, NoIndexOK DEF IndexInv, IndexOK, Files

LEMMA IndexStep ==
  ASSUME IndexInv, TypeInv, TypeInv', [Next]_vars
  PROVE  IndexInv'
<1>1. CASE UNCHANGED vars
  BY <1>1, Zenon DEF vars, collectVars, transcripts, IndexInv, EntryOK, RunOK
<1>2. QED
  BY <1>1, StepIs, WorldOK, LoadOK, LookOK, ScanOK, ChooseOK, CopyOK, ReplaceOK, SaveOK, DropsOK,
     MovesOK, Zenon

-----------------------------------------------------------------------------
(* The copies                                                               *)

RawGrows ==
    \A f \in Local : raw[f] <= raw'[f]

LEMMA RunCopiesStay ==
  ASSUME TypeInv, TypeInv', IndexInv, RawGrows, mishaps \subseteq mishaps',
         NEW run \in RunRecords, run.pc = "replace" => run.file \in Local,
         RunCopies(run), raw' = raw \/ ~Collects(run)
  PROVE  RunCopies(run)'
<1>1. run.index \in [Files -> Entries] /\ run.picked \in [Files -> Nat] /\ run.seen \in Nat
  BY DEF RunRecords
<1>2. CASE raw' = raw
  BY <1>2 DEF RunCopies, CopiesOK, PickedOK, Unless, Ingested, Collects
<1>3. CASE ~Collects(run)
  <2>1. ASSUME NEW f \in Local, NEW n \in Nat, n <= raw[f]
        PROVE  n <= raw'[f]
    <3> DEFINE a == raw[f]
               b == raw'[f]
    <3>1. a \in Nat /\ b \in Nat /\ a <= b /\ n <= a
      BY <2>1 DEF TypeInv, RawGrows
    <3> HIDE DEF a, b
    <3>2. n <= b
      BY <3>1
    <3>3. QED
      BY <3>2 DEF b
  <2>2. CopiesOK(run.index)'
    <3>1. SUFFICES ASSUME NEW f \in Local
                   PROVE  run.index[f].ingested <= raw'[f]
      BY DEF CopiesOK
    <3>2. run.index[f].ingested \in Nat /\ run.index[f].ingested <= raw[f]
      BY <1>1 DEF RunCopies, CopiesOK, Entries, Files
    <3>3. QED
      BY <2>1, <3>2
  <2>3. ~Unless({"refresh"})' => \A f \in Local : PickedOK(run, f)'
    <3>1. SUFFICES ASSUME ~Unless({"refresh"})', NEW f \in Local
                   PROVE  PickedOK(run, f)'
      OBVIOUS
    <3>2. PickedOK(run, f)
      BY <3>1 DEF RunCopies, Unless
    <3>3. run.pc = "collected" => run.picked[f] <= raw'[f]
      BY <1>1, <2>1, <3>2 DEF PickedOK, Files
    <3>4. QED
      BY <1>3, <3>3, Zenon DEF PickedOK, Collects
  <2>4. QED
    BY <1>3, <2>2, <2>3 DEF RunCopies, Collects
<1>4. QED
  BY <1>2, <1>3

Alone(r) == \A q \in Runs : q # r => ~Collects(runs[q])

LEMMA CopiesAt ==
  ASSUME TypeInv, TypeInv', IndexInv, CopyInv, RawGrows, mishaps \subseteq mishaps',
         NEW r \in Runs, NEW new, Becomes(r, new),
         ~Unless({"overlap"})' => /\ RunCopies(new)' /\ CopiesOK(index)'
                                  /\ Collects(new) => Alone(r)
                                  /\ raw' = raw \/ Alone(r)
  PROVE  CopyInv'
<1>1. SUFFICES ASSUME ~Unless({"overlap"})'
               PROVE  /\ \A q, s \in Runs : Collects(runs[q])' /\ Collects(runs[s])' => q = s
                      /\ CopiesOK(index)'
                      /\ \A q \in Runs : RunCopies(runs[q])'
  BY DEF CopyInv
<1>2. /\ RunCopies(new)' /\ CopiesOK(index)'
      /\ Collects(new) => Alone(r)
      /\ raw' = raw \/ Alone(r)
      /\ ~Unless({"overlap"})
  BY <1>1 DEF Unless
<1>3. /\ \A q, s \in Runs : Collects(runs[q]) /\ Collects(runs[s]) => q = s
      /\ \A q \in Runs : RunCopies(runs[q])
  BY <1>2 DEF CopyInv
<1>4. /\ runs'[r] = new /\ \A q \in Runs : q # r => runs'[q] = runs[q]
  BY DEF Becomes, TypeInv
<1>5. \A q, s \in Runs : Collects(runs'[q]) /\ Collects(runs'[s]) => q = s
  BY <1>2, <1>3, <1>4 DEF Alone, Collects
<1>6. ASSUME NEW q \in Runs, NEW run, run = runs'[q]
      PROVE  RunCopies(run)'
  <2>1. CASE q = r
    BY <1>2, <1>4, <1>6, <2>1
  <2>2. CASE q # r
    <3>1. run \in RunRecords /\ run = runs[q]
      BY <1>4, <1>6, <2>2 DEF TypeInv
    <3>2. RunCopies(run) /\ RunOK(run)
      BY <1>3, <3>1 DEF IndexInv
    <3>3. run.pc = "replace" => run.file \in Local
      BY <3>2 DEF RunOK
    <3>4. raw' = raw \/ ~Collects(run)
      BY <1>2, <2>2, <3>1 DEF Alone
    <3>5. QED
      BY <3>1, <3>2, <3>3, <3>4, RunCopiesStay
  <2>3. QED
    BY <2>1, <2>2
<1>7. \A q \in Runs : \A run : run = runs'[q] => RunCopies(run)'
  BY <1>6
<1>8. \A q \in Runs : RunCopies(runs[q])'
  BY <1>7 DEF RunCopies, CopiesOK, PickedOK
<1>9. QED
  BY <1>2, <1>5, <1>8 DEF Collects

(* A step of one run that leaves the copies and the index alone. *)
LEMMA CopiesCalm ==
  ASSUME TypeInv, TypeInv', IndexInv, CopyInv, Calm,
         NEW r \in Runs, NEW new, Becomes(r, new),
         Collects(new) => Collects(runs[r]),
         ~Unless({"overlap"}) => RunCopies(new)
  PROVE  CopyInv'
<1>1. RawGrows /\ mishaps \subseteq mishaps' /\ raw' = raw
  BY DEF RawGrows, TypeInv, Calm
<1>2. ASSUME ~Unless({"overlap"})'
      PROVE  RunCopies(new)' /\ CopiesOK(index)' /\ (Collects(new) => Alone(r))
  <2>1. ~Unless({"overlap"}) /\ RunCopies(new)
    BY <1>2 DEF Unless, Calm
  <2>2. RunCopies(new)'
    BY <2>1 DEF RunCopies, CopiesOK, PickedOK, Unless, Calm
  <2>3. CopiesOK(index)'
    BY <2>1 DEF CopyInv, CopiesOK, Calm
  <2>4. Collects(new) => Alone(r)
    BY <2>1 DEF CopyInv, Alone
  <2>5. QED
    BY <2>2, <2>3, <2>4
<1>3. ~Unless({"overlap"})' => /\ RunCopies(new)' /\ CopiesOK(index)'
                               /\ Collects(new) => Alone(r)
                               /\ raw' = raw \/ Alone(r)
  BY <1>1, <1>2
<1>4. QED
  BY <1>1, <1>3, CopiesAt

LEMMA NoRunCopies ==
  ASSUME TypeInv, NEW run, run = NoRun
  PROVE  RunCopies(run) /\ ~Collects(run)
<1>1. run.pc = "idle" /\ run.index = NoIndex
  BY NoRunIs
<1> HIDE DEF NoRun
<1>2. QED
  BY <1>1 DEF TypeInv, RunCopies, CopiesOK, PickedOK, Collects, NoIndex, NoEntry, Files

LEMMA LoadCopies ==
  ASSUME TypeInv, TypeInv', IndexInv, CopyInv, NEW r \in Runs, Load(r)
  PROVE  CopyInv'
<1>1. PICK new :
            /\ Becomes(r, new) /\ runs[r].pc = "idle" /\ new.pc = "scan"
            /\ new.index = index /\ new.picked = NothingPicked /\ new.todo = Files
            /\ new.refresh => "refresh" \in mishaps'
            /\ disk' = disk /\ written' = written /\ says' = says
            /\ raw' = raw /\ index' = index /\ mishaps \subseteq mishaps'
            /\ Collecting # {} => "overlap" \in mishaps'
  BY LoadFacts
<1>2. RawGrows
  BY <1>1 DEF RawGrows, TypeInv
<1>3. ASSUME ~Unless({"overlap"})'
      PROVE  RunCopies(new)' /\ CopiesOK(index)' /\ (Collects(new) => Alone(r))
  <2>1. ~Unless({"overlap"}) /\ Collecting = {}
    BY <1>1, <1>3 DEF Unless
  <2>2. CopiesOK(index)'
    BY <1>1, <2>1 DEF CopyInv, CopiesOK
  <2>3. Alone(r)
    BY <2>1 DEF Alone, Collects, Collecting
  <2>4. \A f \in Local : PickedOK(new, f)'
    BY <1>1 DEF PickedOK, NothingPicked, TypeInv, Files
  <2>5. RunCopies(new)'
    <3>1. CopiesOK(new.index)'
      BY <1>1, <2>2 DEF CopiesOK
    <3>2. QED
      BY <1>1, <2>4, <3>1, Zenon DEF RunCopies
  <2>6. QED
    BY <2>2, <2>3, <2>5
<1>4. ~Unless({"overlap"})' => /\ RunCopies(new)' /\ CopiesOK(index)'
                               /\ Collects(new) => Alone(r)
                               /\ raw' = raw \/ Alone(r)
  BY <1>1, <1>3
<1>5. QED
  BY <1>1, <1>2, <1>4, CopiesAt

LEMMA LookCopies ==
  ASSUME TypeInv, TypeInv', IndexInv, CopyInv, NEW r \in Runs, Stat(r) \/ StatPulled(r)
  PROVE  CopyInv'
<1>1. PICK f \in runs[r].todo : \E new :
        /\ Becomes(r, new) /\ Calm /\ runs[r].pc = "scan"
        /\ new.index = runs[r].index /\ new.refresh = runs[r].refresh
        /\ Passes(r, new, f) \/ Opens(r, new, f)
  BY LookFacts, Zenon
<1>2. PICK new :
        /\ Becomes(r, new) /\ Calm /\ runs[r].pc = "scan"
        /\ new.index = runs[r].index /\ new.refresh = runs[r].refresh
        /\ Passes(r, new, f) \/ Opens(r, new, f)
  BY <1>1, Zenon
<1> DEFINE old == runs[r]
<1>3. /\ f \in Files /\ old \in RunRecords /\ RunOK(old) /\ new \in RunRecords
      /\ old.index \in [Files -> Entries] /\ disk[f] \in Nat
      /\ written[f] \in Nat /\ disk[f] \in {0, written[f]}
  BY <1>2 DEF TypeInv, RunRecords, IndexInv, Becomes
<1>4. new.pc \in {"scan", "read"}
  BY <1>2 DEF Passes, Opens
<1>5. ASSUME ~Unless({"overlap"})
      PROVE  RunCopies(new)
  <2>1. RunCopies(old)
    BY <1>5 DEF CopyInv
  <2>2. CopiesOK(new.index) /\ CopiesOK(old.index)
    BY <1>2, <2>1 DEF RunCopies, CopiesOK
  <2>3. ASSUME ~Unless({"refresh"}), NEW g \in Local
        PROVE  PickedOK(new, g)
    <3>1. Ingested(old.index[g], raw[g]) => old.picked[g] <= raw[g]
      BY <1>2, <2>1, <2>3 DEF RunCopies, PickedOK, Collects
    <3>2. Ingested(new.index[g], raw[g]) => new.picked[g] <= raw[g]
      <4>1. CASE Opens(r, new, f) \/ g # f
        <5>1. new.picked[g] = old.picked[g]
          BY <1>2, <4>1 DEF Opens, Passes, Files
        <5>2. QED
          BY <1>2, <3>1, <5>1
      <4>2. CASE Passes(r, new, f) /\ g = f /\ new.picked[f] = 0
        BY <4>2 DEF TypeInv
      <4>3. CASE /\ g = f /\ old.index[f].signature = disk[f] /\ disk[f] # 0
                 /\ new.picked[f] = old.index[f].facts
        <5> DEFINE e == old.index[f]
        <5>1. e \in Entries /\ EntryOK(f, e)
          BY <1>3 DEF RunOK
        <5>6. e.facts <= written[f] /\ written[f] = disk[f] /\ e.signature = disk[f]
          BY <1>3, <4>3, <5>1 DEF EntryOK
        <5>7. e.ingested <= raw[f]
          BY <2>2, <4>3 DEF CopiesOK
        <5>2. e.facts <= e.signature /\ e.ingested <= raw[f]
          BY <5>6, <5>7
        <5>3. raw[f] \in Nat /\ e.facts \in Nat /\ e.signature \in Nat
          BY <4>3, <5>1 DEF TypeInv, Entries
        <5>4. e.ingested = e.signature => e.facts <= raw[f]
          BY <5>2, <5>3
        <5>5. QED
          BY <1>2, <4>3, <5>4 DEF Ingested
      <4>4. QED
        BY <1>2, <4>1, <4>2, <4>3 DEF Passes
    <3> HIDE DEF old
    <3>3. QED
      BY <1>4, <3>2 DEF PickedOK
  <2>4. QED
    BY <1>4, <2>2, <2>3 DEF RunCopies
<1>6. Collects(runs[r])
  BY <1>2 DEF Collects
<1>7. QED
  BY <1>2, <1>5, <1>6, CopiesCalm

LEMMA ScanCopies ==
  ASSUME TypeInv, TypeInv', IndexInv, CopyInv, NEW r \in Runs, Scan(r)
  PROVE  CopyInv'
<1> DEFINE old == runs[r]
           f == runs[r].file
<1>1. /\ f \in Files /\ old \in RunRecords /\ RunOK(old) /\ old.pc = "read"
      /\ old.index \in [Files -> Entries] /\ disk[f] \in Nat /\ old.seen \in Nat
  BY DEF Scan, IndexInv, RunOK, TypeInv, RunRecords
<1>2. /\ Calm
      /\ \E new :
              /\ Becomes(r, new)
              /\ new = NoRun \/ (disk[f] # 0 /\ new.refresh = old.refresh /\ Reads(r, new, f))
  BY <1>1, ScanFacts
<1>3. PICK new :
              /\ Becomes(r, new)
              /\ new = NoRun \/ (disk[f] # 0 /\ new.refresh = old.refresh /\ Reads(r, new, f))
  BY <1>2, Zenon
<1>4. Collects(runs[r])
  BY <1>1 DEF Collects
<1>5. CASE new = NoRun
  BY <1>2, <1>3, <1>5, NoRunCopies, CopiesCalm
<1>6. CASE Reads(r, new, f)
  <2> DEFINE e == old.index[f]
             n == new.index[f]
             seen == old.seen
  <2>1. e \in Entries /\ EntryOK(f, e)
    BY <1>1 DEF RunOK
  <2>2. /\ new.pc = "scan" /\ n = Scanned(e, seen, disk[f])
        /\ \A g \in Files \ {f} : new.index[g] = old.index[g] /\ new.picked[g] = old.picked[g]
    BY <1>1, <1>6 DEF Reads
  <2>3. n.signature = seen /\ n.ingested = e.ingested
    <3> HIDE DEF e, n, seen
    <3>1. QED
      BY <2>1, <2>2 DEF Scanned, Entries
  <2>4. ~Unless({"refresh"}) => n.ingested # n.signature
    <3>1. ~Unless({"refresh"}) => e.signature # seen
      BY <1>1 DEF RunOK, Unless
    <3>2. e.signature <= seen /\ e.ingested <= e.signature
      BY <1>1, <2>1 DEF RunOK, EntryOK
    <3>3. e.ingested \in Nat /\ e.signature \in Nat /\ seen \in Nat
      BY <1>1, <2>1 DEF Entries
    <3> DEFINE i == e.ingested
               s == e.signature
    <3>4. i \in Nat /\ s \in Nat /\ seen \in Nat /\ s <= seen /\ i <= s
      BY <3>2, <3>3
    <3> HIDE DEF i, s, seen
    <3>5. s # seen => i # seen
      BY <3>4
    <3>6. QED
      BY <2>3, <3>1, <3>5 DEF i, s
  <2>5. ASSUME ~Unless({"overlap"})
        PROVE  RunCopies(new)
    <3>1. RunCopies(old)
      BY <2>5 DEF CopyInv
    <3>2. CopiesOK(new.index)
      <4>1. SUFFICES ASSUME NEW g \in Local
                     PROVE  new.index[g].ingested <= raw[g]
        BY DEF CopiesOK
      <4>2. old.index[g].ingested <= raw[g] /\ g \in Files
        BY <3>1 DEF RunCopies, CopiesOK, Files
      <4>3. QED
        BY <2>2, <2>3, <4>2
    <3>3. ASSUME ~Unless({"refresh"}), NEW g \in Local
          PROVE  PickedOK(new, g)
      <4>1. Ingested(old.index[g], raw[g]) => old.picked[g] <= raw[g]
        BY <1>4, <3>1, <3>3 DEF RunCopies, PickedOK
      <4>2. Ingested(new.index[g], raw[g]) => new.picked[g] <= raw[g]
        <5>1. CASE g = f
          BY <2>4, <3>3, <5>1 DEF Ingested
        <5>2. CASE g # f
          BY <2>2, <4>1, <5>2 DEF Files
        <5>3. QED
          BY <5>1, <5>2
      <4>3. QED
        BY <2>2, <4>2 DEF PickedOK
    <3>4. QED
      BY <2>2, <3>2, <3>3 DEF RunCopies
  <2>6. QED
    BY <1>2, <1>3, <1>4, <2>5, CopiesCalm
<1>7. QED
  BY <1>3, <1>5, <1>6

LEMMA ChooseCopies ==
  ASSUME TypeInv, TypeInv', IndexInv, CopyInv, NEW r \in Runs, Choose(r)
  PROVE  CopyInv'
<1> DEFINE old == runs[r]
<1>1. /\ Calm /\ old.pc = "scan"
      /\ \E new :
              /\ Becomes(r, new) /\ new.pc = "copy"
              /\ new.index = old.index /\ new.refresh = old.refresh
              /\ new.todo \subseteq Local
              /\ \A f \in Files : new.picked[f] \in {0, old.picked[f]}
              /\ \A f \in Local \ new.todo : new.picked[f] = 0
  BY ChooseFacts
<1>2. PICK new :
              /\ Becomes(r, new) /\ new.pc = "copy"
              /\ new.index = old.index /\ new.refresh = old.refresh
              /\ new.todo \subseteq Local
              /\ \A f \in Files : new.picked[f] \in {0, old.picked[f]}
              /\ \A f \in Local \ new.todo : new.picked[f] = 0
  BY <1>1, Zenon
<1>3. Collects(runs[r])
  BY <1>1 DEF Collects
<1>4. ASSUME ~Unless({"overlap"})
      PROVE  RunCopies(new)
  <2>1. RunCopies(old)
    BY <1>4 DEF CopyInv
  <2>2. CopiesOK(new.index)
    BY <1>2, <2>1 DEF RunCopies, CopiesOK
  <2>3. ASSUME ~Unless({"refresh"}), NEW g \in Local
        PROVE  PickedOK(new, g)
    <3>1. Ingested(old.index[g], raw[g]) => old.picked[g] <= raw[g]
      BY <1>3, <2>1, <2>3 DEF RunCopies, PickedOK
    <3>2. raw[g] \in Nat /\ new.picked[g] \in {0, old.picked[g]}
      BY <1>2 DEF TypeInv, Files
    <3>3. Ingested(new.index[g], raw[g]) => new.picked[g] <= raw[g]
      BY <1>2, <3>1, <3>2
    <3>4. g \notin new.todo => new.picked[g] <= raw[g]
      BY <1>2, <3>2
    <3>5. QED
      BY <1>2, <3>3, <3>4 DEF PickedOK
  <2>4. QED
    BY <1>2, <2>2, <2>3 DEF RunCopies
<1>5. QED
  BY <1>1, <1>2, <1>3, <1>4, CopiesCalm

LEMMA CopyCopies ==
  ASSUME TypeInv, TypeInv', IndexInv, CopyInv, NEW r \in Runs, Copy(r)
  PROVE  CopyInv'
<1> DEFINE old == runs[r]
<1>1. /\ Calm /\ old.pc = "copy" /\ RunOK(old) /\ old \in RunRecords
  BY CopyFacts DEF IndexInv, TypeInv
<1>2. PICK f \in old.todo : \E new :
              /\ Becomes(r, new)
              /\ \/ new = NoRun
                 \/ /\ Ingested(old.index[f], raw[f]) /\ new.pc = "copy"
                    /\ new.todo = old.todo \ {f}
                    /\ new.index = old.index /\ new.refresh = old.refresh
                    /\ new.picked = old.picked
                 \/ /\ disk[f] # 0 /\ new.pc = "replace" /\ new.file = f /\ new.seen = disk[f]
                    /\ new.todo = old.todo
                    /\ new.index = old.index /\ new.refresh = old.refresh
                    /\ new.picked = old.picked
  BY CopyFacts, Zenon
<1>3. PICK new :
              /\ Becomes(r, new)
              /\ \/ new = NoRun
                 \/ /\ Ingested(old.index[f], raw[f]) /\ new.pc = "copy"
                    /\ new.todo = old.todo \ {f}
                    /\ new.index = old.index /\ new.refresh = old.refresh
                    /\ new.picked = old.picked
                 \/ /\ disk[f] # 0 /\ new.pc = "replace" /\ new.file = f /\ new.seen = disk[f]
                    /\ new.todo = old.todo
                    /\ new.index = old.index /\ new.refresh = old.refresh
                    /\ new.picked = old.picked
  BY <1>2, Zenon
<1>4. Collects(runs[r])
  BY <1>1 DEF Collects
<1>5. CASE new = NoRun
  BY <1>1, <1>3, <1>4, <1>5, NoRunCopies, CopiesCalm
<1>6. CASE new # NoRun
  <2>1. new.index = old.index /\ new.picked = old.picked /\ new.pc \in {"copy", "replace"}
    BY <1>3, <1>6
  <2>2. ASSUME ~Unless({"overlap"})
        PROVE  RunCopies(new)
    <3>1. RunCopies(old)
      BY <2>2 DEF CopyInv
    <3>2. CopiesOK(new.index)
      BY <2>1, <3>1 DEF RunCopies, CopiesOK
    <3>3. new.pc = "replace" => raw[new.file] <= new.seen
      <4>1. f \in Local
        BY <1>1, <1>2 DEF RunOK
      <4>2. raw[f] <= written[f] /\ disk[f] \in {0, written[f]}
        BY <4>1 DEF IndexInv, TypeInv, Files
      <4>3. QED
        BY <1>3, <1>6, <4>2
    <3>4. ASSUME ~Unless({"refresh"}), NEW g \in Local
          PROVE  PickedOK(new, g)
      <4>1. Ingested(old.index[g], raw[g]) => old.picked[g] <= raw[g]
        BY <1>4, <3>1, <3>4 DEF RunCopies, PickedOK
      <4>2. g \notin old.todo => old.picked[g] <= raw[g]
        BY <1>1, <3>1, <3>4 DEF RunCopies, PickedOK
      <4>3. g \notin new.todo => new.picked[g] <= raw[g]
        <5>1. CASE g \notin old.todo
          BY <2>1, <4>2, <5>1
        <5>2. CASE g \in old.todo /\ g \notin new.todo
          <6>1. g = f /\ Ingested(old.index[f], raw[f])
            BY <1>3, <1>6, <5>2
          <6>2. QED
            BY <2>1, <4>1, <6>1
        <5>3. QED
          BY <5>1, <5>2
      <4>4. QED
        BY <2>1, <4>1, <4>3 DEF PickedOK
    <3>5. QED
      BY <3>2, <3>3, <3>4 DEF RunCopies
  <2>3. QED
    BY <1>1, <1>3, <1>4, <2>2, CopiesCalm
<1>7. QED
  BY <1>5, <1>6

LEMMA ReplaceCopies ==
  ASSUME TypeInv, TypeInv', IndexInv, CopyInv, NEW r \in Runs, Replace(r)
  PROVE  CopyInv'
<1> DEFINE old == runs[r]
           f == runs[r].file
<1>1. /\ old.pc = "replace" /\ RunOK(old) /\ old \in RunRecords
      /\ f \in Local /\ f \in Files
  BY DEF Replace, IndexInv, TypeInv, RunOK, Files
<1>2. /\ disk' = disk /\ written' = written /\ says' = says /\ index' = index /\ mishaps' = mishaps
      /\ raw' = [raw EXCEPT ![f] = old.seen]
      /\ \E new :
              /\ Becomes(r, new) /\ new.pc = "copy" /\ new.todo = old.todo \ {f}
              /\ new.index = [old.index EXCEPT ![f].ingested = old.index[f].signature]
              /\ new.refresh = old.refresh /\ new.picked = old.picked
  BY <1>1, ReplaceFacts
<1>3. PICK new :
              /\ Becomes(r, new) /\ new.pc = "copy" /\ new.todo = old.todo \ {f}
              /\ new.index = [old.index EXCEPT ![f].ingested = old.index[f].signature]
              /\ new.refresh = old.refresh /\ new.picked = old.picked
  BY <1>2, Zenon
<1>4. old.index \in [Files -> Entries] /\ old.seen \in Nat /\ old.picked \in [Files -> Nat]
  BY <1>1 DEF RunRecords
<1>5. raw'[f] = old.seen /\ \A g \in Local : g # f => raw'[g] = raw[g]
  BY <1>1, <1>2 DEF TypeInv
<1>6. /\ \A g \in Files : g # f => new.index[g] = old.index[g]
      /\ new.index[f].ingested = old.index[f].signature
  BY <1>1, <1>3, <1>4 DEF Entries
<1>7. old.index[f].facts <= old.seen /\ old.picked[f] \in {0, old.index[f].facts}
  BY <1>1 DEF RunOK, Collects
<1>8. old.index[f].signature <= old.seen /\ old.picked[f] <= old.seen
  <2> DEFINE s == old.index[f].signature
             facts == old.index[f].facts
             seen == old.seen
             p == old.picked[f]
  <2>1. s \in Nat /\ facts \in Nat /\ seen \in Nat /\ s <= facts /\ facts <= seen /\ p \in {0, facts}
    BY <1>1, <1>4, <1>7 DEF RunOK, EntryOK, Entries
  <2> HIDE DEF s, facts, seen, p
  <2>2. s <= seen /\ p <= seen
    BY <2>1
  <2>3. QED
    BY <2>2 DEF s, seen, p
<1>9. ASSUME ~Unless({"overlap"})
      PROVE  /\ \A g \in Local : raw[g] <= raw'[g]
             /\ Alone(r)
             /\ RunCopies(new)'
             /\ CopiesOK(index)'
  <2>1. RunCopies(old)
    BY <1>9 DEF CopyInv
  <2>2. \A g \in Local : raw[g] <= raw'[g]
    <3>1. raw[f] <= old.seen
      BY <1>1, <2>1 DEF RunCopies
    <3>2. \A g \in Local : raw[g] \in Nat
      BY DEF TypeInv
    <3> HIDE DEF old, f
    <3>3. QED
      BY <1>5, <3>1, <3>2
  <2>3. Alone(r)
    BY <1>1, <1>9 DEF CopyInv, Alone, Collects
  <2>4. ASSUME NEW entries \in [Files -> Entries], CopiesOK(entries)
        PROVE  \A g \in Local : entries[g].ingested <= raw'[g]
    <3>1. SUFFICES ASSUME NEW g \in Local
                   PROVE  entries[g].ingested <= raw'[g]
      OBVIOUS
    <3> DEFINE i == entries[g].ingested
               a == raw[g]
               b == raw'[g]
    <3>2. i \in Nat /\ a \in Nat /\ b \in Nat /\ i <= a /\ a <= b
      BY <2>2, <2>4 DEF CopiesOK, Entries, Files, TypeInv
    <3> HIDE DEF i, a, b
    <3>3. i <= b
      BY <3>2
    <3>4. QED
      BY <3>3 DEF i, b
  <2>5. CopiesOK(index)'
    BY <1>2, <1>9, <2>4 DEF CopyInv, CopiesOK, TypeInv
  <2>6. CopiesOK(new.index)'
    <3>1. SUFFICES ASSUME NEW g \in Local
                   PROVE  new.index[g].ingested <= raw'[g]
      BY DEF CopiesOK
    <3>2. \A h \in Local : old.index[h].ingested <= raw'[h]
      BY <1>4, <2>1, <2>4 DEF RunCopies
    <3>3. QED
      BY <1>5, <1>6, <1>8, <3>2 DEF Files
  <2>7. ASSUME ~Unless({"refresh"})', NEW g \in Local
        PROVE  PickedOK(new, g)'
    <3>1. ~Unless({"refresh"}) /\ PickedOK(old, g)
      BY <1>2, <2>1, <2>7 DEF Unless, RunCopies
    <3>2. /\ Ingested(new.index[g], raw'[g]) => new.picked[g] <= raw'[g]
          /\ g \notin new.todo => new.picked[g] <= raw'[g]
      <4>1. CASE g = f
        BY <1>3, <1>5, <1>8, <4>1
      <4>2. CASE g # f
        <5>1. /\ Ingested(old.index[g], raw[g]) => old.picked[g] <= raw[g]
              /\ g \notin old.todo => old.picked[g] <= raw[g]
          BY <1>1, <3>1 DEF PickedOK, Collects
        <5>2. QED
          BY <1>3, <1>5, <1>6, <4>2, <5>1 DEF Files
      <4>3. QED
        BY <4>1, <4>2
    <3>3. QED
      BY <1>3, <3>2 DEF PickedOK, Ingested
  <2>8. RunCopies(new)'
    <3>1. \A g \in Local : ~Unless({"refresh"})' => PickedOK(new, g)'
      BY <2>7, Zenon
    <3>2. QED
      BY <1>3, <2>6, <3>1 DEF RunCopies
  <2>9. QED
    BY <2>2, <2>3, <2>5, <2>8
<1>10. CASE Unless({"overlap"})
  BY <1>2, <1>10 DEF CopyInv, Unless
<1>11. CASE ~Unless({"overlap"})
  <2>1. /\ RawGrows /\ mishaps \subseteq mishaps'
        /\ Alone(r) /\ RunCopies(new)' /\ CopiesOK(index)'
    BY <1>2, <1>9, <1>11 DEF RawGrows
  <2>2. QED
    BY <1>3, <2>1, CopiesAt
<1>12. QED
  BY <1>10, <1>11

LEMMA SaveCopies ==
  ASSUME TypeInv, TypeInv', IndexInv, CopyInv, NEW r \in Runs, Save(r)
  PROVE  CopyInv'
<1> DEFINE old == runs[r]
<1>1. RunOK(old) /\ old \in RunRecords /\ old.pc = "copy" /\ old.todo = {}
  BY SaveFacts DEF IndexInv, TypeInv
<1>2. /\ disk' = disk /\ written' = written /\ says' = says
      /\ raw' = raw /\ mishaps' = mishaps /\ index' = old.index
      /\ \E new :
              /\ Becomes(r, new) /\ new.pc = "collected" /\ new.index = NoIndex
              /\ new.refresh = old.refresh /\ new.picked = old.picked
  BY SaveFacts
<1>3. PICK new :
              /\ Becomes(r, new) /\ new.pc = "collected" /\ new.index = NoIndex
              /\ new.refresh = old.refresh /\ new.picked = old.picked
  BY <1>2, Zenon
<1>4. RawGrows
  BY <1>2 DEF RawGrows, TypeInv
<1>5. ASSUME ~Unless({"overlap"})'
      PROVE  RunCopies(new)' /\ CopiesOK(index)'
  <2>1. RunCopies(old)
    BY <1>2, <1>5 DEF CopyInv, Unless
  <2>2. CopiesOK(index)'
    BY <1>2, <2>1 DEF RunCopies, CopiesOK
  <2>3. CopiesOK(new.index)'
    BY <1>2, <1>3 DEF CopiesOK, NoIndex, NoEntry, TypeInv, Files
  <2>4. ASSUME ~Unless({"refresh"})', NEW g \in Local
        PROVE  PickedOK(new, g)'
    <3>1. PickedOK(old, g)
      BY <1>2, <2>1, <2>4 DEF RunCopies, Unless
    <3>2. old.picked[g] <= raw[g]
      BY <1>1, <3>1 DEF PickedOK
    <3>3. QED
      BY <1>2, <1>3, <3>2 DEF PickedOK, Collects
  <2>5. \A g \in Local : ~Unless({"refresh"})' => PickedOK(new, g)'
    BY <2>4, Zenon
  <2>6. RunCopies(new)'
    BY <1>3, <2>3, <2>5 DEF RunCopies
  <2>7. QED
    BY <2>2, <2>6
<1>6. ~Collects(new)
  BY <1>3 DEF Collects
<1>7. QED
  BY <1>2, <1>3, <1>4, <1>5, <1>6, CopiesAt

LEMMA MovesCopies ==
  ASSUME TypeInv, TypeInv', IndexInv, CopyInv, NEW r \in Runs, Moves(r)
  PROVE  CopyInv'
<1> DEFINE old == runs[r]
<1>1. Calm
  BY MovesFacts
<1>2. PICK new :
              /\ Becomes(r, new) /\ new.pc \in {"brief", "compose", "link", "written"}
              /\ new.index = old.index
              /\ new.refresh = old.refresh /\ new.picked = old.picked
  BY MovesFacts
<1>3. ~Collects(new)
  BY <1>2 DEF Collects
<1>4. ASSUME ~Unless({"overlap"})
      PROVE  RunCopies(new)
  <2>1. RunCopies(old)
    BY <1>4 DEF CopyInv
  <2>2. QED
    BY <1>2, <2>1 DEF RunCopies, CopiesOK, PickedOK, Collects
<1>5. QED
  BY <1>1, <1>2, <1>3, <1>4, CopiesCalm

LEMMA DropsCopies ==
  ASSUME TypeInv, TypeInv', IndexInv, CopyInv, NEW r \in Runs, Drops(r)
  PROVE  CopyInv'
<1>1. Calm /\ Becomes(r, NoRun)
  BY DropFacts DEF Drops
<1>2. ASSUME NEW run, run = NoRun
      PROVE  Becomes(r, run) /\ RunCopies(run) /\ ~Collects(run)
  BY <1>1, <1>2, NoRunCopies, Zenon
<1>3. \E run : Becomes(r, run) /\ RunCopies(run) /\ ~Collects(run)
  BY <1>2, Zenon
<1>4. PICK run : Becomes(r, run) /\ RunCopies(run) /\ ~Collects(run)
  BY <1>3, Zenon
<1>5. QED
  BY <1>1, <1>4, CopiesCalm

LEMMA WorldCopies ==
  ASSUME TypeInv, TypeInv', IndexInv, CopyInv, World
  PROVE  CopyInv'
<1>1. runs' = runs /\ raw' = raw /\ mishaps' = mishaps /\ index' \in {index, NoIndex}
  BY WorldFacts
<1>2. SUFFICES ASSUME ~Unless({"overlap"})'
               PROVE  /\ \A q, s \in Runs : Collects(runs[q])' /\ Collects(runs[s])' => q = s
                      /\ CopiesOK(index)'
                      /\ \A q \in Runs : RunCopies(runs[q])'
  BY DEF CopyInv
<1>3. /\ \A q, s \in Runs : Collects(runs[q]) /\ Collects(runs[s]) => q = s
      /\ CopiesOK(index)
      /\ \A q \in Runs : RunCopies(runs[q])
  BY <1>1, <1>2 DEF CopyInv, Unless
<1>4. CopiesOK(index)'
  BY <1>1, <1>3 DEF CopiesOK, NoIndex, NoEntry, TypeInv, Files
<1>5. \A q \in Runs : RunCopies(runs[q])'
  BY <1>1, <1>3 DEF RunCopies, CopiesOK, PickedOK, Unless, Ingested, Collects
<1>6. QED
  BY <1>1, <1>3, <1>4, <1>5 DEF Collects

LEMMA CopyStart == Init => CopyInv
<1>1. SUFFICES ASSUME Init
               PROVE  CopyInv
  OBVIOUS
<1>2. TypeInv /\ index = NoIndex /\ (\A q \in Runs : runs[q] = NoRun)
  BY <1>1, TypeStart DEF Init, CollectInit
<1>3. \A q \in Runs : RunCopies(runs[q]) /\ ~Collects(runs[q])
  BY <1>2, NoRunCopies, Zenon
<1>4. CopiesOK(index)
  BY <1>2 DEF CopiesOK, NoIndex, NoEntry, TypeInv, Files
<1>5. QED
  BY <1>3, <1>4 DEF CopyInv

LEMMA CopyStep ==
  ASSUME IndexInv, CopyInv, TypeInv, TypeInv', [Next]_vars
  PROVE  CopyInv'
<1>1. CASE UNCHANGED vars
  BY <1>1, Zenon DEF vars, collectVars, CopyInv, RunCopies, CopiesOK, PickedOK, Unless, Collects
<1>2. QED
  BY <1>1, StepIs, WorldCopies, LoadCopies, LookCopies, ScanCopies, ChooseCopies, CopyCopies,
     ReplaceCopies, SaveCopies, DropsCopies, MovesCopies, Zenon

-----------------------------------------------------------------------------
(* The index is true                                                        *)

IInv == TypeInv /\ IndexInv /\ CopyInv

LEMMA InvStart == Init => IInv
  BY TypeStart, IndexStart, CopyStart DEF IInv

LEMMA InvStep == IInv /\ [Next]_vars => IInv'
  BY TypeStep, IndexStep, CopyStep DEF IInv

LEMMA Inductive == Spec => []IInv
  BY InvStart, InvStep, PTL DEF Spec

(* What the index knows of a transcript that has not changed since is what   *)
(* the transcript says; and a copy that it calls current is the transcript,  *)
(* unless two runs were at it at once.                                       *)
THEOREM IndexIsTrueAlways == Spec => []IndexIsTrue
<1>1. IInv => IndexIsTrue
  <2>1. SUFFICES ASSUME IInv, NEW f \in Files, disk[f] # 0
                 PROVE  /\ index[f].signature = disk[f] => index[f].facts = disk[f]
                        /\ (f \in Local /\ index[f].ingested = disk[f]) =>
                              raw[f] = disk[f] \/ Unless({"overlap"})
    BY DEF IndexIsTrue
  <2> DEFINE now == disk[f]
             s == index[f].signature
             facts == index[f].facts
             i == index[f].ingested
  <2>2. now \in Nat /\ s \in Nat /\ facts \in Nat /\ i \in Nat
    BY <2>1 DEF IInv, TypeInv, Entries
  <2>7. written[f] = now
    BY <2>1 DEF IInv, TypeInv
  <2>3. i <= s /\ s <= facts /\ facts <= now
    BY <2>1, <2>7 DEF IInv, IndexInv, EntryOK
  <2>4. s = now => facts = now
    <3> HIDE DEF s, facts, now, i
    <3>1. QED
      BY <2>2, <2>3
  <2>5. ASSUME f \in Local, i = now, ~Unless({"overlap"})
        PROVE  raw[f] = now
    <3> DEFINE copy == raw[f]
    <3>1. copy \in Nat /\ copy <= now /\ i <= copy
      BY <2>1, <2>5, <2>7 DEF IInv, TypeInv, IndexInv, CopyInv, CopiesOK
    <3> HIDE DEF copy, now, i
    <3>2. copy = now
      BY <2>2, <2>5, <3>1
    <3>3. QED
      BY <3>2 DEF copy
  <2>6. QED
    BY <2>4, <2>5
<1>2. QED
  BY <1>1, Inductive, PTL

-----------------------------------------------------------------------------
(* A finite set of naturals has a greatest element                          *)

LEMMA Least ==
  ASSUME NEW S, S \subseteq Nat, S # {}
  PROVE  \E x \in S : \A y \in S : x <= y
<1> DEFINE R == OpToRel(<, Nat)
<1>1. IsWellFoundedOn(R, Nat)
  BY NatLessThanWellFounded
<1>2. \A x, y \in Nat : x < y => <<x, y>> \in R
  BY DEF OpToRel
<1> HIDE DEF R
<1>3. PICK x \in S : \A y \in S : <<y, x>> \notin R
  BY <1>1, WFMin
<1>4. ASSUME NEW y \in S
      PROVE  x <= y
  <2>1. ~(y < x)
    BY <1>2, <1>3
  <2>2. QED
    BY <2>1
<1>5. QED
  BY <1>4

Greatest(S) == \E x \in S : \A y \in S : x >= y

LEMMA FiniteHasGreatest ==
  ASSUME NEW S \in SUBSET Nat, IsFiniteSet(S), S # {}
  PROVE  Greatest(S)
<1> DEFINE Without == {T \in SUBSET Nat : IsFiniteSet(T) /\ T # {} /\ ~Greatest(T)}
           sizes == {Cardinality(T) : T \in Without}
<1>1. SUFFICES ASSUME ~Greatest(S)
               PROVE  FALSE
  OBVIOUS
<1>2. sizes \subseteq Nat /\ sizes # {}
  <2>1. \A T \in Without : Cardinality(T) \in Nat
    BY FS_CardinalityType
  <2>2. S \in Without
    BY <1>1
  <2> HIDE DEF Without
  <2>3. QED
    BY <2>1, <2>2
<1>3. PICK n \in sizes : \A m \in sizes : n <= m
  <2> HIDE DEF sizes
  <2>1. QED
    BY <1>2, Least
<1>4. PICK T \in Without : Cardinality(T) = n
  OBVIOUS
<1>5. PICK x \in T : TRUE
  OBVIOUS
<1> DEFINE U == T \ {x}
<1>6. /\ IsFiniteSet(U) /\ U \in SUBSET Nat /\ x \in Nat
      /\ Cardinality(U) = Cardinality(T) - 1 /\ Cardinality(T) \in Nat
  BY <1>4, <1>5, FS_RemoveElement, FS_CardinalityType
<1>7. U \notin Without
  <2>1. SUFFICES ASSUME U \in Without
                 PROVE  FALSE
    OBVIOUS
  <2>2. Cardinality(U) \in sizes
    BY <2>1
  <2>3. n <= Cardinality(U)
    BY <1>3, <2>2
  <2>4. QED
    BY <1>4, <1>6, <2>3
<1>8. CASE U = {}
  <2>1. T = {x}
    BY <1>5, <1>8
  <2>2. Greatest(T)
    BY <1>6, <2>1 DEF Greatest
  <2>3. QED
    BY <1>4, <2>2
<1>9. CASE U # {}
  <2>1. PICK m \in U : \A y \in U : m >= y
    BY <1>6, <1>7, <1>9 DEF Greatest
  <2>2. m \in Nat /\ m \in T /\ T \subseteq Nat
    BY <1>4, <1>6, <2>1
  <2>3. CASE x >= m
    <3>1. \A y \in T : x >= y
      BY <1>6, <2>1, <2>2, <2>3
    <3>2. QED
      BY <1>4, <1>5, <3>1 DEF Greatest
  <2>4. CASE ~(x >= m)
    <3>1. \A y \in T : m >= y
      BY <1>6, <2>1, <2>2, <2>4
    <3>2. QED
      BY <1>4, <2>2, <3>1 DEF Greatest
  <2>5. QED
    BY <2>3, <2>4
<1>10. QED
  BY <1>8, <1>9

LEMMA MaxIsOne ==
  ASSUME NEW S \in SUBSET Nat, IsFiniteSet(S), S # {}
  PROVE  Max(S) \in S
<1>1. \E x \in S : \A y \in S : x >= y
  BY FiniteHasGreatest DEF Greatest
<1>2. QED
  BY <1>1 DEF Max

-----------------------------------------------------------------------------
(* The pipelines                                                            *)

LEMMA CollectKeeps ==
  ASSUME TypeInv, IndexInv, CollectNext
  PROVE  /\ Later
         /\ \A q \in Runs : runs'[q].pc \in Pipelines => runs'[q] = runs[q]
<1>1. CASE World
  BY <1>1, WorldFacts
<1>2. ASSUME NEW r \in Runs, NEW new, Becomes(r, new), new.pc \notin Pipelines
      PROVE  \A q \in Runs : runs'[q].pc \in Pipelines => runs'[q] = runs[q]
  BY <1>2 DEF Becomes, TypeInv
<1>3. ASSUME NEW r \in Runs, Load(r)
      PROVE  Later /\ \E new : Becomes(r, new) /\ new.pc \notin Pipelines
  BY <1>3, LoadFacts, StillIsLater DEF Pipelines
<1>4. ASSUME NEW r \in Runs, Stat(r) \/ StatPulled(r)
      PROVE  Later /\ \E new : Becomes(r, new) /\ new.pc \notin Pipelines
  BY <1>4, LookFacts, CalmIsLater DEF Pipelines, Passes, Opens
<1>5. ASSUME NEW r \in Runs, Scan(r)
      PROVE  Later /\ \E new : Becomes(r, new) /\ new.pc \notin Pipelines
  <2>1. runs[r].file \in Files
    BY <1>5 DEF Scan, IndexInv, RunOK
  <2>2. QED
    BY <1>5, <2>1, ScanFacts, CalmIsLater, NoRunIs DEF Pipelines, Reads
<1>6. ASSUME NEW r \in Runs, Choose(r)
      PROVE  Later /\ \E new : Becomes(r, new) /\ new.pc \notin Pipelines
  BY <1>6, ChooseFacts, CalmIsLater DEF Pipelines
<1>7. ASSUME NEW r \in Runs, Copy(r)
      PROVE  Later /\ \E new : Becomes(r, new) /\ new.pc \notin Pipelines
  BY <1>7, CopyFacts, CalmIsLater, NoRunIs DEF Pipelines
<1>8. ASSUME NEW r \in Runs, Replace(r)
      PROVE  Later /\ \E new : Becomes(r, new) /\ new.pc \notin Pipelines
  <2>1. runs[r].file \in Local
    BY <1>8 DEF Replace, IndexInv, RunOK
  <2>2. QED
    <3>1. /\ disk' = disk /\ written' = written /\ says' = says
          /\ mishaps' = mishaps /\ \E new : Becomes(r, new) /\ new.pc = "copy"
      BY <1>8, <2>1, ReplaceFacts, Zenon
    <3>2. Later
      BY <3>1 DEF Later, TypeInv
    <3>3. QED
      BY <3>1, <3>2 DEF Pipelines
<1>9. ASSUME NEW r \in Runs, Save(r)
      PROVE  Later /\ \E new : Becomes(r, new) /\ new.pc \notin Pipelines
  BY <1>9, SaveFacts, StillIsLater DEF Pipelines
<1>10. ASSUME NEW r \in Runs, DryRunEnds(r) \/ Die(r)
       PROVE  Later /\ \E new : Becomes(r, new) /\ new.pc \notin Pipelines
  <2>1. Calm /\ Becomes(r, NoRun)
    BY <1>10, DropFacts
  <2>2. NoRun.pc \notin Pipelines
    BY NoRunIs DEF Pipelines
  <2>3. QED
    BY <2>1, <2>2, CalmIsLater, Zenon
<1>11. CASE \E r \in Runs : \/ Load(r) \/ Stat(r) \/ StatPulled(r) \/ Scan(r) \/ Choose(r)
                            \/ Copy(r) \/ Replace(r) \/ Save(r) \/ DryRunEnds(r) \/ Die(r)
  <2>1. PICK r \in Runs : Later /\ \E new : Becomes(r, new) /\ new.pc \notin Pipelines
    BY <1>3, <1>4, <1>5, <1>6, <1>7, <1>8, <1>9, <1>10, <1>11, Zenon
  <2>2. QED
    BY <1>2, <2>1, Zenon
<1>12. QED
  BY <1>1, <1>11, Zenon DEF CollectNext, World

LEMMA ReadStays ==
  ASSUME TypeInv, TypeInv', Later, NEW read \in [Files -> Nat], NEW picked, ReadOK(read, picked)
  PROVE  ReadOK(read, picked)'
<1>1. ASSUME NEW f \in Files, NEW n \in Nat, n <= written[f]
      PROVE  n <= written'[f]
  <2>1. written[f] \in Nat /\ written'[f] \in Nat /\ written[f] <= written'[f]
    BY DEF TypeInv, Later
  <2>2. QED
    BY <1>1, <2>1
<1>2. ~Unless({"refresh", "overlap"})' => ~Unless({"refresh", "overlap"})
  BY DEF Unless, Later
<1>3. picked \in [Files -> Nat] /\ \A f \in Files : read[f] <= written'[f] /\ picked[f] <= written'[f]
  BY <1>1 DEF ReadOK
<1>4. QED
  BY <1>2, <1>3 DEF ReadOK

(* A version goes on saying what it said, *)
LEMMA SaysStays ==
  ASSUME TypeInv, Later, NEW f \in Files, NEW v \in Nat, v <= written[f]
  PROVE  says'[f][v] = says[f][v]
  BY DEF TypeInv, Later

(* and so does what is made from it. *)
LEMMA GroundedStays ==
  ASSUME TypeInv, Later, NEW read \in [Files -> Nat], NEW picked, ReadOK(read, picked),
         NEW e, Grounded(read, picked, e)
  PROVE  Grounded(read, picked, e)'
<1>1. \A f \in Files : /\ says'[f][read[f]] = says[f][read[f]]
                      /\ says'[f][picked[f]] = says[f][picked[f]]
  BY SaysStays DEF ReadOK
<1>2. Shown(read)' = Shown(read)
  BY <1>1 DEF Shown, Ids
<1>3. QED
  BY <1>1, <1>2 DEF Grounded

LEMMA PipeStays ==
  ASSUME TypeInv, TypeInv', Later, NEW run, NEW j \in JobRecords, PipeOK(run, j)
  PROVE  PipeOK(run, j)'
<1>1. j.read \in [Files -> Nat]
  BY DEF JobRecords
<1>2. run.pc \in Pipelines => ReadOK(j.read, run.picked)'
  BY <1>1, ReadStays DEF PipeOK
<1>3. run.pc \in {"link", "written"} =>
          ReadOK(j.read, run.picked) /\ \A e \in j.entries : Grounded(j.read, run.picked, e)
  BY DEF PipeOK, Pipelines
<1>4. run.pc \in {"link", "written"} => \A e \in j.entries : Grounded(j.read, run.picked, e)'
  BY <1>1, <1>3, GroundedStays
<1>5. QED
  BY <1>2, <1>4 DEF PipeOK

LEMMA NoJobIs == NoJob \in JobRecords /\ NoJob.read = NothingPicked /\ NoJob.entries = {}
  BY NoRunIs DEF NoJob, JobRecords

LEMMA CollectJobs ==
  ASSUME TypeInv, TypeInv', IndexInv, JobInv, CollectNext,
         job' = [q \in Runs |-> IF runs'[q].pc = "idle" THEN NoJob ELSE job[q]]
  PROVE  JobInv'
<1>1. job' \in [Runs -> JobRecords]
  BY NoJobIs DEF JobInv
<1>2. Later /\ \A q \in Runs : runs'[q].pc \in Pipelines => runs'[q] = runs[q]
  BY CollectKeeps
<1>3. ASSUME NEW q \in Runs, NEW run, NEW j, run = runs'[q], j = job'[q]
      PROVE  PipeOK(run, j)'
  <2>1. CASE run.pc \notin Pipelines
    BY <2>1 DEF PipeOK, Pipelines
  <2>2. CASE run.pc \in Pipelines
    <3>1. run = runs[q] /\ j = job[q] /\ j \in JobRecords
      BY <1>2, <1>3, <2>2 DEF JobInv, Pipelines
    <3>2. PipeOK(run, j)
      BY <3>1 DEF JobInv
    <3>3. QED
      BY <1>2, <3>1, <3>2, PipeStays
  <2>3. QED
    BY <2>1, <2>2
<1>4. \A q \in Runs : \A run, j : run = runs'[q] /\ j = job'[q] => PipeOK(run, j)'
  BY <1>3
<1>5. \A q \in Runs : PipeOK(runs[q], job[q])'
  BY <1>4 DEF PipeOK, ReadOK, Grounded, Shown
<1>6. QED
  BY <1>1, <1>5 DEF JobInv

(* A step of one pipeline. *)
LEMMA PipeAt ==
  ASSUME TypeInv, TypeInv', JobInv, Calm, NEW r \in Runs, NEW new, NEW j \in JobRecords,
         Becomes(r, new), job' = [job EXCEPT ![r] = j], PipeOK(new, j)
  PROVE  JobInv'
<1>1. /\ job' \in [Runs -> JobRecords]
      /\ job'[r] = j /\ \A q \in Runs : q # r => job'[q] = job[q]
      /\ runs'[r] = new /\ \A q \in Runs : q # r => runs'[q] = runs[q]
  BY DEF JobInv, Becomes, TypeInv
<1>2. Later
  BY CalmIsLater
<1>3. ASSUME NEW q \in Runs, NEW run, NEW k, run = runs'[q], k = job'[q]
      PROVE  PipeOK(run, k)'
  <2>1. PipeOK(run, k)
    BY <1>1, <1>3 DEF JobInv
  <2>2. k \in JobRecords
    BY <1>1, <1>3
  <2>3. QED
    BY <1>2, <2>1, <2>2, PipeStays
<1>4. \A q \in Runs : \A run, k : run = runs'[q] /\ k = job'[q] => PipeOK(run, k)'
  BY <1>3
<1>5. \A q \in Runs : PipeOK(runs[q], job[q])'
  BY <1>4 DEF PipeOK, ReadOK, Grounded, Shown
<1>6. QED
  BY <1>1, <1>5 DEF JobInv

LEMMA StopJobs ==
  ASSUME TypeInv, TypeInv', JobInv, NEW r \in Runs, Stop(r)
  PROVE  JobInv'
<1>1. Calm /\ Becomes(r, NoRun)
  BY DropFacts
<1>2. job' = [job EXCEPT ![r] = NoJob]
  BY DEF Stop
<1>3. \A run : run = NoRun => Becomes(r, run) /\ PipeOK(run, NoJob)
  <2>1. NoRun.pc = "idle"
    BY NoRunIs
  <2> HIDE DEF NoRun
  <2>2. QED
    BY <1>1, <2>1 DEF PipeOK, Pipelines
<1>4. PICK run : Becomes(r, run) /\ PipeOK(run, NoJob)
  BY <1>3, Zenon
<1>5. QED
  BY <1>1, <1>2, <1>4, NoJobIs, PipeAt

(* A pipeline that goes on has read what it had read. *)
LEMMA MoveJobs ==
  ASSUME TypeInv, TypeInv', JobInv, NEW r \in Runs, NEW pc \in Pipelines, NEW j \in JobRecords,
         Move(r, pc, j),
         ReadOK(j.read, runs[r].picked),
         pc \in {"link", "written"} => \A e \in j.entries : Grounded(j.read, runs[r].picked, e)
  PROVE  JobInv'
<1>1. pc \in RunSteps
  BY DEF Pipelines, RunSteps
<1>2. /\ Calm /\ job' = [job EXCEPT ![r] = j]
      /\ \E new : /\ Becomes(r, new) /\ new.pc = pc /\ new.index = runs[r].index
                  /\ new.refresh = runs[r].refresh /\ new.picked = runs[r].picked
  BY <1>1, MoveFacts
<1>3. PICK new : Becomes(r, new) /\ new.pc = pc /\ new.picked = runs[r].picked
  BY <1>2
<1>4. PipeOK(new, j)
  BY <1>3 DEF PipeOK
<1>5. QED
  BY <1>2, <1>3, <1>4, PipeAt

LEMMA GoalsAreShown ==
  ASSUME NEW j
  PROVE  /\ Goals(j) = Shown(j.read) /\ Goals(j) \subseteq Ids
         /\ Excerpts(j) \subseteq Goals(j)
  BY DEF Goals, Shown, Excerpts

(* A session that is not there ends the run. *)
LEMMA DistillJobs ==
  ASSUME TypeInv, TypeInv', IndexInv, CopyInv, JobInv, NEW r \in Runs, Distill(r)
  PROVE  JobInv'
<1> DEFINE picked == runs[r].picked
           read == [f \in Files |-> IF f \in Picked(r) THEN StoredPath(f) ELSE 0]
           j == [NoJob EXCEPT !.todo = Picked(r), !.read = read]
<1>0. runs[r].pc = "collected"
  BY DEF Distill
<1>9. CASE Stop(r)
  BY <1>9, StopJobs
<1>10. SUFFICES ASSUME \A f \in Picked(r) : StoredPath(f) # 0, Move(r, "brief", j)
                PROVE  JobInv'
  BY <1>9, Zenon DEF Distill
<1>1. Move(r, "brief", j) /\ runs[r].pc = "collected"
  BY <1>0, <1>10
<1>2. picked \in [Files -> Nat] /\ Picked(r) = {f \in Files : picked[f] # 0}
  BY DEF TypeInv, RunRecords, Picked
<1>3. ASSUME NEW f \in Files
      PROVE  /\ StoredPath(f) \in Nat
             /\ StoredPath(f) <= written[f] /\ written[f] \in Nat /\ picked[f] <= written[f]
             /\ ~Unless({"refresh", "overlap"}) /\ f \in Picked(r) => StoredPath(f) >= picked[f]
  <2>3. written[f] \in Nat /\ disk[f] \in {0, written[f]} /\ picked[f] \in Nat /\ picked[f] <= written[f]
    BY <1>2 DEF TypeInv, IndexInv, RunOK
  <2>1. CASE f \in Local
    <3>1. StoredPath(f) = raw[f] /\ raw[f] \in Nat
      BY <2>1 DEF StoredPath, TypeInv
    <3>2. raw[f] <= written[f]
      BY <2>1 DEF IndexInv
    <3>3. ASSUME ~Unless({"refresh", "overlap"})
          PROVE  picked[f] <= raw[f]
      <4>1. ~Unless({"refresh"}) /\ ~Unless({"overlap"})
        BY <3>3 DEF Unless
      <4>2. PickedOK(runs[r], f)
        BY <2>1, <4>1 DEF CopyInv, RunCopies
      <4>3. QED
        BY <1>1, <4>2 DEF PickedOK
    <3> HIDE DEF picked
    <3>4. QED
      BY <2>3, <3>1, <3>2, <3>3
  <2>2. CASE f \notin Local
    <3>1. StoredPath(f) = disk[f] /\ (f \in Picked(r) => disk[f] # 0)
      BY <1>10, <2>2 DEF StoredPath
    <3> HIDE DEF picked
    <3>2. QED
      BY <2>3, <3>1
  <2>4. QED
    BY <2>1, <2>2
<1>4. read \in [Files -> Nat]
  BY <1>3
<1>5. ReadOK(read, picked)
  <2>1. ASSUME NEW f \in Files
        PROVE  /\ picked[f] = 0 => read[f] = 0
               /\ read[f] <= written[f] /\ picked[f] <= written[f]
               /\ ~Unless({"refresh", "overlap"}) => read[f] >= picked[f]
    <3>1. CASE picked[f] = 0
      <4>1. read[f] = 0
        BY <1>2, <3>1
      <4>2. QED
        BY <1>3, <3>1, <4>1
    <3>2. CASE picked[f] # 0
      <4>1. read[f] = StoredPath(f) /\ f \in Picked(r)
        BY <1>2, <3>2
      <4> HIDE DEF picked, read
      <4>2. QED
        BY <1>3, <3>2, <4>1
    <3>3. QED
      BY <3>1, <3>2
  <2>2. picked \in [Files -> Nat]
    BY <1>2
  <2> HIDE DEF picked, read
  <2>3. QED
    BY <2>1, <2>2 DEF ReadOK
<1>6. j \in JobRecords /\ j.read = read
  <2>1. Picked(r) \in SUBSET Files
    BY DEF Picked
  <2> HIDE DEF read
  <2>2. QED
    BY <1>4, <2>1, NoJobIs DEF JobRecords
<1> HIDE DEF j, read
<1>7. ReadOK(j.read, runs[r].picked)
  BY <1>5, <1>6
<1>8. QED
  BY <1>1, <1>6, <1>7, MoveJobs DEF Pipelines

(* What a pipeline knows when it goes on. *)
LEMMA PipeKnows ==
  ASSUME JobInv, NEW r \in Runs, runs[r].pc \in Pipelines
  PROVE  /\ job[r] \in JobRecords
         /\ ReadOK(job[r].read, runs[r].picked)
         /\ runs[r].pc = "link" => \A e \in job[r].entries : Grounded(job[r].read, runs[r].picked, e)
  BY DEF JobInv, PipeOK

LEMMA BriefJobs ==
  ASSUME TypeInv, TypeInv', JobInv, NEW r \in Runs, Brief(r)
  PROVE  JobInv'
<1>1. PICK f \in job[r].todo, found \in Found :
          Move(r, "brief", [job[r] EXCEPT !.todo = @ \ {f}, !.briefed = @ \/ found = "object"])
  BY Zenon DEF Brief
<1>2. job[r] \in JobRecords /\ ReadOK(job[r].read, runs[r].picked)
  BY PipeKnows DEF Brief, Pipelines
<1> DEFINE j == [job[r] EXCEPT !.todo = @ \ {f}, !.briefed = @ \/ found = "object"]
<1>3. j \in JobRecords /\ j.read = job[r].read
  <2> DEFINE told == job[r].briefed \/ found = "object"
             i == job[r]
             left == i.todo \ {f}
  <2>1. i \in JobRecords /\ told \in BOOLEAN /\ j = [i EXCEPT !.todo = left, !.briefed = told]
    BY <1>2
  <2> HIDE DEF told, i, j
  <2>2. left \in SUBSET Files
    BY <2>1 DEF JobRecords
  <2> HIDE DEF left
  <2>3. j \in JobRecords /\ j.read = i.read
    BY <2>1, <2>2 DEF JobRecords
  <2>4. QED
    BY <2>3 DEF i
<1>4. Move(r, "brief", j)
  BY <1>1
<1> HIDE DEF j
<1>5. QED
  BY <1>2, <1>3, <1>4, MoveJobs DEF Pipelines

LEMMA EndBriefsJobs ==
  ASSUME TypeInv, TypeInv', JobInv, NEW r \in Runs, EndBriefs(r)
  PROVE  JobInv'
<1>1. job[r] \in JobRecords /\ ReadOK(job[r].read, runs[r].picked)
  BY PipeKnows DEF EndBriefs, Pipelines
<1>2. CASE Move(r, "compose", job[r])
  BY <1>1, <1>2, MoveJobs DEF Pipelines
<1>3. CASE Stop(r)
  BY <1>3, StopJobs
<1>4. QED
  BY <1>2, <1>3, Zenon DEF EndBriefs

LEMMA LinkNothingJobs ==
  ASSUME TypeInv, TypeInv', JobInv, NEW r \in Runs, LinkNothing(r)
  PROVE  JobInv'
<1>1. /\ job[r] \in JobRecords /\ ReadOK(job[r].read, runs[r].picked)
      /\ \A e \in job[r].entries : Grounded(job[r].read, runs[r].picked, e)
      /\ Move(r, "written", job[r])
  BY PipeKnows DEF LinkNothing, Pipelines
<1>2. QED
  BY <1>1, MoveJobs DEF Pipelines

(* The last of some days is one of them. *)
LEMMA LastDay ==
  ASSUME NEW beats \in SUBSET Ids, beats # {}
  PROVE  \E id \in beats : Max({Day(i) : i \in beats}) = Day(id)
<1> DEFINE days == {Day(i) : i \in beats}
<1>1. days \subseteq 1 .. MaxDay /\ days # {} /\ MaxDay \in Int
  BY CollectConstants DEF Ids, Day, Days
<1>2. IsFiniteSet(1 .. MaxDay)
  BY <1>1, FS_Interval
<1>3. IsFiniteSet(days) /\ days \in SUBSET Nat
  <2> DEFINE all == 1 .. MaxDay
  <2>1. days \in SUBSET all /\ all \subseteq Nat /\ IsFiniteSet(all)
    BY <1>1, <1>2
  <2> HIDE DEF days, all
  <2>2. QED
    BY <2>1, FS_Subset
<1>4. Max(days) \in days
  <2> HIDE DEF days
  <2>1. QED
    BY <1>1, <1>3, MaxIsOne
<1>5. QED
  BY <1>4

(* The last of some sessions' days is one of them, when there is one. *)
LEMMA LastSession ==
  ASSUME NEW days \in [Files -> SUBSET Days], NEW sessions \in SUBSET Files,
         NEW last, last = Max((UNION {days[f] : f \in sessions}) \cup {0})
  PROVE  last = 0 \/ (last \in Days /\ \E f \in Files : last \in days[f])
<1> DEFINE some == UNION {days[f] : f \in sessions}
<1>1. IsFiniteSet(Days) /\ Days \subseteq Nat
  BY CollectConstants, FS_Interval DEF Days
<1>2. some \subseteq Days
  OBVIOUS
<1>3. last \in some \cup {0}
  <2>0. last = Max(some \cup {0})
    OBVIOUS
  <2> HIDE DEF some
  <2>1. IsFiniteSet(some)
    BY <1>1, <1>2, FS_Subset
  <2>2. IsFiniteSet(some \cup {0}) /\ some \cup {0} \in SUBSET Nat
    BY <1>1, <1>2, <2>1, FS_AddElement
  <2>3. QED
    BY <2>0, <2>2, MaxIsOne
<1>4. \A day \in some : day \in Days /\ \E f \in Files : day \in days[f]
  OBVIOUS
<1>5. last \in some \/ last = 0
  BY <1>3
<1> HIDE DEF some
<1>6. QED
  BY <1>4, <1>5

LEMMA ResolvedIs ==
  ASSUME NEW e \in Replied, NEW j \in JobRecords, NEW days \in [Files -> SUBSET Days],
         NEW picked, \A f \in Files : days[f] = says[f][picked[f]] /\ says[f][0] = {}
  PROVE  /\ Resolved(e, j, days) \in EntryRecords
         /\ Grounded(j.read, picked, Resolved(e, j, days))
<1> DEFINE beats == e.beats \cap Goals(j)
           date == CASE beats # {} -> Max({Day(id) : id \in beats})
                     [] beats = {} /\ e.date # 0 -> e.date
                     [] OTHER -> Max((UNION {days[f] : f \in e.sessions}) \cup {0})
           n == Resolved(e, j, days)
<1>1. /\ n = [beats |-> beats, evidence |-> e.evidence, date |-> date]
  BY Zenon DEF Resolved
<1>2. /\ e.beats \in SUBSET Ids /\ e.date \in {0, Claimed} /\ e.evidence \in {{}, {MadeUp}}
      /\ e.sessions \in SUBSET Files
  BY DEF Replied
<1>3. beats \in SUBSET Ids /\ beats \subseteq Shown(j.read)
  BY <1>2, GoalsAreShown
<1>4. Claimed \in Nat
  BY CollectConstants DEF Claimed
<1>5. MadeUp \in References
  BY DEF MadeUp, References
<1>6. /\ date \in Nat
      /\ \/ date = 0 \/ (date = Claimed /\ beats = {})
         \/ \E id \in beats : date = Day(id)
         \/ \E f \in Files : picked[f] # 0 /\ date \in says[f][picked[f]]
  <2>1. CASE beats # {}
    <3>1. \E id \in beats : Max({Day(i) : i \in beats}) = Day(id)
      BY <1>3, <2>1, LastDay
    <3>2. date = Max({Day(i) : i \in beats})
      BY <2>1, Zenon
    <3>3. \A id \in beats : Day(id) \in Nat
      BY <1>3 DEF Ids, Day, Days
    <3> HIDE DEF date, beats
    <3>4. QED
      BY <3>1, <3>2, <3>3
  <2>2. CASE beats = {} /\ e.date # 0
    <3>1. date = e.date
      BY <2>2, Zenon
    <3> HIDE DEF date, beats
    <3>2. QED
      BY <1>2, <1>4, <2>2, <3>1
  <2>3. CASE beats = {} /\ e.date = 0
    <3> DEFINE last == Max((UNION {days[f] : f \in e.sessions}) \cup {0})
    <3>1. date = last
      BY <2>3, Zenon
    <3>2. last = 0 \/ (last \in Days /\ \E f \in Files : last \in days[f])
      BY <1>2, LastSession
    <3>3. Days \subseteq Nat
      BY DEF Days
    <3> HIDE DEF date, beats, last
    <3>4. ASSUME NEW f \in Files, last \in days[f]
          PROVE  picked[f] # 0 /\ last \in says[f][picked[f]]
      BY <3>4
    <3>5. CASE last = 0
      BY <3>1, <3>5
    <3>6. CASE last # 0
      <4>1. PICK f \in Files : last \in days[f]
        BY <3>2, <3>6
      <4>2. picked[f] # 0 /\ date \in says[f][picked[f]]
        BY <3>1, <3>4, <4>1
      <4>3. date \in Nat
        BY <3>1, <3>2, <3>3, <3>6
      <4>4. QED
        BY <4>2, <4>3, Zenon
    <3>7. QED
      BY <3>5, <3>6
  <2>4. QED
    BY <2>1, <2>2, <2>3
<1> HIDE DEF beats, date, n
<1>7. /\ n.beats = beats /\ n.evidence = e.evidence /\ n.date = date
  BY <1>1
<1>8. n \in EntryRecords
  BY <1>1, <1>2, <1>3, <1>5, <1>6 DEF EntryRecords
<1>9. Grounded(j.read, picked, n)
  <2>1. n.evidence \ {MadeUp} = {}
    BY <1>2, <1>7
  <2>2. QED
    BY <1>3, <1>6, <1>7, <2>1 DEF Grounded
<1>10. QED
  BY <1>8, <1>9 DEF n

LEMMA ComposeJobs ==
  ASSUME TypeInv, TypeInv', JobInv, NEW r \in Runs, Compose(r)
  PROVE  JobInv'
<1>1. job[r] \in JobRecords /\ ReadOK(job[r].read, runs[r].picked)
  BY PipeKnows DEF Compose, Pipelines
<1>2. PICK entries \in {{}} \cup {{e} : e \in Replied} :
          Move(r, "link", [job[r] EXCEPT
                  !.entries = {Resolved(e, job[r], PickedDays(r)) : e \in entries}])
  BY Zenon DEF Compose
<1> DEFINE i == job[r]
           picked == runs[r].picked
           days == PickedDays(r)
           some == {Resolved(e, i, days) : e \in entries}
           j == [i EXCEPT !.entries = some]
<1>3. i \in JobRecords /\ entries \subseteq Replied
  BY <1>1, <1>2
<1>9. days \in [Files -> SUBSET Days] /\ \A f \in Files : days[f] = says[f][picked[f]] /\ says[f][0] = {}
  <2>1. ASSUME NEW f \in Files
        PROVE  picked[f] \in 0 .. MaxVersion
    <3>1. /\ picked[f] \in Nat /\ written[f] \in Nat /\ MaxVersion \in Nat
          /\ picked[f] <= written[f] /\ written[f] <= MaxVersion
      BY <1>1, CollectConstants DEF ReadOK, TypeInv
    <3> HIDE DEF picked
    <3>2. QED
      BY <3>1
  <2>2. says \in [Files -> [0 .. MaxVersion -> SUBSET Days]] /\ \A f \in Files : says[f][0] = {}
    BY Zenon DEF TypeInv
  <2>3. days = [f \in Files |-> says[f][picked[f]]]
    BY DEF PickedDays
  <2> HIDE DEF picked, days
  <2>4. \A f \in Files : says[f][picked[f]] \in SUBSET Days
    BY <2>1, <2>2
  <2>5. days \in [Files -> SUBSET Days]
    BY <2>3, <2>4
  <2>6. \A f \in Files : days[f] = says[f][picked[f]]
    BY <2>3
  <2>7. QED
    BY <2>2, <2>5, <2>6, Zenon
<1>4. \A e \in entries : /\ Resolved(e, i, days) \in EntryRecords
                         /\ Grounded(i.read, picked, Resolved(e, i, days))
  <2> HIDE DEF i, picked, days
  <2>1. QED
    BY <1>3, <1>9, ResolvedIs
<1>5. some \in SUBSET EntryRecords /\ \A e \in some : Grounded(i.read, picked, e)
  <2> HIDE DEF i, picked, days
  <2>1. QED
    BY <1>4
<1>6. j \in JobRecords /\ j.read = i.read /\ j.entries = some
  <2> HIDE DEF i, some
  <2>1. QED
    BY <1>3, <1>5 DEF JobRecords
<1>7. Move(r, "link", j)
  BY <1>2
<1> HIDE DEF j, some
<1>8. QED
  BY <1>1, <1>5, <1>6, <1>7, MoveJobs DEF Pipelines

LEMMA AttachedIs ==
  ASSUME NEW e \in EntryRecords, NEW l \in Links, NEW j \in JobRecords, NEW picked,
         Grounded(j.read, picked, e)
  PROVE  /\ Attached(e, {l}, Excerpts(j), Commits) \in EntryRecords
         /\ Grounded(j.read, picked, Attached(e, {l}, Excerpts(j), Commits))
<1> DEFINE row(m) == [excerpt |-> IF m.excerpt \in Excerpts(j) THEN m.excerpt ELSE NoId,
                      commit  |-> IF m.commit \in Commits THEN m.commit ELSE "none"]
           rows == {v \in {row(m) : m \in {k \in {l} : k.known}} : v.excerpt # NoId \/ v.commit # "none"}
           n == Attached(e, {l}, Excerpts(j), Commits)
<1>1. n = [e EXCEPT !.evidence = @ \cup rows]
  BY Zenon DEF Attached
<1>2. \A v \in rows : v = row(l)
  OBVIOUS
<1>3. /\ row(l).excerpt \in {NoId} \cup Shown(j.read) /\ row(l).excerpt \in Ids \cup {NoId}
      /\ row(l).commit \in Commits \cup {"none"}
  <2>1. Excerpts(j) \subseteq Shown(j.read) /\ Excerpts(j) \subseteq Ids
    BY GoalsAreShown
  <2>2. QED
    BY <2>1
<1>4. row(l) \in References
  BY <1>3 DEF References
<1> HIDE DEF row
<1>5. \A v \in rows : /\ v \in References /\ v.excerpt \in {NoId} \cup Shown(j.read)
                      /\ v.commit \in Commits \cup {"none"}
  BY <1>2, <1>3, <1>4
<1> HIDE DEF rows, n
<1>6. /\ n.beats = e.beats /\ n.date = e.date /\ n.evidence = e.evidence \cup rows
      /\ n \in EntryRecords
  BY <1>1, <1>5 DEF EntryRecords
<1>7. Grounded(j.read, picked, n)
  BY <1>5, <1>6 DEF Grounded
<1>8. QED
  BY <1>6, <1>7 DEF n

LEMMA LinkJobs ==
  ASSUME TypeInv, TypeInv', JobInv, NEW r \in Runs, Link(r)
  PROVE  JobInv'
<1> DEFINE i == job[r]
           picked == runs[r].picked
<1>1. /\ i \in JobRecords /\ ReadOK(i.read, picked)
      /\ \A e \in i.entries : Grounded(i.read, picked, e)
  BY PipeKnows DEF Link, Pipelines
<1>2. PICK l \in Links :
          Move(r, "written", [i EXCEPT
                  !.entries = {Attached(e, {l}, Excerpts(i), Commits) : e \in i.entries}])
  BY Zenon DEF Link
<1> DEFINE some == {Attached(e, {l}, Excerpts(i), Commits) : e \in i.entries}
           j == [i EXCEPT !.entries = some]
<1>3. \A e \in i.entries : e \in EntryRecords
  <2> HIDE DEF i
  <2>1. QED
    BY <1>1 DEF JobRecords
<1>4. \A e \in i.entries : /\ Attached(e, {l}, Excerpts(i), Commits) \in EntryRecords
                           /\ Grounded(i.read, picked, Attached(e, {l}, Excerpts(i), Commits))
  <2> HIDE DEF i, picked
  <2>1. QED
    BY <1>1, <1>3, AttachedIs
<1>5. some \in SUBSET EntryRecords /\ \A e \in some : Grounded(i.read, picked, e)
  <2> HIDE DEF i, picked
  <2>1. QED
    BY <1>4
<1>6. j \in JobRecords /\ j.read = i.read /\ j.entries = some
  <2> HIDE DEF i, some
  <2>1. QED
    BY <1>1, <1>5 DEF JobRecords
<1>7. Move(r, "written", j)
  BY <1>2
<1> HIDE DEF j, some
<1>8. QED
  BY <1>1, <1>5, <1>6, <1>7, MoveJobs DEF Pipelines

LEMMA JobStart == Init => JobInv
<1>1. SUFFICES ASSUME Init
               PROVE  JobInv
  OBVIOUS
<1>2. job = [r \in Runs |-> NoJob] /\ \A r \in Runs : runs[r] = NoRun
  BY <1>1 DEF Init, CollectInit
<1>3. \A r \in Runs : runs[r].pc = "idle"
  BY <1>2, NoRunIs
<1>4. QED
  BY <1>2, <1>3, NoJobIs DEF JobInv, PipeOK, Pipelines

LEMMA JobStep ==
  ASSUME IInv, TypeInv', JobInv, [Next]_vars
  PROVE  JobInv'
<1>0. TypeInv /\ IndexInv /\ CopyInv
  BY DEF IInv
<1>1. CASE UNCHANGED vars
  BY <1>1, Zenon DEF vars, collectVars, transcripts, JobInv, PipeOK, ReadOK, Grounded, Shown, Unless
<1>2. CASE CollectNext /\ job' = [r \in Runs |-> IF runs'[r].pc = "idle" THEN NoJob ELSE job[r]]
  BY <1>0, <1>2, CollectJobs
<1>3. ASSUME NEW r \in Runs, Pipeline(r)
      PROVE  JobInv'
  <2>1. CASE NoJournal(r) \/ ComposeFails(r) \/ Misshapen(r) \/ End(r)
    BY <1>0, <2>1, StopJobs, Zenon DEF NoJournal, ComposeFails, Misshapen, End
  <2>2. QED
    BY <1>0, <1>3, <2>1, DistillJobs, BriefJobs, EndBriefsJobs, ComposeJobs, LinkNothingJobs, LinkJobs,
       Zenon DEF Pipeline
<1>4. QED
  BY <1>1, <1>2, <1>3, Zenon DEF Next

LEMMA JobsInductive == Spec => [](IInv /\ JobInv)
<1>1. Init => IInv /\ JobInv
  BY InvStart, JobStart
<1>2. IInv /\ JobInv /\ [Next]_vars => (IInv /\ JobInv)'
  BY InvStep, JobStep DEF IInv
<1>3. QED
  BY <1>1, <1>2, PTL DEF Spec

(* Each session of a journal is read back from a version no older than the   *)
(* one it was picked by, however transcripts and mirrors are rewritten, unless*)
(* a scan was told to ignore the index or another run was at the copies.     *)
THEOREM JournalSeesWhatWasPickedAlways == Spec => []JournalSeesWhatWasPicked
<1>1. IInv /\ JobInv => JournalSeesWhatWasPicked
  BY DEF JobInv, PipeOK, Pipelines, ReadOK, JournalSeesWhatWasPicked, Distilled, Picked
<1>2. QED
  BY <1>1, JobsInductive, PTL

(* A goal that a pipeline was shown is a day of a picked session. *)
LEMMA ShownHappened ==
  ASSUME IInv, JobInv, NEW r \in Runs, runs[r].pc \in Pipelines, NEW id \in Shown(job[r].read)
  PROVE  Happened(r, id)
<1> DEFINE f == id[1]
           n == job[r].read[f]
<1>1. f \in Files /\ Day(id) \in says[f][n]
  BY DEF Shown, Ids
<1>2. /\ job[r].read \in [Files -> Nat]
      /\ ReadOK(job[r].read, runs[r].picked)
  BY DEF JobInv, JobRecords, PipeOK
<1>3. n # 0
  BY <1>1 DEF IInv, TypeInv
<1>4. /\ n \in Nat /\ written[f] \in Nat /\ n <= written[f]
      /\ runs[r].picked[f] = 0 => n = 0
  BY <1>1, <1>2 DEF ReadOK, IInv, TypeInv
<1>5. n \in 1 .. written[f]
  <2> HIDE DEF n, f
  <2>1. QED
    BY <1>3, <1>4
<1>6. QED
  BY <1>1, <1>3, <1>4, <1>5 DEF Happened, Picked

(* Whatever the models reply, a journal dates its entries by days of the     *)
(* picked sessions, and shows no file or commit that is not theirs.          *)
THEOREM JournalIsGroundedAlways == Spec => []JournalIsGrounded
<1>1. ASSUME IInv, JobInv, NEW r \in Runs, runs[r].pc = "written", NEW e \in job[r].entries
      PROVE  /\ \A id \in e.beats : Happened(r, id)
             /\ e.date = 0 \/ (e.date = Claimed /\ e.beats = {})
                           \/ \E f \in Picked(r) : Happened(r, <<f, e.date>>)
             /\ \A v \in e.evidence \ {MadeUp} :
                     /\ v.excerpt = NoId \/ Happened(r, v.excerpt)
                     /\ v.commit \in Commits \cup {"none"}
  <2>1. Grounded(job[r].read, runs[r].picked, e)
    BY <1>1 DEF JobInv, PipeOK
  <2>2. \A id \in Shown(job[r].read) : Happened(r, id)
    BY <1>1, ShownHappened DEF Pipelines
  <2>3. \A id \in e.beats : Happened(r, id)
    BY <2>1, <2>2 DEF Grounded
  <2>4. ASSUME NEW id \in e.beats, e.date = Day(id)
        PROVE  \E f \in Picked(r) : Happened(r, <<f, e.date>>)
    <3>1. Happened(r, id) /\ id[1] \in Picked(r)
      BY <2>3, <2>4 DEF Happened
    <3>2. Happened(r, <<id[1], e.date>>)
      BY <2>4, <3>1 DEF Happened, Day
    <3>3. QED
      BY <3>1, <3>2
  <2>5. ASSUME NEW f \in Files, runs[r].picked[f] # 0, e.date \in says[f][runs[r].picked[f]]
        PROVE  \E g \in Picked(r) : Happened(r, <<g, e.date>>)
    <3>1. /\ f \in Picked(r) /\ runs[r].picked[f] <= written[f]
          /\ runs[r].picked[f] \in Nat /\ written[f] \in Nat
      BY <1>1, <2>5 DEF Picked, IInv, IndexInv, RunOK, TypeInv, RunRecords
    <3>2. runs[r].picked[f] \in 1 .. written[f]
      BY <2>5, <3>1
    <3>3. Happened(r, <<f, e.date>>)
      BY <2>5, <3>1, <3>2 DEF Happened, Day
    <3>4. QED
      BY <3>1, <3>3
  <2>6. e.date = 0 \/ (e.date = Claimed /\ e.beats = {})
                   \/ \E f \in Picked(r) : Happened(r, <<f, e.date>>)
    BY <2>1, <2>4, <2>5, Zenon DEF Grounded
  <2>7. \A v \in e.evidence \ {MadeUp} :
                     /\ v.excerpt = NoId \/ Happened(r, v.excerpt)
                     /\ v.commit \in Commits \cup {"none"}
    BY <2>1, <2>2 DEF Grounded
  <2>8. QED
    BY <2>3, <2>6, <2>7
<1>2. IInv /\ JobInv => JournalIsGrounded
  BY <1>1 DEF JournalIsGrounded
<1>3. QED
  BY <1>2, JobsInductive, PTL
=============================================================================
