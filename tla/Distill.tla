-------------------------------- MODULE Distill --------------------------------
(***************************************************************************)
(* What the changelog makes of a transcript before any model sees it:      *)
(* ezchangelog/distill.py, and the candidates of pipeline.py.              *)
(*                                                                         *)
(* The state is a transcript that the editor writes, entry by entry; the   *)
(* program is the operators on it, from Nodes to Candidates.  They are     *)
(* checked on every transcript that a session can leave.                   *)
(***************************************************************************)
EXTENDS Integers, Sequences, FiniteSets, SequencesExt

CONSTANTS
    Files,              \* files of the project
    Turns,              \* what one entry of the assistant can call
    MaxGoals,           \* max_goals of prune
    MaxRows,            \* limit of excerpts
    MaxEntries          \* bound: entries of a transcript

(* MUTATING, EXPLORING, and what is neither.  An edit has a text to show for *)
(* it, or none: it deletes something, or is one of several (MultiEdit).      *)
Edits == [tool : {"Edit"}, file : Files, text : BOOLEAN]
Call(tool) == [tool |-> tool, file |-> "none", text |-> FALSE]
Calls == Edits \cup {Call("Bash"), Call("Read")}

ASSUME DistillConstants ==
    /\ "none" \notin Files
    /\ Turns \subseteq UNION {[1 .. n -> Calls] : n \in 1 .. 2}
    /\ MaxGoals \in Nat /\ MaxRows \in Nat /\ MaxEntries \in Nat

VARIABLES
    entries,            \* the transcript
    path,               \* history: the entries of the conversation as it stands
    gone,               \* history: entries the user has rewound past
    mishaps             \* history, see Mishaps

vars == <<entries, path, gone, mishaps>>

(*   "aside"    a subagent wrote into the transcript                         *)
(*   "paired"   one entry edits two files                                    *)
(*   "rewound"  the user rewound past an edit                                *)
Mishaps == {"aside", "paired", "rewound"}

(* An entry is of a type, hangs under an earlier one (0: under none), may be *)
(* a subagent's and has calls.                                               *)
Types == {"directive", "calls", "results", "prose", "meta"}
NewEntry(type) == [type |-> type, parent |-> 0, side |-> FALSE, calls |-> <<>>]

-----------------------------------------------------------------------------
(* The editor                                                               *)

Init == entries = <<>> /\ path = <<>> /\ gone = {} /\ mishaps = {}

Leaf == IF path = <<>> THEN 0 ELSE Last(path)
LeafIs(types) == path # <<>> /\ entries[Leaf].type \in types

Write(entry) ==
    /\ Len(entries) < MaxEntries
    /\ entries' = Append(entries, entry)

(* The conversation goes on with one more entry. *)
Continue(entry) ==
    /\ Write([entry EXCEPT !.parent = Leaf])
    /\ path' = Append(path, Len(entries) + 1)
    /\ UNCHANGED gone

Prompt ==
    /\ ~LeafIs({"calls"})
    /\ Continue(NewEntry("directive"))
    /\ UNCHANGED mishaps

(* The user goes back to an earlier prompt and writes another one. *)
Rewind ==
    \E i \in DOMAIN path :
        LET dropped == {path[j] : j \in i .. Len(path)}
            edited == \E e \in dropped : \E c \in ToSet(entries[e].calls) : c \in Edits
        IN  /\ entries[path[i]].type = "directive"
            /\ Write([NewEntry("directive") EXCEPT !.parent = entries[path[i]].parent])
            /\ path' = Append(SubSeq(path, 1, i - 1), Len(entries) + 1)
            /\ gone' = gone \cup dropped
            /\ mishaps' = mishaps \cup (IF edited THEN {"rewound"} ELSE {})

TwoFiles(turn) == Cardinality({c.file : c \in ToSet(turn) \cap Edits}) > 1

(* The assistant calls tools, *)
Act ==
    /\ LeafIs(Types \ {"calls"})
    /\ \E turn \in Turns :
         /\ Continue([NewEntry("calls") EXCEPT !.calls = turn])
         /\ mishaps' = mishaps \cup (IF TwoFiles(turn) THEN {"paired"} ELSE {})

(* gets their results, *)
Answer ==
    /\ LeafIs({"calls"})
    /\ Continue(NewEntry("results"))
    /\ UNCHANGED mishaps

(* says something, or the editor notes something that is neither. *)
Say ==
    /\ LeafIs(Types \ {"calls"})
    /\ \E type \in {"prose", "meta"} : Continue(NewEntry(type))
    /\ UNCHANGED mishaps

(* While a tool runs, a subagent writes its own conversation into the file.  *)
Aside ==
    /\ LeafIs({"calls"})
    /\ LET last == {e \in DOMAIN entries : entries[e].side /\ e > Leaf}
           parent == IF last = {} THEN 0 ELSE Len(entries)
       IN  \E turn \in Turns :
             /\ Write([NewEntry("calls") EXCEPT !.calls = turn, !.parent = parent, !.side = TRUE])
             /\ mishaps' = mishaps \cup {"aside"} \cup (IF TwoFiles(turn) THEN {"paired"} ELSE {})
    /\ UNCHANGED <<path, gone>>

Next == Prompt \/ Rewind \/ Act \/ Answer \/ Say \/ Aside

Spec == Init /\ [][Next]_vars

-----------------------------------------------------------------------------
(* build_tree                                                               *)

(* The nodes of an entry: a prompt, prose, one for each call or each result. *)
(* A result names the call that it is of.                                    *)
NodesOf(e) ==
    LET entry == entries[e]
        node(kind, n) == [entry |-> e, kind |-> kind, n |-> n]
    IN  CASE entry.type = "directive" -> <<node("directive", 1)>>
          [] entry.type = "prose" -> <<node("note", 1)>>
          [] entry.type = "calls" -> [n \in DOMAIN entry.calls |-> node("action", n)]
          [] entry.type = "results" ->
               [n \in DOMAIN entries[entry.parent].calls |-> node("outcome", n)]
          [] OTHER -> <<>>

Nodes == FlattenSeq([e \in DOMAIN entries |-> NodesOf(e)])

(* stands_for and resolve: the parent of a node is the first node of the     *)
(* nearest entry above its own that has one; 0 when there is none.           *)
StandsFor(nodes, e) ==
    IF e = 0 THEN 0 ELSE CHOOSE i \in DOMAIN nodes :
        nodes[i].entry = e /\ \A j \in DOMAIN nodes : nodes[j].entry = e => i <= j

ParentOf(nodes, i) ==
    LET climb[e \in 0 .. Len(entries)] ==
          IF e = 0 \/ NodesOf(e) # <<>> THEN e ELSE climb[entries[e].parent]
    IN  StandsFor(nodes, climb[entries[nodes[i].entry].parent])

(* _label_lanes: the trunk is the last node and what is above it. *)
Ancestry(nodes) ==
    LET up[i \in 0 .. Len(nodes)] == IF i = 0 THEN {} ELSE {i} \cup up[ParentOf(nodes, i)]
    IN  up[Len(nodes)]

(* A wrong version of Trunk: siblings on the trunk are forgotten.  *)
TrunkOnly(nodes) == Ancestry(nodes)

(* What hangs off the trunk is on it too, as the parallel results of a turn. *)
Trunk(nodes) ==
    LET above == Ancestry(nodes)
    IN  above \cup {i \in DOMAIN nodes : ParentOf(nodes, i) \in above}

-----------------------------------------------------------------------------
(* segment and prune                                                        *)

(* The prompts of the session itself open goals, *)
Opens(nodes, i) == nodes[i].kind = "directive" /\ ~entries[nodes[i].entry].side

(* and every action goes to the last one before it.  *)
Bucket(nodes, goal) ==
    {i \in goal .. Len(nodes) :
        /\ nodes[i].kind = "action"
        /\ \A j \in goal + 1 .. i : ~Opens(nodes, j)}

CallOf(node) == entries[node.entry].calls[node.n]

(* An attempt is what a goal has in one lane.  (How many of its calls failed *)
(* is left out.)                                                             *)
Attempt(nodes, trunk, goal, lane) ==
    [lane |-> lane,
     actions |-> {i \in Bucket(nodes, goal) : (i \in trunk) = (lane = "trunk")}]

(* The materiality rule: an abandoned attempt has written or run something.  *)
Matters(nodes, attempt) ==
    /\ attempt.actions # {}
    /\ \/ attempt.lane = "trunk"
       \/ \E i \in attempt.actions : CallOf(nodes[i]).tool \in {"Edit", "Bash"}

Attempts(nodes, trunk, goal) ==
    {a \in {Attempt(nodes, trunk, goal, lane) : lane \in {"trunk", "abandoned"}} :
        Matters(nodes, a)}

(* A goal is kept that has an attempt or is on the trunk: *)
Kept(nodes, trunk) ==
    {i \in DOMAIN nodes : Opens(nodes, i) /\ (Attempts(nodes, trunk, i) # {} \/ i \in trunk)}

(* the first MaxGoals of them. *)
Goals(nodes, trunk) ==
    LET kept == Kept(nodes, trunk)
    IN  {i \in kept : Cardinality({j \in kept : j < i}) < MaxGoals}

-----------------------------------------------------------------------------
(* excerpts, and the candidates for a link                                  *)

(* A wrong version of Edited: an edit without a text makes a row as well. *)
EditedAnyhow(nodes, f) ==
    {i \in DOMAIN nodes : nodes[i].kind = "action" /\ CallOf(nodes[i]) \in Edits
                         /\ CallOf(nodes[i]).file = f}

(* The edits of a file that have a text (_tool_excerpt).  *)
Edited(nodes, f) ==
    {i \in DOMAIN nodes : nodes[i].kind = "action"
                         /\ CallOf(nodes[i]) = [tool |-> "Edit", file |-> f, text |-> TRUE]}

LatestEdit(nodes, f) == CHOOSE i \in Edited(nodes, f) : \A j \in Edited(nodes, f) : i >= j

(* One row for each file, by the time of its entry and then in the order in  *)
(* which files were first edited; the newest MaxRows of them.                *)
Before(nodes, f, g) ==
    LET at(h) == nodes[LatestEdit(nodes, h)].entry
        first(h) == CHOOSE i \in Edited(nodes, h) : \A j \in Edited(nodes, h) : i <= j
    IN  at(f) < at(g) \/ (at(f) = at(g) /\ first(f) < first(g))

Excerpts(nodes) ==
    LET edited == {f \in Files : Edited(nodes, f) # {}}
    IN  {f \in edited : Cardinality({g \in edited : Before(nodes, f, g)}) < MaxRows}

(* all_excerpts: rows by id, where the last row of an id wins.  The id ends  *)
(* after eight characters of the node's, so that it is the entry's.          *)
Candidates(nodes) ==
    LET id(f) == nodes[LatestEdit(nodes, f)].entry
        rows == Excerpts(nodes)
    IN  {[id |-> id(f), file |-> f, code |-> LatestEdit(nodes, f)] :
            f \in {g \in rows : ~\E h \in rows : id(h) = id(g) /\ Before(nodes, g, h)}}

-----------------------------------------------------------------------------
(* Properties                                                               *)

Unless(some) == mishaps \cap some # {}

(* The prompt that an entry answers: the nearest one above it, or 0. *)
Asked(e) ==
    LET up[d \in 0 .. Len(entries)] ==
          IF d = 0 \/ entries[d].type = "directive" THEN d ELSE up[entries[d].parent]
    IN  up[e]

(* Lanes are what the prompt of BRIEF says they are (pipeline.py:56-57):     *)
(* every call that the session still stands on is reported as surviving,     *)
(* under the prompt it answers, and one that the user rewound past is not.   *)
(* A subagent that writes into the same file is taken for rewound work, or,  *)
(* when it wrote last, everything else is.                                   *)
LanesTellTheTruth ==
    LET nodes == Nodes
        trunk == Trunk(nodes)
        goals == Goals(nodes, trunk)
        survives(i) == \E goal \in goals : nodes[goal].entry = Asked(nodes[i].entry)
                          /\ i \in Attempt(nodes, trunk, goal, "trunk").actions
    IN  \/ \A i \in DOMAIN nodes :
             nodes[i].kind = "action" /\ Asked(nodes[i].entry) # 0 =>
               (survives(i) <=> nodes[i].entry \notin gone)
        \/ Cardinality(Kept(nodes, trunk)) > MaxGoals
        \/ Unless({"aside"})

(* "A rewound prompt with no action behind it is a typo, not a dead end"     *)
(* (distill.py:375): it makes no goal.                                       *)
RewoundPromptDropped ==
    LET nodes == Nodes
        trunk == Trunk(nodes)
    IN  \A goal \in Goals(nodes, trunk) :
            nodes[goal].entry \in gone => Attempts(nodes, trunk, goal) # {}

(* A link can cite every file that a text was written to, with the last text *)
(* (distill.py:393 "one row per changed file"), unless one entry wrote to two*)
(* files, which then have one id, or the user rewound past an edit, which is *)
(* offered all the same.  What only lost lines, or was edited by MultiEdit,  *)
(* is a changed file too and has no row; and an edit of that kind after the  *)
(* last text leaves a row with what the file may not hold any more.          *)
CandidatesAreCurrent ==
    LET nodes == Nodes
        writes(f) == {i \in DOMAIN nodes :
            /\ nodes[i].kind = "action" /\ nodes[i].entry \notin gone
            /\ CallOf(nodes[i]) \in Edits /\ CallOf(nodes[i]).file = f /\ CallOf(nodes[i]).text}
    IN  \/ \A f \in Files : writes(f) # {} =>
             \E c \in Candidates(nodes) :
                 /\ c.file = f
                 /\ c.code \in writes(f) /\ \A i \in writes(f) : i <= c.code
        \/ Cardinality({f \in Files : writes(f) # {}}) > MaxRows
        \/ Unless({"paired", "rewound"})
=============================================================================
