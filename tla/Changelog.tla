------------------------------- MODULE Changelog -------------------------------
(***************************************************************************)
(* From what a run has collected to its journal: run_pipeline of            *)
(* ezchangelog/pipeline.py, composed with the collection of Collect.        *)
(*                                                                         *)
(* A version of a transcript is its days of work.  Day i is one goal with   *)
(* the time i, and from FirstWork on also one edited file; the pair <<f, i>>*)
(* names both.  The model may answer with anything: a call can fail, the    *)
(* JSON found in the reply can be of another shape, and every id in it can  *)
(* be made up.                                                              *)
(***************************************************************************)
EXTENDS Collect

CONSTANTS
    Commits,            \* what git.survey reports for the window; maybe nothing
    MaxBeats            \* bound: beats of the entry

VARIABLE job            \* the pipeline of each run

vars == <<collectVars, job>>

Ids == Files \X Days
Day(id) == id[2]

(* A reference shows an excerpt, a commit or both.  MadeUp and Claimed are    *)
(* what only a model has: a reference and a date.                            *)
NoId == <<"none", 0>>
MadeUp == [excerpt |-> NoId, commit |-> "made up"]
Claimed == MaxDay + 1

(* What the run has read of each session, the sessions it has yet to brief,  *)
(* whether there is a brief, and the entries: none, or one with its beats,   *)
(* its date (0: none) and its evidence.                                      *)
NoJob == [read |-> NothingPicked, todo |-> {}, briefed |-> FALSE, entries |-> {}]

Init == CollectInit /\ job = [r \in Runs |-> NoJob]

(* Where a run reads the session from: the raw copy, or the mirror itself. *)
StoredPath(f) == IF f \in Local THEN raw[f] ELSE disk[f]

Goals(j) == {id \in Ids : Day(id) \in says[id[1]][j.read[id[1]]]}
Excerpts(j) == {id \in Goals(j) : Day(id) >= FirstWork[id[1]]}

Move(r, pc, j) ==
    /\ runs' = [runs EXCEPT ![r].pc = pc]
    /\ job' = [job EXCEPT ![r] = j]
    /\ UNCHANGED <<transcripts, raw, index, started, troubles, mishaps>>

(* The run is over. *)
Stop(r) ==
    /\ runs' = [runs EXCEPT ![r] = NoRun]
    /\ job' = [job EXCEPT ![r] = NoJob]
    /\ UNCHANGED <<transcripts, raw, index, started, troubles, mishaps>>

-----------------------------------------------------------------------------
(* The stages before a model is asked                                       *)

(* cmd_collect: with nothing selected, or when no journal (or nothing beyond *)
(* GIT) is wanted, the run is over.                                          *)
NoJournal(r) == runs[r].pc = "collected" /\ Stop(r)

(* DISTILL to GIT: the sessions are read again, as they are now.  A mirror  *)
(* that is not there ends the run.                                           *)
(* Bound: one pipeline at a time, they have nothing in common.               *)
Distill(r) ==
    /\ runs[r].pc = "collected" /\ Picked(r) # {}
    /\ \A other \in Runs \ {r} : job[other] = NoJob
    /\ IF \E f \in Picked(r) : StoredPath(f) = 0
       THEN Stop(r)
       ELSE Move(r, "brief", [NoJob EXCEPT
                !.todo = Picked(r),
                !.read = [f \in Files |-> IF f \in Picked(r) THEN StoredPath(f) ELSE 0]])

-----------------------------------------------------------------------------
(* A call of a model                                                        *)

(* The provider's run: an error, or the text as far as it came.  Nobody asks *)
(* why the model stopped, so that it may be cut off.                         *)
Replies == {"error", "object", "list", "cut"}

(* extract_json: of a document that is cut off, a list inside of it or an    *)
(* error.                                                                    *)
Extracted(reply) == IF reply = "cut" THEN {"list", "error"} ELSE {reply}

Found == UNION {Extracted(reply) : reply \in Replies}

-----------------------------------------------------------------------------
(* BRIEF                                                                    *)

(* One call for each session.  A failed call, and a reply that is no object, *)
(* leave the session without a brief.                                        *)
Brief(r) ==
    /\ runs[r].pc = "brief"
    /\ \E f \in job[r].todo, found \in Found :
          Move(r, "brief", [job[r] EXCEPT !.todo = @ \ {f},
                                          !.briefed = @ \/ found = "object"])

EndBriefs(r) ==
    /\ runs[r].pc = "brief" /\ job[r].todo = {}
    /\ IF job[r].briefed THEN Move(r, "compose", job[r]) ELSE Stop(r)

-----------------------------------------------------------------------------
(* COMPOSE                                                                  *)

(* What the model may say of an entry. *)
Replied ==
    [sessions : SUBSET Files,
     beats    : {beats \in SUBSET Ids : Cardinality(beats) <= MaxBeats},
     date     : {0, Claimed},
     evidence : {{}, {MadeUp}}]

(* Beats are kept as the model wrote them. *)
ResolvedAsWritten(entry, j, days) ==
    [beats |-> entry.beats, evidence |-> entry.evidence,
     date |-> Max({Day(id) : id \in entry.beats} \cup {0})]

(* _resolve_timeline: the beats that cite a goal of these sessions get its   *)
(* time, the others go; the entry's date is its last beat's, else what the   *)
(* model said, else the last day of its sessions.                            *)
Resolved(entry, j, days) ==
    LET beats == entry.beats \cap Goals(j)
    IN  [beats |-> beats, evidence |-> entry.evidence,
         date |-> CASE beats # {} -> Max({Day(id) : id \in beats})
                    [] beats = {} /\ entry.date # 0 -> entry.date
                    [] OTHER -> Max((UNION {days[f] : f \in entry.sessions}) \cup {0})]

(* What the facts of the selections say. *)
PickedDays(r) == [f \in Files |-> says[f][runs[r].picked[f]]]

(* The call fails, or what is found is no object with entries, *)
ComposeFails(r) == runs[r].pc = "compose" /\ Stop(r)

(* or they are resolved one by one.  None may come back; one stands for the  *)
(* others, as the stages treat each alone.                                   *)
Compose(r) ==
    /\ runs[r].pc = "compose"
    /\ \E entries \in {{}} \cup {{e} : e \in Replied} :
          Move(r, "link", [job[r] EXCEPT
                  !.entries = {Resolved(e, job[r], PickedDays(r)) : e \in entries}])

-----------------------------------------------------------------------------
(* LINK                                                                     *)

(* A link names an entry (the one there is, or another), a file or a commit. *)
Links == [known : BOOLEAN, excerpt : Ids \cup {NoId}, commit : Commits \cup {"made up"}]

(* Whatever the model names is attached. *)
AttachedAsNamed(entry, links, excerpts, commits) ==
    [entry EXCEPT !.evidence = @ \cup {[excerpt |-> l.excerpt, commit |-> l.commit] :
                                           l \in {m \in links : m.known}}]

(* _apply_links: an id that is no candidate counts for nothing. *)
Attached(entry, links, excerpts, commits) ==
    [entry EXCEPT !.evidence = @ \cup
        {e \in {[excerpt |-> IF l.excerpt \in excerpts THEN l.excerpt ELSE NoId,
                 commit  |-> IF l.commit \in commits THEN l.commit ELSE "none"] :
                    l \in {m \in links : m.known}} :
            e.excerpt # NoId \/ e.commit # "none"}]

(* Nothing to attach, a failed call or a reply that is no list: the journal  *)
(* goes without (more) evidence; a link of the list stands for the others.   *)
LinkNothing(r) == runs[r].pc = "link" /\ Move(r, "written", job[r])

Link(r) ==
    LET j == job[r]
    IN  /\ runs[r].pc = "link"
        /\ j.entries # {} /\ Excerpts(j) \cup Commits # {}
        /\ \E l \in Links :
              Move(r, "written", [j EXCEPT
                  !.entries = {Attached(e, {l}, Excerpts(j), Commits) : e \in j.entries}])

(* A row that is not of the shape that was asked for, an entry or a link     *)
(* that is no object, is caught by nobody: the run ends without a journal.   *)
Misshapen(r) == runs[r].pc \in {"compose", "link"} /\ Stop(r)

-----------------------------------------------------------------------------

(* RENDER has written the journal. *)
End(r) == runs[r].pc = "written" /\ Stop(r)

Pipeline(r) ==
    \/ NoJournal(r) \/ Distill(r)
    \/ Brief(r) \/ EndBriefs(r)
    \/ ComposeFails(r) \/ Compose(r)
    \/ LinkNothing(r) \/ Link(r) \/ Misshapen(r)
    \/ End(r)

(* A run that dies takes its pipeline with it. *)
Next ==
    \/ CollectNext /\ job' = [r \in Runs |-> IF runs'[r].pc = "idle" THEN NoJob ELSE job[r]]
    \/ \E r \in Runs : Pipeline(r)

Spec == Init /\ [][Next]_vars

-----------------------------------------------------------------------------

Distilled(r) == runs[r].pc \in {"brief", "compose", "link", "written"}

(* The journal is about what was shown to the user: each session of it is    *)
(* read back from a version no older than the one it was picked by (the copy *)
(* is made after the scan, or is known to be as new), so with all the days   *)
(* that the transcript has not lost since.  A refreshed scan sees more than  *)
(* the signature that spares the copy, and another run may put an older copy *)
(* in its place.                                                             *)
JournalSeesWhatWasPicked ==
    \A r \in Runs : Distilled(r) =>
        \A f \in Picked(r) : job[r].read[f] >= runs[r].picked[f] \/ Unless({"refresh", "overlap"})

(* Whatever the models reply, a journal dates its entries by days on which   *)
(* the picked sessions, as they are or as they were, were worked on, and     *)
(* shows no file or commit that is not one of theirs.  The two ways around it*)
(* are in the compose reply: a date where no beat is left, and references, to*)
(* which LINK only adds.                                                     *)
Happened(r, id) ==
    id[1] \in Picked(r) /\ \E version \in 1 .. written[id[1]] : Day(id) \in says[id[1]][version]

JournalIsGrounded ==
    \A r \in Runs : runs[r].pc = "written" =>
        \A e \in job[r].entries :
            /\ \A id \in e.beats : Happened(r, id)
            /\ e.date = 0 \/ (e.date = Claimed /\ e.beats = {})
                          \/ \E f \in Picked(r) : Happened(r, <<f, e.date>>)
            /\ \A v \in e.evidence \ {MadeUp} :
                    /\ v.excerpt = NoId \/ Happened(r, v.excerpt)
                    /\ v.commit \in Commits \cup {"none"}
================================================================================
