------------------------------ MODULE StateLock ------------------------------
(***************************************************************************)
(* The per-session publish lock: state_lock() in ezchangelog/publish.py.   *)
(*                                                                         *)
(* A lockfile created with O_CREAT | O_EXCL is the whole mechanism.  A     *)
(* process that finds the file measures its age; a file untouched for more *)
(* than LockStale is unlinked, a younger one is waited for until the       *)
(* caller's own deadline.  The holder touches the file after every chunk   *)
(* and unlinks it when it leaves.  Each system call is an action of its    *)
(* own, so any two processes interleave between them.                      *)
(*                                                                         *)
(* Time passes in ticks.  Every process has one clock: how long it has     *)
(* waited while it tries, how long since it last touched the file while it *)
(* holds.  Nothing bounds the latter: three tries of one upload, with what *)
(* the server asks to wait between them, may take longer than LockStale,   *)
(* and registering, listing and deleting do not touch the file at all.     *)
(***************************************************************************)
EXTENDS Integers, FiniteSets

CONSTANTS
    Publishers,     \* slots in which `ezup publish` processes run
    Nobody,         \* owner of no file
    LockWait,       \* LOCK_WAIT_SECONDS, in ticks
    LockStale,      \* LOCK_STALE_SECONDS, in ticks
    MaxDeaths,      \* bound: how many processes are killed
    MaxBreaks       \* bound: how far breaks is counted

ASSUME LockConstants ==
    /\ Nobody \notin Publishers
    /\ IsFiniteSet(Publishers)
    /\ LockWait \in Nat
    /\ LockStale \in Nat
    /\ MaxDeaths \in Nat
    /\ MaxBreaks \in Nat \ {0}

VARIABLES
    lock,           \* the lockfile: NoFile, or who created it and its age
    pc,             \* where each process stands in state_lock
    clock,          \* each process's clock, see above
    deaths,         \* how many processes were killed so far
    breaks          \* history: how often a waiter unlinked a live holder's file

vars == <<lock, pc, clock, deaths, breaks>>

NoFile == [owner |-> Nobody, age |-> 0]

TypeOK ==
    /\ lock \in [owner : Publishers \cup {Nobody}, age : 0 .. LockStale + 1]
    /\ pc \in [Publishers -> {"idle", "trying", "exists", "breaking", "holding"}]
    /\ clock \in [Publishers -> Nat]
    /\ deaths \in 0 .. MaxDeaths
    /\ breaks \in 0 .. MaxBreaks

Init ==
    /\ lock = NoFile
    /\ pc = [p \in Publishers |-> "idle"]
    /\ clock = [p \in Publishers |-> 0]
    /\ deaths = 0
    /\ breaks = 0

Held == lock.owner # Nobody

(* The processes between taking the lock and leaving it. *)
Holders == {p \in Publishers : pc[p] = "holding"}

Goto(p, where) == pc' = [pc EXCEPT ![p] = where]
ClockReset(p) == clock' = [clock EXCEPT ![p] = 0]

-----------------------------------------------------------------------------
(* A process enters state_lock and computes its deadline. *)
Call(p) ==
    /\ pc[p] = "idle"
    /\ Goto(p, "trying")
    /\ ClockReset(p)
    /\ UNCHANGED <<lock, deaths, breaks>>

(* A wrong version of Create, without O_EXCL. *)
CreateOver(p) ==
    /\ pc[p] = "trying"
    /\ lock' = [owner |-> p, age |-> 0]
    /\ Goto(p, "holding")
    /\ ClockReset(p)
    /\ UNCHANGED <<deaths, breaks>>

(* os.open with O_CREAT | O_EXCL succeeds: the file is ours. *)
Create(p) ==
    /\ pc[p] = "trying"
    /\ ~Held
    /\ lock' = [owner |-> p, age |-> 0]
    /\ Goto(p, "holding")
    /\ ClockReset(p)
    /\ UNCHANGED <<deaths, breaks>>

(* os.open raises FileExistsError. *)
FindHeld(p) ==
    /\ pc[p] = "trying"
    /\ Held
    /\ Goto(p, "exists")
    /\ UNCHANGED <<lock, clock, deaths, breaks>>

(* A wrong version of Measure: a lock is waited for, never broken. *)
MeasureOnly(p) ==
    /\ pc[p] = "exists"
    /\ Goto(p, IF clock[p] >= LockWait THEN "idle" ELSE "trying")
    /\ UNCHANGED <<lock, clock, deaths, breaks>>

(* path.stat(): the age decides between breaking the lock, giving up with    *)
(* PublishBusy and sleeping before another try.  A file that vanished since  *)
(* has no age and is never broken.                                           *)
Measure(p) ==
    /\ pc[p] = "exists"
    /\ \/ Held /\ lock.age > LockStale /\ Goto(p, "breaking")
       \/ /\ ~(Held /\ lock.age > LockStale)
          /\ Goto(p, IF clock[p] >= LockWait THEN "idle" ELSE "trying")
    /\ UNCHANGED <<lock, clock, deaths, breaks>>

(* path.unlink(missing_ok=True): whatever file is there now goes.  It may be *)
(* a live holder's: one that was silent for more than LockStale, or one that *)
(* replaced the dead process whose file was measured.                        *)
Break(p) ==
    /\ pc[p] = "breaking"
    /\ breaks' = IF lock.owner \in Holders /\ breaks < MaxBreaks THEN breaks + 1 ELSE breaks
    /\ lock' = NoFile
    /\ Goto(p, "trying")
    /\ UNCHANGED <<clock, deaths>>

(* A wrong version of Touch, that writes no time.                            *)
TouchNothing(p) ==
    /\ pc[p] = "holding"
    /\ ClockReset(p)
    /\ UNCHANGED <<lock, pc, deaths, breaks>>

(* _touch after a chunk: os.utime on whatever file is there. *)
Touch(p) ==
    /\ pc[p] = "holding"
    /\ lock' = IF Held THEN [lock EXCEPT !.age = 0] ELSE lock
    /\ ClockReset(p)
    /\ UNCHANGED <<pc, deaths, breaks>>

(* Leaving the context manager: the file at that path is unlinked, whoever   *)
(* created it.                                                               *)
Release(p) ==
    /\ pc[p] = "holding"
    /\ lock' = NoFile
    /\ Goto(p, "idle")
    /\ ClockReset(p)
    /\ UNCHANGED <<deaths, breaks>>

(* A killed process cannot clean up after itself: its file stays.  The slot  *)
(* is free for another process.                                              *)
Die(p) ==
    /\ pc[p] # "idle"
    /\ deaths < MaxDeaths
    /\ deaths' = deaths + 1
    /\ Goto(p, "idle")
    /\ ClockReset(p)
    /\ UNCHANGED <<lock, breaks>>

(* Time passes, for a holder as for those who wait.  The clocks stop one     *)
(* tick past the values the code compares them with.                         *)
Tick ==
    /\ lock' = IF Held /\ lock.age <= LockStale
                 THEN [lock EXCEPT !.age = @ + 1] ELSE lock
    /\ clock' = [p \in Publishers |->
                   IF \/ pc[p] = "holding" /\ clock[p] <= LockStale
                      \/ pc[p] \in {"trying", "exists"} /\ clock[p] < LockWait
                     THEN clock[p] + 1 ELSE clock[p]]
    /\ UNCHANGED <<pc, deaths, breaks>>

Attempt(p) == Create(p) \/ FindHeld(p) \/ Measure(p) \/ Break(p)

Next ==
    \/ \E p \in Publishers :
         Call(p) \/ Create(p) \/ FindHeld(p) \/ Measure(p) \/ Break(p)
           \/ Touch(p) \/ Release(p) \/ Die(p)
    \/ Tick

Spec == Init /\ [][Next]_vars

(* Every process keeps running unless it is killed, an upload ends, and the  *)
(* hook keeps starting publishes.  Dying is never promised.                  *)
Fairness ==
    /\ WF_vars(Tick)
    /\ \A p \in Publishers :
         WF_vars(Call(p)) /\ WF_vars(Attempt(p)) /\ WF_vars(Release(p))

FairSpec == Spec /\ Fairness

-----------------------------------------------------------------------------
(* publish.py's module docstring: "the loser waits instead of overwriting". *)
(* No two processes are ever between taking the lock and releasing it.       *)
MutualExclusion ==
    \A p, q \in Publishers : pc[p] = "holding" /\ pc[q] = "holding" => p = q

(* Mutual exclusion, and what is left of it once a live holder's file has    *)
(* been broken: each break lets one more process in, and no more than one.   *)
(* The process whose file went does not notice, and its own unlink takes the *)
(* file of the process that replaced it, so that exclusion may stay lost for *)
(* ever: but a chain of such releases adds nobody.                           *)
OneMorePerBreak == breaks < MaxBreaks => Cardinality(Holders) <= 1 + breaks

(* While nobody broke a live holder's file, the file there is the holder's,  *)
(* and it is exactly as old as the holder's last touch: a waiter that finds  *)
(* it stale has found a holder that really was silent for so long.           *)
HolderOwnsFile ==
    breaks = 0 => \A p \in Holders : lock = [owner |-> p, age |-> clock[p]]

(* "A lock nobody can ever break is worse than no lock": a file whose owner  *)
(* is gone does not stay for ever, although each caller gives up long before *)
(* the file is stale.                                                        *)
Orphaned == Held /\ lock.owner \notin Holders
OrphanIsBroken == Orphaned ~> ~Orphaned
=============================================================================
