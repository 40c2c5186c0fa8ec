--------------------------- MODULE StateLockProofs ---------------------------
(***************************************************************************)
(* Proofs about the publish lock, for any number of publishers and any     *)
(* values of the timeouts that satisfy LockConstants.                      *)
(***************************************************************************)
EXTENDS StateLock, FiniteSetTheorems, TLAPS

(* Every step keeps the lockfile, the program counters and the clocks of the *)
(* kinds the rest of the development assumes.                                *)
THEOREM TypeCorrect == Spec => []TypeOK
<1> USE LockConstants DEF LockConstants
<1>1. Init => TypeOK
  <2> SUFFICES ASSUME Init
               PROVE  TypeOK
    OBVIOUS
  <2>1. lock \in [owner : Publishers \cup {Nobody}, age : 0 .. LockStale + 1]
    BY DEF Init, NoFile
  <2>2. pc \in [Publishers -> {"idle", "trying", "exists", "breaking", "holding"}]
    BY DEF Init
  <2>3. clock \in [Publishers -> Nat] /\ deaths \in 0 .. MaxDeaths
    BY DEF Init
  <2>4. breaks \in 0 .. MaxBreaks
    BY DEF Init
  <2> QED
    BY <2>1, <2>2, <2>3, <2>4 DEF TypeOK
<1>2. TypeOK /\ [Next]_vars => TypeOK'
  <2> SUFFICES ASSUME TypeOK, [Next]_vars
               PROVE  TypeOK'
    OBVIOUS
  <2>1. CASE \E p \in Publishers : Call(p) \/ FindHeld(p)
    BY <2>1 DEF TypeOK, Call, FindHeld, Goto, ClockReset
  <2>2. CASE \E p \in Publishers : Create(p)
    BY <2>2 DEF TypeOK, Create, Goto, ClockReset
  <2>3. CASE \E p \in Publishers : Measure(p)
    BY <2>3 DEF TypeOK, Measure, Goto
  <2>4. CASE \E p \in Publishers : Break(p)
    BY <2>4 DEF TypeOK, Break, Goto, NoFile
  <2>5. CASE \E p \in Publishers : Touch(p)
    BY <2>5 DEF TypeOK, Touch, ClockReset
  <2>6. CASE \E p \in Publishers : Release(p)
    BY <2>6 DEF TypeOK, Release, Goto, ClockReset, NoFile
  <2>7. CASE \E p \in Publishers : Die(p)
    BY <2>7 DEF TypeOK, Die, Goto, ClockReset
  <2>8. CASE Tick
    <3>1. lock' \in [owner : Publishers \cup {Nobody}, age : 0 .. LockStale + 1]
      BY <2>8 DEF TypeOK, Tick
    <3>2. clock' \in [Publishers -> Nat]
      BY <2>8 DEF TypeOK, Tick
    <3> QED
      BY <2>8, <3>1, <3>2 DEF TypeOK, Tick
  <2>9. CASE UNCHANGED vars
    BY <2>9 DEF TypeOK, vars
  <2> QED
    BY <2>1, <2>2, <2>3, <2>4, <2>5, <2>6, <2>7, <2>8, <2>9 DEF Next
<1> QED
  BY <1>1, <1>2, PTL DEF Spec

-----------------------------------------------------------------------------
(* Holders whose file is gone: broken, or unlinked by another such holder.   *)
Displaced == Holders \ {lock.owner}

(* What makes both invariants inductive: a break displaces the holder it     *)
(* hits, and no other step displaces one more.                               *)
DisplacedByBreaks == breaks < MaxBreaks => Cardinality(Displaced) <= breaks

(* While nobody is displaced, how old a holder's file is.                    *)
AgeIsClock ==
    breaks = 0 => \A p \in Holders : lock.owner = p => lock.age = clock[p]

LockInv == DisplacedByBreaks /\ AgeIsClock

LEMMA FiniteHolders == IsFiniteSet(Holders) /\ IsFiniteSet(Displaced)
<1>1. IsFiniteSet(Holders)
  BY LockConstants, FS_Subset DEF LockConstants, Holders
<1> QED
  BY <1>1, FS_Subset DEF Displaced

(* Swapping one member for another does not make a finite set larger.        *)
LEMMA SwapIsNoMore ==
  ASSUME NEW S, IsFiniteSet(S), NEW a \in S, NEW b
  PROVE  Cardinality((S \ {a}) \cup {b}) <= Cardinality(S)
<1>1. IsFiniteSet(S \ {a}) /\ Cardinality(S \ {a}) = Cardinality(S) - 1
  BY FS_RemoveElement
<1>2. Cardinality(S \ {a}) \in Nat /\ Cardinality(S) \in Nat
  BY <1>1, FS_CardinalityType
<1>3. Cardinality((S \ {a}) \cup {b}) <= Cardinality(S \ {a}) + 1
  <2> DEFINE R == S \ {a}
  <2>1. Cardinality(R \cup {b}) = IF b \in R THEN Cardinality(R) ELSE Cardinality(R) + 1
    BY <1>1, FS_AddElement
  <2>2. Cardinality(R) \in Nat
    BY <1>2
  <2> HIDE DEF R
  <2>3. Cardinality(R \cup {b}) <= Cardinality(R) + 1
    BY <2>1, <2>2
  <2> QED
    BY <2>3 DEF R
<1> QED
  BY <1>1, <1>2, <1>3

(* Without a break nobody is displaced: the file is the holder's.            *)
LEMMA NoneDisplaced ==
  ASSUME TypeOK, DisplacedByBreaks, breaks = 0, NEW p \in Holders
  PROVE  lock.owner = p
<1>1. Cardinality(Displaced) <= 0
  BY LockConstants DEF LockConstants, DisplacedByBreaks
<1>2. Displaced = {}
  BY <1>1, FiniteHolders, FS_CardinalityType, FS_EmptySet
<1> QED
  BY <1>2 DEF Displaced

LEMMA LockInvImplies == TypeOK /\ LockInv => HolderOwnsFile /\ OneMorePerBreak
<1> SUFFICES ASSUME TypeOK, LockInv
             PROVE  HolderOwnsFile /\ OneMorePerBreak
  OBVIOUS
<1>1. HolderOwnsFile
  <2> SUFFICES ASSUME breaks = 0, NEW p \in Holders
               PROVE  lock = [owner |-> p, age |-> clock[p]]
    BY DEF HolderOwnsFile
  <2>1. lock.owner = p /\ lock.age = clock[p]
    BY NoneDisplaced DEF LockInv, AgeIsClock
  <2> QED
    BY <2>1 DEF TypeOK
<1>2. OneMorePerBreak
  <2> SUFFICES ASSUME breaks < MaxBreaks
               PROVE  Cardinality(Holders) <= 1 + breaks
    BY DEF OneMorePerBreak
  <2>1. Cardinality(Holders) <= Cardinality(Displaced) + 1
    <3>1. CASE lock.owner \in Holders
      BY <3>1, FiniteHolders, FS_RemoveElement, FS_CardinalityType DEF Displaced
    <3>2. CASE lock.owner \notin Holders
      <4>1. Displaced = Holders
        BY <3>2 DEF Displaced
      <4> QED
        BY <4>1, FiniteHolders, FS_CardinalityType
    <3> QED
      BY <3>1, <3>2
  <2>2. Cardinality(Displaced) <= breaks
    BY DEF LockInv, DisplacedByBreaks
  <2> QED
    BY <2>1, <2>2, FiniteHolders, FS_CardinalityType DEF TypeOK
<1> QED
  BY <1>1, <1>2

(* A step after which nobody more is displaced, counting breaks, keeps the   *)
(* count.                                                                    *)
LEMMA NoMoreDisplaced ==
  ASSUME TypeOK, DisplacedByBreaks, breaks' = breaks,
         Cardinality(Displaced') <= Cardinality(Displaced)
  PROVE  DisplacedByBreaks'
<1>1. Cardinality(Displaced) \in Nat
  BY FiniteHolders, FS_CardinalityType
<1>2. IsFiniteSet(Displaced') /\ Cardinality(Displaced') \in Nat
  <2>1. IsFiniteSet(Holders')
    BY LockConstants, FS_Subset DEF LockConstants, Holders
  <2>2. IsFiniteSet(Displaced')
    BY <2>1, FS_Subset DEF Displaced
  <2> QED
    BY <2>2, FS_CardinalityType
<1> QED
  BY <1>1, <1>2, LockConstants DEF LockConstants, DisplacedByBreaks, TypeOK

LEMMA LockInvInductive == TypeOK /\ LockInv /\ [Next]_vars => LockInv'
<1> SUFFICES ASSUME TypeOK, LockInv, [Next]_vars
             PROVE  LockInv'
  OBVIOUS
<1> USE LockConstants DEF LockConstants, TypeOK, LockInv
<1>1. ASSUME NEW p \in Publishers, Call(p) \/ FindHeld(p) \/ Measure(p)
      PROVE  LockInv'
  <2>1. Holders' = Holders /\ lock' = lock /\ breaks' = breaks
    BY <1>1 DEF Call, FindHeld, Measure, Goto, ClockReset, Holders
  <2>2. \A q \in Holders : clock'[q] = clock[q]
    BY <1>1 DEF Call, FindHeld, Measure, ClockReset, Holders
  <2>3. Displaced' = Displaced
    BY <2>1 DEF Displaced
  <2> QED
    BY <2>1, <2>2, <2>3 DEF DisplacedByBreaks, AgeIsClock
<1>2. ASSUME NEW p \in Publishers, Create(p)
      PROVE  LockInv'
  <2>1. /\ lock' = [owner |-> p, age |-> 0] /\ clock'[p] = 0 /\ breaks' = breaks
        /\ Holders' = Holders \cup {p} /\ p \notin Holders /\ lock.owner \notin Holders
    BY <1>2 DEF Create, Goto, ClockReset, Holders, Held
  <2>2. Displaced' = Displaced
    BY <2>1 DEF Displaced
  <2>3. DisplacedByBreaks'
    BY <2>1, <2>2 DEF DisplacedByBreaks
  <2> QED
    BY <2>1, <2>3 DEF AgeIsClock
<1>3. ASSUME NEW p \in Publishers, Break(p)
      PROVE  LockInv'
  <2>1. /\ lock' = NoFile
        /\ breaks' = IF lock.owner \in Holders /\ breaks < MaxBreaks THEN breaks + 1 ELSE breaks
        /\ Holders' = Holders
    BY <1>3 DEF Break, Goto, Holders
  <2>2. Displaced' = Holders
    BY <2>1 DEF Displaced, NoFile, Holders
  <2>3. DisplacedByBreaks'
    <3>1. CASE lock.owner \in Holders
      <4>1. Cardinality(Displaced') = Cardinality(Displaced) + 1
        <5>1. Cardinality(Displaced) = Cardinality(Holders) - 1
          BY <3>1, FiniteHolders, FS_RemoveElement DEF Displaced
        <5>2. Cardinality(Holders) \in Nat
          BY FiniteHolders, FS_CardinalityType
        <5> QED
          BY <2>2, <5>1, <5>2
      <4> QED
        BY <2>1, <3>1, <4>1, FiniteHolders, FS_CardinalityType DEF DisplacedByBreaks
    <3>2. CASE lock.owner \notin Holders
      <4>1. Displaced' = Displaced
        BY <2>2, <3>2 DEF Displaced
      <4> QED
        BY <2>1, <3>2, <4>1 DEF DisplacedByBreaks
    <3> QED
      BY <3>1, <3>2
  <2>4. \A q \in Holders' : lock'.owner # q
    BY <2>1 DEF NoFile, Holders
  <2> QED
    BY <2>3, <2>4 DEF AgeIsClock
<1>4. ASSUME NEW p \in Publishers, Touch(p)
      PROVE  LockInv'
  <2>1. Holders' = Holders /\ lock'.owner = lock.owner /\ breaks' = breaks
    BY <1>4 DEF Touch, Holders
  <2>2. Displaced' = Displaced
    BY <2>1 DEF Displaced
  <2>3. ASSUME breaks' = 0, NEW q \in Holders', lock'.owner = q
        PROVE  lock'.age = clock'[q]
    <3>1. p \in Holders /\ q = p
      BY <1>4, <2>1, <2>3, NoneDisplaced DEF Touch, Holders
    <3>2. Held
      BY <2>1, <2>3 DEF Held, Holders
    <3> QED
      BY <1>4, <3>1, <3>2 DEF Touch, ClockReset
  <2> QED
    BY <2>1, <2>2, <2>3 DEF DisplacedByBreaks, AgeIsClock
<1>5. ASSUME NEW p \in Publishers, Release(p)
      PROVE  LockInv'
  (* The unlink may take the file of whoever replaced p: then that process is *)
  (* displaced and p no longer is.                                           *)
  <2>1. lock' = NoFile /\ breaks' = breaks /\ p \in Holders /\ Holders' = Holders \ {p}
    BY <1>5 DEF Release, Goto, Holders
  <2>2. Displaced' = Holders \ {p}
    BY <2>1 DEF Displaced, NoFile, Holders
  <2>3. Cardinality(Displaced') <= Cardinality(Displaced)
    <3>1. CASE lock.owner = p
      <4>1. Displaced' = Displaced
        BY <2>2, <3>1 DEF Displaced
      <4> QED
        BY <4>1, FiniteHolders, FS_CardinalityType
    <3>2. CASE lock.owner # p /\ lock.owner \in Holders
      <4>1. Displaced' = (Displaced \ {p}) \cup {lock.owner} /\ p \in Displaced
        BY <2>1, <2>2, <3>2 DEF Displaced
      <4> QED
        BY <4>1, FiniteHolders, SwapIsNoMore
    <3>3. CASE lock.owner \notin Holders
      <4>1. Displaced = Holders
        BY <3>3 DEF Displaced
      <4> QED
        BY <2>2, <4>1, FiniteHolders, FS_Subset
    <3> QED
      BY <3>1, <3>2, <3>3
  <2>4. DisplacedByBreaks'
    BY <2>1, <2>3, NoMoreDisplaced
  <2>5. \A q \in Holders' : lock'.owner # q
    BY <2>1 DEF NoFile, Holders
  <2> QED
    BY <2>4, <2>5 DEF AgeIsClock
<1>6. ASSUME NEW p \in Publishers, Die(p)
      PROVE  LockInv'
  <2>1. /\ lock' = lock /\ breaks' = breaks /\ Holders' = Holders \ {p}
        /\ \A q \in Holders' : clock'[q] = clock[q]
    BY <1>6 DEF Die, Goto, ClockReset, Holders
  <2>2. Displaced' \subseteq Displaced
    BY <2>1 DEF Displaced
  <2>3. DisplacedByBreaks'
    BY <2>1, <2>2, FiniteHolders, FS_Subset, NoMoreDisplaced
  <2> QED
    BY <2>1, <2>3 DEF AgeIsClock
<1>7. CASE Tick
  <2>1. Holders' = Holders /\ lock'.owner = lock.owner /\ breaks' = breaks
    BY <1>7 DEF Tick, Holders
  <2>2. Displaced' = Displaced
    BY <2>1 DEF Displaced
  <2>3. ASSUME breaks' = 0, NEW q \in Holders', lock'.owner = q
        PROVE  lock'.age = clock'[q]
    <3>1. q \in Publishers /\ pc[q] = "holding" /\ lock.age = clock[q] /\ Held
      BY <2>1, <2>3 DEF AgeIsClock, Holders, Held
    <3>2. lock'.age = IF lock.age <= LockStale THEN lock.age + 1 ELSE lock.age
      BY <1>7, <3>1 DEF Tick
    <3>3. clock'[q] = IF clock[q] <= LockStale THEN clock[q] + 1 ELSE clock[q]
      BY <1>7, <3>1 DEF Tick
    <3> QED
      BY <3>1, <3>2, <3>3
  <2> QED
    BY <2>1, <2>2, <2>3 DEF DisplacedByBreaks, AgeIsClock
<1>8. CASE UNCHANGED vars
  BY <1>8 DEF vars, DisplacedByBreaks, AgeIsClock, Displaced, Holders
<1> QED
  BY <1>1, <1>2, <1>3, <1>4, <1>5, <1>6, <1>7, <1>8 DEF Next

THEOREM LockInvAlways == Spec => [](TypeOK /\ LockInv)
<1>1. Init => LockInv
  <2> SUFFICES ASSUME Init
               PROVE  LockInv
    OBVIOUS
  <2>1. Holders = {} /\ breaks = 0
    BY DEF Init, Holders
  <2>2. Displaced = {}
    BY <2>1 DEF Displaced
  <2> QED
    BY <2>1, <2>2, FS_EmptySet DEF LockInv, DisplacedByBreaks, AgeIsClock
<1> QED
  BY <1>1, TypeCorrect, LockInvInductive, PTL DEF Spec

(* As long as no live holder's file was broken, a holder owns the file, and  *)
(* the file is exactly as old as its last touch.                             *)
THEOREM HolderOwnsFileAlways == Spec => []HolderOwnsFile
BY LockInvAlways, LockInvImplies, PTL

(* However many publishers there are, however slow, and whatever dies: as    *)
(* many hold the lock as live holders were broken, and one.                  *)
THEOREM OneMorePerBreakAlways == Spec => []OneMorePerBreak
BY LockInvAlways, LockInvImplies, PTL

(* In particular the loser waits until the first such break.                 *)
THEOREM ExclusiveUntilBroken == Spec => [](breaks = 0 => MutualExclusion)
<1>1. HolderOwnsFile => (breaks = 0 => MutualExclusion)
  BY DEF HolderOwnsFile, MutualExclusion, Holders
<1> QED
  BY <1>1, HolderOwnsFileAlways, PTL
=============================================================================
