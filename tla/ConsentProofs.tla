----------------------------- MODULE ConsentProofs -----------------------------
(***************************************************************************)
(* Proofs about the consent commands beside publishers of the session: the *)
(* policies decide together, what is sent was agreed to and goes where the *)
(* user saw it would, and `unpublish` leaves nothing, each unless one of   *)
(* the mishaps its property names came between.  They hold for any number  *)
(* of directories, stores, publishers and configs.                         *)
(***************************************************************************)
EXTENDS Consent, TLAPS

Wf == INSTANCE WellFoundedInduction

-----------------------------------------------------------------------------
(* The policy that governs                                                  *)

(* Numbers that are not empty have a least one, and a greatest one up to a   *)
(* bound.                                                                    *)
LEMMA LeastNumber ==
  ASSUME NEW S, S \subseteq Nat, S # {}
  PROVE  \E x \in S : \A y \in S : x <= y
<1> DEFINE R == Wf!OpToRel(<, Nat)
<1>1. Wf!IsWellFoundedOn(R, Nat)
  BY Wf!NatLessThanWellFounded
<1>2. \A x, y \in Nat : x < y => <<x, y>> \in R
  BY DEF Wf!OpToRel
<1> HIDE DEF R
<1>3. PICK x \in S : \A y \in S : <<y, x>> \notin R
  BY <1>1, Wf!WFMin
<1>4. \A y \in S : x <= y
  <2>1. ASSUME NEW y \in S
        PROVE  x <= y
    <3>1. ~(y < x)
      BY <1>2, <1>3
    <3>2. QED
      BY <3>1
  <2>2. QED
    BY <2>1
<1>5. QED
  BY <1>4

LEMMA GreatestNumber ==
  ASSUME NEW n \in Nat, NEW S, S \subseteq 0 .. n, S # {}
  PROVE  \E x \in S : \A y \in S : y <= x
<1> DEFINE Mirrored == {n - x : x \in S}
<1>1. Mirrored \subseteq Nat /\ Mirrored # {}
  <2>1. PICK x \in S : TRUE
    OBVIOUS
  <2>2. n - x \in Mirrored
    BY <2>1
  <2>3. \A y \in 0 .. n : n - y \in Nat
    OBVIOUS
  <2>4. QED
    BY <2>2, <2>3
<1>2. PICK m \in Mirrored : \A k \in Mirrored : m <= k
  <2> HIDE DEF Mirrored
  <2>1. QED
    BY <1>1, LeastNumber
<1>3. PICK x \in S : m = n - x
  OBVIOUS
<1>4. \A y \in S : n - x <= n - y
  BY <1>2, <1>3
<1>5. QED
  BY <1>4

(* One directory governs as soon as one has a policy, and no other.          *)
LEMMA OneGoverns ==
  ASSUME NEW t \in Tree, NEW d \in MostRestrictive(t), NEW e \in MostRestrictive(t)
  PROVE  d = e
<1>1. d \in Dirs /\ e \in Dirs /\ d \in PolicyChain(t) /\ e \in PolicyChain(t)
  BY DEF MostRestrictive, PolicyChain
<1>2. d \in Int /\ e \in Int
  BY <1>1 DEF Dirs
<1>3. Restriction[t[d].share] \in Int /\ Restriction[t[e].share] \in Int
  BY <1>1 DEF PolicyChain, Restriction, Modes
<1>4. \/ Restriction[t[d].share] > Restriction[t[e].share]
      \/ Restriction[t[d].share] = Restriction[t[e].share] /\ d >= e
  BY <1>1 DEF MostRestrictive
<1>5. \/ Restriction[t[e].share] > Restriction[t[d].share]
      \/ Restriction[t[e].share] = Restriction[t[d].share] /\ e >= d
  BY <1>1 DEF MostRestrictive
<1>6. QED
  BY <1>2, <1>3, <1>4, <1>5

(* The outermost of the directories with this policy. *)
LEMMA OutermostOf ==
  ASSUME NEW t \in Tree, NEW m \in Modes, \E d \in Dirs : t[d].share = m
  PROVE  \E d \in Dirs : t[d].share = m /\ \A e \in Dirs : t[e].share = m => e <= d
<1> DEFINE S == {d \in Dirs : t[d].share = m}
<1>1. S \subseteq 0 .. Depth /\ S # {} /\ Depth \in Nat
  BY PolicyConstants DEF Dirs
<1>2. \E x \in S : \A y \in S : y <= x
  <2> HIDE DEF S
  <2>1. QED
    BY <1>1, GreatestNumber
<1>3. QED
  BY <1>2

LEMMA StrictestGoverns ==
  ASSUME NEW t \in Tree, NEW m \in Modes, \E d \in Dirs : t[d].share = m,
         \A d \in Dirs : t[d].share \in Modes => Restriction[t[d].share] <= Restriction[m]
  PROVE  \E d \in MostRestrictive(t) :
           t[d].share = m /\ \A e \in Dirs : t[e].share = m => e <= d
<1>1. PICK d \in Dirs : t[d].share = m /\ \A e \in Dirs : t[e].share = m => e <= d
  BY OutermostOf
<1>2. d \in PolicyChain(t)
  BY <1>1 DEF PolicyChain
<1>3. ASSUME NEW e \in PolicyChain(t)
      PROVE  \/ Restriction[t[d].share] > Restriction[t[e].share]
             \/ Restriction[t[d].share] = Restriction[t[e].share] /\ d >= e
  <2>1. e \in Dirs /\ t[e].share \in Modes
    BY DEF PolicyChain
  <2>2. CASE t[e].share = m
    <3>1. e <= d
      BY <1>1, <2>1, <2>2
    <3>2. QED
      BY <1>1, <2>1, <2>2, <3>1 DEF Dirs
  <2>3. CASE t[e].share # m
    <3>1. Restriction[t[e].share] <= Restriction[m]
      BY <2>1
    <3>2. Restriction[t[e].share] # Restriction[m]
      BY <2>1, <2>3 DEF Restriction, Modes
    <3>3. Restriction[t[e].share] \in Int /\ Restriction[m] \in Int
      BY <2>1 DEF Restriction, Modes
    <3>4. QED
      BY <1>1, <3>1, <3>2, <3>3
  <2>4. QED
    BY <2>2, <2>3
<1>4. d \in MostRestrictive(t)
  BY <1>2, <1>3 DEF MostRestrictive
<1>5. QED
  BY <1>1, <1>4

(* What the governing policy says of them all.                               *)
LEMMA GovernorOf ==
  ASSUME NEW t \in Tree
  PROVE  \/ MostRestrictive(t) = {} /\ \A d \in Dirs : t[d].share = "unset"
         \/ \E d \in Dirs :
              /\ MostRestrictive(t) = {d} /\ t[d].share \in Modes
              /\ t[d].share = "never" <=> \E e \in Dirs : t[e].share = "never"
              /\ t[d].share = "always" <=>
                   \A e \in Dirs : t[e].share \in Modes => t[e].share = "always" /\ e <= d
<1>1. \A d \in Dirs : t[d].share \in Modes \cup {"unset"}
  BY DEF Tree, Config
<1>2. CASE \E d \in Dirs : t[d].share = "never"
  <2>1. PICK d \in MostRestrictive(t) :
           t[d].share = "never" /\ \A e \in Dirs : t[e].share = "never" => e <= d
    BY <1>2, StrictestGoverns DEF Modes, Restriction
  <2>2. d \in Dirs /\ MostRestrictive(t) = {d}
    BY OneGoverns DEF MostRestrictive, PolicyChain
  <2>3. QED
    BY <2>1, <2>2 DEF Modes
<1>3. CASE (\A d \in Dirs : t[d].share # "never") /\ \E d \in Dirs : t[d].share = "ask"
  <2>1. PICK d \in MostRestrictive(t) :
           t[d].share = "ask" /\ \A e \in Dirs : t[e].share = "ask" => e <= d
    BY <1>3, StrictestGoverns DEF Modes, Restriction
  <2>2. d \in Dirs /\ MostRestrictive(t) = {d}
    BY OneGoverns DEF MostRestrictive, PolicyChain
  <2>3. QED
    BY <1>3, <2>1, <2>2 DEF Modes
<1>4. CASE /\ \A d \in Dirs : t[d].share \notin {"never", "ask"}
           /\ \E d \in Dirs : t[d].share = "always"
  <2>1. PICK d \in MostRestrictive(t) :
           t[d].share = "always" /\ \A e \in Dirs : t[e].share = "always" => e <= d
    BY <1>4, StrictestGoverns DEF Modes, Restriction
  <2>2. d \in Dirs /\ MostRestrictive(t) = {d}
    BY OneGoverns DEF MostRestrictive, PolicyChain
  <2>3. QED
    BY <1>4, <2>1, <2>2 DEF Modes
<1>5. CASE \A d \in Dirs : t[d].share = "unset"
  <2>1. MostRestrictive(t) = {}
    BY <1>5 DEF MostRestrictive, PolicyChain, Modes
  <2>2. QED
    BY <1>5, <2>1
<1>6. QED
  BY <1>1, <1>2, <1>3, <1>4, <1>5 DEF Modes

LEMMA EffectiveModeOf ==
  ASSUME NEW t \in Tree
  PROVE  /\ EffectiveMode(t) \in Modes \cup {"unset"}
         /\ MostRestrictive(t) = {} <=> EffectiveMode(t) = "unset"
         /\ \A d \in Dirs : MostRestrictive(t) = {d} => EffectiveMode(t) = t[d].share
<1>1. CASE MostRestrictive(t) = {}
  BY <1>1 DEF EffectiveMode
<1>2. CASE MostRestrictive(t) # {}
  <2>1. PICK d \in Dirs : MostRestrictive(t) = {d} /\ t[d].share \in Modes
    BY <1>2, GovernorOf
  <2>2. EffectiveMode(t) = CHOOSE m \in Modes : t[d].share = m
    BY <2>1 DEF EffectiveMode
  <2>3. EffectiveMode(t) = t[d].share
    BY <2>1, <2>2
  <2>4. QED
    BY <2>1, <2>3 DEF Modes
<1>3. QED
  BY <1>1, <1>2

LEMMA GoverningOf ==
  ASSUME tree \in Tree
  PROVE  /\ Governing \in 0 .. Depth
         /\ Governing = 0 <=> MostRestrictive(tree) = {}
         /\ \A d \in Dirs : MostRestrictive(tree) = {d} => Governing = d
<1>1. CASE MostRestrictive(tree) = {}
  BY <1>1, PolicyConstants DEF Governing, Dirs
<1>2. CASE MostRestrictive(tree) # {}
  <2>1. PICK d \in Dirs : MostRestrictive(tree) = {d}
    BY <1>2, GovernorOf
  <2>2. Governing = CHOOSE e \in {d} : TRUE
    BY <2>1 DEF Governing
  <2>3. Governing = d
    BY <2>2
  <2>4. QED
    BY <2>1, <2>3, PolicyConstants DEF Dirs
<1>3. QED
  BY <1>1, <1>2

LEMMA ValidAck ==
  ASSUME NEW config \in Config, NEW ack, config.share \in Modes
  PROVE  AckStatus(config, ack) = "valid" <=> ack = config
<1>1. config # NoAck
  <2>1. NoAck.share = "no ack"
    BY DEF NoAck
  <2>2. config.share # "no ack"
    BY DEF Modes
  <2>3. QED
    BY <2>1, <2>2
<1>2. QED
  BY <1>1 DEF AckStatus

(* Sharing is decided by all directories together, and by an outermost one   *)
(* only when all agree with it.                                              *)
LEMMA TypeGivesUnanimity ==
  ASSUME TypeOK
  PROVE  ResolveIsUnanimous
<1> DEFINE status == IF Governing = 0 THEN "none" ELSE AckStatus(tree[Governing], acks[Governing])
           mode == EffectiveMode(tree)
           policies == PolicyChain(tree)
           unanimous == /\ policies # {}
                        /\ \A d \in policies : tree[d].share = "always"
                        /\ \E d \in policies : acks[d] = tree[d] /\ \A e \in policies : e <= d
<1>1. tree \in Tree /\ marker \in Markers /\ \A d \in Dirs : tree[d] \in Config
  BY DEF TypeOK, Tree
<1>2. mode = "always" /\ status = "valid" <=> unanimous
  <2>1. CASE MostRestrictive(tree) = {}
    <3>1. mode = "unset" /\ \A d \in Dirs : tree[d].share = "unset"
      BY <1>1, <2>1, GovernorOf, EffectiveModeOf
    <3>2. policies = {}
      BY <3>1 DEF PolicyChain, Modes
    <3>3. QED
      BY <3>1, <3>2
  <2>2. CASE MostRestrictive(tree) # {}
    <3>1. PICK d \in Dirs :
            /\ MostRestrictive(tree) = {d} /\ tree[d].share \in Modes
            /\ tree[d].share = "always" <=>
                 \A e \in Dirs : tree[e].share \in Modes => tree[e].share = "always" /\ e <= d
      BY <1>1, <2>2, GovernorOf
    <3>2. Governing = d /\ mode = tree[d].share /\ Governing # 0
      BY <1>1, <2>2, <3>1, GoverningOf, EffectiveModeOf
    <3>3. status = "valid" <=> acks[d] = tree[d]
      BY <1>1, <3>1, <3>2, ValidAck
    <3>4. d \in policies /\ d \in Int
      BY <3>1 DEF PolicyChain, Dirs
    <3>5. ASSUME mode = "always", status = "valid"
          PROVE  unanimous
      <4>1. \A e \in policies : tree[e].share = "always" /\ e <= d
        BY <3>1, <3>2, <3>5 DEF PolicyChain
      <4>2. QED
        BY <3>3, <3>4, <3>5, <4>1
    <3>6. ASSUME unanimous
          PROVE  mode = "always" /\ status = "valid"
      <4>1. PICK e \in policies : acks[e] = tree[e] /\ \A f \in policies : f <= e
        BY <3>6
      <4>2. tree[d].share = "always"
        BY <3>4, <3>6
      <4>3. e <= d /\ d <= e /\ e \in Int
        BY <3>1, <3>4, <4>1, <4>2 DEF PolicyChain, Dirs
      <4>4. e = d
        BY <3>4, <4>3
      <4>5. QED
        BY <3>2, <3>3, <4>1, <4>2, <4>4
    <3> HIDE DEF unanimous, status, mode
    <3>7. QED
      BY <3>5, <3>6
  <2>3. QED
    BY <2>1, <2>2
<1>3. mode = "never" <=> \E d \in Dirs : tree[d].share = "never"
  <2>1. CASE MostRestrictive(tree) = {}
    BY <1>1, <2>1, GovernorOf, EffectiveModeOf
  <2>2. CASE MostRestrictive(tree) # {}
    BY <1>1, <2>2, GovernorOf, EffectiveModeOf
  <2>3. QED
    BY <2>1, <2>2
<1>4. mode \in Modes \cup {"unset"}
  BY <1>1, EffectiveModeOf
<1>5. mode = "never" => ~unanimous
  BY <1>2
<1> HIDE DEF status, mode, unanimous
<1>6. Resolve(marker, mode, status).sharing
        <=> /\ ~(mode = "never")
            /\ marker = "on" \/ (marker = "unset" /\ unanimous)
  BY <1>1, <1>2, <1>4 DEF Resolve, On, Off, Markers, Modes
<1>7. QED
  BY <1>3, <1>6 DEF ResolveIsUnanimous, status, mode, unanimous

-----------------------------------------------------------------------------
(* Lemmas about the operators                                               *)

RunRecord ==
    [pc : RunSteps, via : {"publish", "sync", "enable"}, mode : Modes \cup {"unset"},
     dir : 0 .. Depth, source : {"session", "repo", "default"},
     dest : Stores \cup {NoStore}, state : PublishState, to : 0 .. MaxLength]

LEMMA LengthBound == MaxLength \in Nat /\ Depth \in Nat
  BY ConsentConstants, PolicyConstants

LEMMA StateType ==
  ASSUME NEW s \in PublishState
  PROVE  /\ s.start \in 0 .. MaxLength /\ s.offset \in 0 .. MaxLength
         /\ s.start \in Int /\ s.offset \in Int
         /\ PlanStart(s) \in 0 .. MaxLength /\ PlanStart(s) \in Int
         /\ s.start <= PlanStart(s) /\ s.offset <= PlanStart(s)
         /\ PlanStart(s) \in {s.start, s.offset}
         /\ Published(s) => PlanStart(s) = s.offset
         /\ ~Published(s) => PlanStart(s) = s.start
  BY LengthBound DEF PublishState, PlanStart, Most, Published

LEMMA FreshState ==
  Fresh \in PublishState /\ Fresh.start = 0 /\ Fresh.offset = 0 /\ ~Published(Fresh)
  BY LengthBound DEF PublishState, Fresh, Published

LEMMA CheckpointOf ==
  ASSUME NEW s \in PublishState, PlanStart(s) < MaxLength
  PROVE  /\ Checkpoint(s) \in PublishState /\ Published(Checkpoint(s))
         /\ Checkpoint(s).start = s.start /\ Checkpoint(s).offset = PlanStart(s) + 1
         /\ PlanStart(Checkpoint(s)) = PlanStart(s) + 1
<1>1. /\ PlanStart(s) \in 0 .. MaxLength /\ PlanStart(s) \in Int
      /\ s.start <= PlanStart(s) /\ s.start \in 0 .. MaxLength
  BY StateType
<1>2. PlanStart(s) + 1 \in 0 .. MaxLength
  BY <1>1, LengthBound
<1>3. Checkpoint(s) = [start |-> s.start, offset |-> PlanStart(s) + 1]
  BY DEF Checkpoint, PublishState
<1>4. Checkpoint(s) \in PublishState
  BY <1>1, <1>2, <1>3 DEF PublishState
<1>5. Published(Checkpoint(s))
  BY <1>1, <1>3 DEF Published
<1>6. QED
  BY <1>3, <1>4, <1>5, StateType

(* The bytes that are adopted are in the store, from the first one there on. *)
LEMMA AdoptedOf ==
  ASSUME NEW held \in SUBSET Bytes, held # {}
  PROVE  /\ Adopted(held) \in PublishState /\ Published(Adopted(held))
         /\ Adopted(held).start \in held
         /\ \A b \in Adopted(held).start .. Adopted(held).offset - 1 : b \in held
<1> DEFINE base == CHOOSE b \in held : \A c \in held : b <= c
           Ends == {e \in base + 1 .. MaxLength : e \notin held}
           Stops(e) == e \notin held /\ \A b \in base .. e - 1 : b \in held
           stop == CHOOSE e \in base + 1 .. MaxLength : Stops(e)
<1>1. held \subseteq Nat /\ \A b \in held : b < MaxLength /\ b >= 0
  BY LengthBound DEF Bytes
<1>2. base \in held
  <2>1. \E b \in held : \A c \in held : b <= c
    BY <1>1, LeastNumber
  <2>2. QED
    BY <2>1
<1>3. base \in Nat /\ base < MaxLength
  BY <1>1, <1>2
<1> HIDE DEF base
<1>4. Ends \subseteq Nat /\ Ends # {}
  <2>1. MaxLength \in base + 1 .. MaxLength /\ MaxLength \notin held
    BY <1>1, <1>3, LengthBound
  <2>2. QED
    BY <1>3, <2>1
<1>5. PICK e \in Ends : \A f \in Ends : e <= f
  <2> HIDE DEF Ends
  <2>1. QED
    BY <1>4, LeastNumber
<1>6. Stops(e)
  <2>1. ASSUME NEW b \in base .. e - 1, b \notin held
        PROVE  FALSE
    <3>1. b # base /\ b \in Int /\ b < e /\ e \in base + 1 .. MaxLength
      BY <1>2, <1>3, <1>5, <2>1
    <3>2. b \in Ends
      BY <1>3, <2>1, <3>1, LengthBound
    <3>3. e <= b
      BY <1>5, <3>2
    <3>4. QED
      BY <1>3, <3>1, <3>3
  <2>2. QED
    BY <1>5, <2>1
<1>7. stop \in base + 1 .. MaxLength /\ Stops(stop)
  <2> HIDE DEF Stops
  <2>1. QED
    BY <1>5, <1>6
<1>8. Adopted(held) = [start |-> base, offset |-> stop]
  BY DEF Adopted, base
<1> HIDE DEF stop
<1>9. QED
  BY <1>2, <1>3, <1>7, <1>8, LengthBound DEF PublishState, Published

LEMMA Destination ==
  ASSUME tree \in Tree, machine \in Machines
  PROVE  LoadConfig(machine, tree) \in Stores
<1>1. NearestConfig(tree).store \in Stores \cup {NoStore}
  <2>1. CASE FindRepo(tree) = {}
    BY <2>1 DEF NearestConfig, NoEz
  <2>2. CASE FindRepo(tree) # {}
    <3>1. (CHOOSE d \in FindRepo(tree) : TRUE) \in Dirs
      BY <2>2 DEF FindRepo
    <3>2. QED
      BY <2>2, <3>1 DEF NearestConfig, Tree, Config
  <2>3. QED
    BY <2>1, <2>2
<1>2. QED
  BY <1>1, PolicyConstants, ConsentConstants DEF LoadConfig

(* What a decision rests on. *)
LEMMA ResolveOf ==
  ASSUME NEW m \in Markers, NEW mode, NEW status
  PROVE  LET decision == Resolve(m, mode, status)
         IN  /\ decision.sharing \in BOOLEAN
             /\ decision.source \in {"session", "repo", "default"}
             /\ m = "off" => ~decision.sharing /\ decision.source = "session"
             /\ decision.sharing /\ decision.source = "repo" =>
                  m = "unset" /\ mode = "always" /\ status = "valid"
             /\ decision.sharing /\ decision.source # "repo" =>
                  m = "on" /\ decision.source = "session"
  BY DEF Resolve, Markers, On, Off

-----------------------------------------------------------------------------
(* The steps of a publish                                                   *)

UnderWaySteps == {"config", "lock", "reconcile", "register", "send", "save", "enable"}
LockedSteps == {"reconcile", "register", "send", "save"}

(* What a step works on has been read by then; and steps with the lock are   *)
(* of the run that has it.                                                   *)
Fits(r) ==
    /\ r.pc \in {"idle", "decide"} => r.source = "default"
    /\ r.pc \in {"idle", "decide", "config"} => r.dest = NoStore
    /\ r.pc \in {"lock"} \cup LockedSteps => r.dest \in Stores
    /\ r.pc = "reconcile" => ~Published(r.state)
    /\ r.pc \in {"send", "save"} => PlanStart(r.state) < r.to
    /\ r.source = "repo" => r.dir \in Dirs

RunHasItsArguments ==
    \A p \in Publishers : Fits(run[p]) /\ (run[p].pc \in LockedSteps => holder = p)

RunsOK == TypeOK /\ RunHasItsArguments

Typed == run \in [Publishers -> RunRecord] /\ holder \in Publishers \cup {NoOne, Dead}
Others(p) == \A q \in Publishers \ {p} : run'[q] = run[q]
Holders(p) == \A q \in Publishers \ {p} : holder = q => holder' = q

(* The run of p is now r, and nobody else's lock is gone. *)
Becomes(p, r) ==
    /\ Typed' /\ Others(p) /\ Holders(p)
    /\ run'[p] = r /\ r \in RunRecord

(* The run of p begins or is over: it has read nothing yet. *)
Clears(p) ==
    \E r \in RunRecord :
      /\ Becomes(p, r)
      /\ r.pc \in {"idle", "decide"} /\ r.source = "default" /\ r.dest = NoStore
      /\ r.state = Fresh /\ r.to = 0

(* It goes on to a step, with this destination, state and size.              *)
Takes(p, step, dest, state, to) ==
    \E r \in RunRecord :
      /\ Becomes(p, r)
      /\ r.pc = step /\ r.dest = dest /\ r.state = state /\ r.to = to
      /\ r.source = run[p].source /\ r.dir = run[p].dir

LEMMA TypedRuns ==
  ASSUME TypeOK
  PROVE  Typed /\ \A p \in Publishers : run[p] \in RunRecord
  BY DEF TypeOK, Typed, RunRecord

LEMMA NoRunType == NoRun \in RunRecord /\ NoRun.state = Fresh /\ NoRun.to = 0
  BY FreshState, LengthBound DEF NoRun, RunRecord, RunSteps

LEMMA NoRunClears ==
  ASSUME NEW p, Becomes(p, NoRun)
  PROVE  Clears(p)
<1>1. NoRun.pc = "idle" /\ NoRun.source = "default" /\ NoRun.dest = NoStore
  BY DEF NoRun
<1>2. QED
  BY <1>1, NoRunType DEF Clears

LEMMA LeaveOf ==
  ASSUME TypeOK, NEW p \in Publishers, Leave(p)
  PROVE  Clears(p)
<1>1. Becomes(p, NoRun)
  BY TypedRuns, NoRunType DEF Leave, Becomes, Typed, Others, Holders
<1>2. QED
  BY <1>1, NoRunClears

(* A step that changes only the run of p. *)
LEMMA RunOf ==
  ASSUME TypeOK, NEW p \in Publishers, NEW r \in RunRecord,
         run' = [run EXCEPT ![p] = r],
         holder' = holder \/ (holder = NoOne /\ holder' = p) \/ (holder = p /\ holder' = NoOne)
  PROVE  Becomes(p, r)
<1>1. run'[p] = r /\ run' \in [Publishers -> RunRecord] /\ Others(p)
  BY TypedRuns DEF Typed, Others
<1>2. holder' \in Publishers \cup {NoOne, Dead} /\ Holders(p)
  BY TypedRuns, HolderNames DEF Typed, Holders
<1>3. QED
  BY <1>1, <1>2 DEF Becomes, Typed

LEMMA StepOf ==
  ASSUME TypeOK, NEW p \in Publishers, NEW step \in RunSteps, NEW dest \in Stores \cup {NoStore},
         NEW state \in PublishState, NEW to \in 0 .. MaxLength,
         run' = [run EXCEPT ![p] =
                   [@ EXCEPT !.pc = step, !.dest = dest, !.state = state, !.to = to]],
         holder' = holder \/ (holder = NoOne /\ holder' = p) \/ (holder = p /\ holder' = NoOne)
  PROVE  Takes(p, step, dest, state, to)
<1> DEFINE r == [run[p] EXCEPT !.pc = step, !.dest = dest, !.state = state, !.to = to]
<1>1. run[p] \in RunRecord /\ run \in [Publishers -> RunRecord]
  BY TypedRuns DEF Typed
<1>2. r \in RunRecord /\ run' = [run EXCEPT ![p] = r]
  BY <1>1 DEF RunRecord
<1>3. /\ r.pc = step /\ r.dest = dest /\ r.state = state /\ r.to = to
      /\ r.source = run[p].source /\ r.dir = run[p].dir
  BY <1>1 DEF RunRecord
<1> HIDE DEF r
<1>4. Becomes(p, r)
  BY <1>2, RunOf
<1>5. QED
  BY <1>2, <1>3, <1>4 DEF Takes

LEMMA StartOf ==
  ASSUME TypeOK, NEW p \in Publishers, NEW via \in {"publish", "sync", "enable"}, Start(p, via)
  PROVE  Clears(p) /\ run[p].pc = "idle"
<1> DEFINE r == [NoRun EXCEPT !.pc = "decide", !.via = via,
                   !.mode = EffectiveMode(tree), !.dir = Governing]
<1>1. r \in RunRecord
  <2>1. EffectiveMode(tree) \in Modes \cup {"unset"} /\ Governing \in 0 .. Depth
    BY EffectiveModeOf, GoverningOf DEF TypeOK
  <2>2. QED
    BY <2>1, NoRunType DEF RunRecord, RunSteps
<1>2. /\ r.pc = "decide" /\ r.source = "default" /\ r.dest = NoStore
      /\ r.state = Fresh /\ r.to = 0
  BY DEF NoRun
<1>3. run' = [run EXCEPT ![p] = r] /\ holder' = holder /\ run[p].pc = "idle"
  BY DEF Start, Step
<1> HIDE DEF r
<1>4. Becomes(p, r)
  BY <1>1, <1>3, RunOf
<1>5. QED
  BY <1>1, <1>2, <1>3, <1>4 DEF Clears

(* A publish that goes on was consented to: by the marker, by the policy it  *)
(* then names, or to all of the session.                                     *)
Allowed(p) ==
    \E r \in RunRecord :
      /\ Becomes(p, r)
      /\ r.pc = "config" /\ r.dest = run[p].dest /\ r.state = run[p].state /\ r.to = run[p].to
      /\ r.source = "repo" =>
           /\ r.dir \in Dirs /\ acks[r.dir] = tree[r.dir] /\ acks[r.dir] # NoAck
      /\ \/ floor' = 0
         \/ floor' = floor /\ marker = "on"
      /\ gone' \in {gone, NoStore}
      /\ marker # "off"

LEMMA DecideOf ==
  ASSUME TypeOK, NEW p \in Publishers, Decide(p)
  PROVE  /\ run[p].pc = "decide"
         /\ Allowed(p) \/ (Clears(p) /\ floor' = floor /\ gone' = gone)
<1> DEFINE decision == Decided(p)
           status == IF run[p].dir = 0 THEN "none"
                     ELSE AckStatus(tree[run[p].dir], acks[run[p].dir])
           sync == run[p].via # "publish"
           allowed == IF sync THEN ~SyncRefused(decision, tree) ELSE decision.sharing
           whole == sync \/ decision.source = "repo"
           r == [run[p] EXCEPT !.pc = "config", !.mode = "unset",
                   !.source = IF sync THEN "default" ELSE decision.source,
                   !.dir = IF sync \/ marker = "on" THEN 0 ELSE @]
<1>1. run[p] \in RunRecord /\ marker \in Markers /\ tree \in Tree /\ acks \in [Dirs -> Ack]
  BY TypedRuns DEF TypeOK
<1>2. decision = Resolve(marker, run[p].mode, status)
  BY DEF Decided
<1>3. /\ decision.source \in {"session", "repo", "default"}
      /\ marker = "off" => ~decision.sharing /\ decision.source = "session"
      /\ decision.sharing /\ decision.source = "repo" => marker = "unset" /\ status = "valid"
      /\ decision.sharing /\ decision.source # "repo" => marker = "on"
  <2> HIDE DEF status
  <2>1. QED
    BY <1>1, <1>2, ResolveOf
<1> HIDE DEF decision
<1>4. run[p].pc = "decide"
  BY DEF Decide, Step
<1>5. CASE ~allowed
  <2>1. Leave(p) /\ floor' = floor /\ gone' = gone
    BY <1>5 DEF Decide, decision
  <2>2. QED
    BY <1>4, <2>1, LeaveOf
<1>6. CASE allowed
  <2>1. /\ run' = [run EXCEPT ![p].pc = "config", ![p].mode = "unset",
                              ![p].source = IF sync THEN "default" ELSE decision.source,
                              ![p].dir = IF sync \/ marker = "on" THEN 0 ELSE @]
        /\ floor' = IF whole THEN 0 ELSE floor
        /\ gone' = IF sync THEN NoStore ELSE gone
        /\ holder' = holder
    BY <1>6 DEF Decide, decision
  <2>2. run' = [run EXCEPT ![p] = r]
    BY <1>1, <2>1, TypedRuns DEF Typed, RunRecord
  <2>3. r \in RunRecord
    <3> DEFINE source == IF sync THEN "default" ELSE decision.source
               dir == IF sync \/ marker = "on" THEN 0 ELSE run[p].dir
    <3>1. source \in {"session", "repo", "default"} /\ dir \in 0 .. Depth
      BY <1>1, <1>3, LengthBound DEF RunRecord
    <3>2. r = [run[p] EXCEPT !.pc = "config", !.mode = "unset", !.source = source, !.dir = dir]
      BY <1>1 DEF RunRecord
    <3> HIDE DEF source, dir, r
    <3>3. QED
      BY <1>1, <3>1, <3>2 DEF RunRecord, RunSteps
  <2>4. Becomes(p, r)
    <3> HIDE DEF r
    <3>1. QED
      BY <2>1, <2>2, <2>3, RunOf
  <2>5. r.pc = "config" /\ r.dest = run[p].dest /\ r.state = run[p].state /\ r.to = run[p].to
    BY <1>1 DEF RunRecord
  <2>6. marker # "off"
    BY <1>3, <1>6 DEF SyncRefused
  <2>7. ASSUME r.source = "repo"
        PROVE  r.dir \in Dirs /\ acks[r.dir] = tree[r.dir] /\ acks[r.dir] # NoAck
    <3>1. ~sync /\ decision.source = "repo"
      BY <1>1, <2>7 DEF RunRecord
    <3>2. marker = "unset" /\ status = "valid"
      BY <1>3, <1>6, <3>1
    <3>3. r.dir = run[p].dir /\ run[p].dir # 0 /\ run[p].dir \in 0 .. Depth
      BY <1>1, <3>1, <3>2 DEF RunRecord
    <3>4. r.dir \in Dirs
      BY <3>3, LengthBound DEF Dirs
    <3>5. AckStatus(tree[r.dir], acks[r.dir]) = "valid"
      BY <3>2, <3>3
    <3> HIDE DEF r
    <3>6. QED
      BY <3>4, <3>5 DEF AckStatus
  <2>8. floor' = 0 \/ (floor' = floor /\ marker = "on")
    BY <1>3, <1>6, <2>1
  <2>9. gone' \in {gone, NoStore}
    BY <2>1
  <2> HIDE DEF r
  <2>10. Allowed(p)
    BY <2>3, <2>4, <2>5, <2>6, <2>7, <2>8, <2>9 DEF Allowed
  <2>11. QED
    BY <1>4, <2>10
<1>7. QED
  BY <1>5, <1>6

LEMMA ConfigureOf ==
  ASSUME TypeOK, NEW p \in Publishers, Configure(p)
  PROVE  /\ Takes(p, "lock", LoadConfig(machine, tree), run[p].state, run[p].to)
         /\ run[p].pc = "config" /\ LoadConfig(machine, tree) \in Stores
<1> DEFINE dest == LoadConfig(machine, tree)
<1>1. dest \in Stores
  BY Destination DEF TypeOK
<1>2. run' = [run EXCEPT ![p].pc = "lock", ![p].dest = dest] /\ holder' = holder
      /\ run[p].pc = "config"
  BY DEF Configure, Step
<1> HIDE DEF dest
<1>3. run[p].state \in PublishState /\ run[p].to \in 0 .. MaxLength /\ "lock" \in RunSteps
  BY TypedRuns DEF RunRecord, RunSteps
<1>4. run' = [run EXCEPT ![p] = [@ EXCEPT !.pc = "lock", !.dest = dest,
                                          !.state = run[p].state, !.to = run[p].to]]
  BY <1>2, TypedRuns DEF Typed, RunRecord
<1>5. Takes(p, "lock", dest, run[p].state, run[p].to)
  BY <1>1, <1>2, <1>3, <1>4, StepOf
<1>6. QED
  BY <1>1, <1>2, <1>5 DEF dest

LEMMA TakeLockOf ==
  ASSUME TypeOK, NEW p \in Publishers, TakeLock(p), run[p].dest \in Stores
  PROVE  /\ \/ Published(saved) /\ Takes(p, "register", run[p].dest, saved, length)
            \/ ~Published(saved) /\ Takes(p, "reconcile", run[p].dest, saved, length)
         /\ run[p].pc = "lock" /\ holder = NoOne /\ holder' = p
<1> DEFINE step == IF Published(saved) THEN "register" ELSE "reconcile"
<1>1. step \in RunSteps /\ saved \in PublishState /\ length \in 0 .. MaxLength
  BY DEF TypeOK, RunSteps
<1>2. run' = [run EXCEPT ![p].state = saved, ![p].to = length, ![p].pc = step]
      /\ holder = NoOne /\ holder' = p /\ run[p].pc = "lock"
  BY DEF TakeLock, Step
<1>3. \/ step = "register" /\ Published(saved)
      \/ step = "reconcile" /\ ~Published(saved)
  <2>1. CASE Published(saved)
    BY <2>1
  <2>2. CASE ~Published(saved)
    BY <2>2
  <2>3. QED
    BY <2>1, <2>2
<1> HIDE DEF step
<1>4. run' = [run EXCEPT ![p] = [@ EXCEPT !.pc = step, !.dest = run[p].dest,
                                          !.state = saved, !.to = length]]
  BY <1>1, <1>2, TypedRuns DEF Typed, RunRecord
<1>5. Takes(p, step, run[p].dest, saved, length)
  BY <1>1, <1>2, <1>4, StepOf
<1>6. QED
  BY <1>2, <1>3, <1>5

LEMMA ReconcileOf ==
  ASSUME RunsOK, NEW p \in Publishers, Reconcile(p)
  PROVE  \E state \in PublishState :
           /\ Takes(p, "register", run[p].dest, state, run[p].to)
           /\ run[p].pc = "reconcile" /\ run[p].dest \in Stores /\ holder' = holder
           /\ \/ state = run[p].state
              \/ /\ Published(state) /\ state.start \in remote[run[p].dest]
                 /\ \A b \in state.start .. state.offset - 1 : b \in remote[run[p].dest]
<1> DEFINE state == IF Held(p) = {} THEN run[p].state ELSE Adopted(Held(p))
<1>1. run[p].pc = "reconcile" /\ holder' = holder
  BY DEF Reconcile, Step
<1>2. run[p].dest \in Stores /\ run[p].state \in PublishState /\ TypeOK
      /\ run[p].to \in 0 .. MaxLength /\ "register" \in RunSteps
  BY <1>1, TypedRuns DEF RunsOK, RunHasItsArguments, Fits, LockedSteps, RunRecord, RunSteps
<1>3. Held(p) = {} \/ (Held(p) = remote[run[p].dest] /\ Held(p) \in SUBSET Bytes)
  BY <1>2 DEF Held, TypeOK
<1>4. /\ state \in PublishState
      /\ \/ state = run[p].state
         \/ /\ Published(state) /\ state.start \in remote[run[p].dest]
            /\ \A b \in state.start .. state.offset - 1 : b \in remote[run[p].dest]
  BY <1>2, <1>3, AdoptedOf
<1>5. run' = [run EXCEPT ![p].pc = "register", ![p].state = state]
  <2>1. run' = [run EXCEPT ![p].pc = "register",
                           ![p].state = IF Held(p) = {} THEN run[p].state ELSE Adopted(Held(p))]
    BY <1>2, TypedRuns DEF Reconcile, Typed, RunRecord
  <2>2. QED
    BY <2>1
<1> HIDE DEF state
<1>6. run' = [run EXCEPT ![p] = [@ EXCEPT !.pc = "register", !.dest = run[p].dest,
                                          !.state = state, !.to = run[p].to]]
  BY <1>2, <1>5, TypedRuns DEF Typed, RunRecord
<1>7. Takes(p, "register", run[p].dest, state, run[p].to)
  BY <1>1, <1>2, <1>4, <1>6, StepOf
<1>8. QED
  BY <1>1, <1>2, <1>4, <1>7

(* A publish that has sent all is over, or has sharing left to switch on.    *)
Returned(p, state) ==
    Clears(p) \/ Takes(p, "enable", run[p].dest, state, run[p].to)

LEMMA ReturnOf ==
  ASSUME TypeOK, NEW p \in Publishers, NEW state \in PublishState, Return(p, state), holder = p
  PROVE  Returned(p, state)
<1>1. CASE run[p].via = "enable"
  <2>1. run' = [run EXCEPT ![p].pc = "enable", ![p].state = state] /\ holder' = NoOne
    BY <1>1 DEF Return
  <2>2. run[p].dest \in Stores \cup {NoStore} /\ run[p].to \in 0 .. MaxLength
        /\ "enable" \in RunSteps
    BY TypedRuns DEF RunRecord, RunSteps
  <2>3. run' = [run EXCEPT ![p] = [@ EXCEPT !.pc = "enable", !.dest = run[p].dest,
                                            !.state = state, !.to = run[p].to]]
    BY <2>1, TypedRuns DEF Typed, RunRecord
  <2>4. Takes(p, "enable", run[p].dest, state, run[p].to)
    BY <2>1, <2>2, <2>3, StepOf
  <2>5. QED
    BY <2>4 DEF Returned
<1>2. CASE run[p].via # "enable"
  BY <1>2, LeaveOf DEF Return, Returned
<1>3. QED
  BY <1>1, <1>2

LEMMA RegisterOf ==
  ASSUME RunsOK, NEW p \in Publishers, Register(p)
  PROVE  /\ run[p].pc = "register"
         /\ \/ /\ PlanStart(run[p].state) < run[p].to /\ holder' = holder
               /\ Takes(p, "send", run[p].dest, run[p].state, run[p].to)
            \/ Returned(p, run[p].state)
<1>1. /\ run[p].pc = "register" /\ holder = p /\ run[p].state \in PublishState /\ TypeOK
      /\ run[p].to \in 0 .. MaxLength /\ run[p].dest \in Stores \cup {NoStore}
      /\ "send" \in RunSteps
  BY TypedRuns DEF Register, Step, RunsOK, RunHasItsArguments, LockedSteps, RunRecord, RunSteps
<1>2. CASE PlanStart(run[p].state) < run[p].to
  <2>1. run' = [run EXCEPT ![p].pc = "send"] /\ holder' = holder
    BY <1>2 DEF Register, Goto
  <2>2. run' = [run EXCEPT ![p] = [@ EXCEPT !.pc = "send", !.dest = run[p].dest,
                                            !.state = run[p].state, !.to = run[p].to]]
    BY <1>1, <2>1, TypedRuns DEF Typed, RunRecord
  <2>3. Takes(p, "send", run[p].dest, run[p].state, run[p].to)
    BY <1>1, <2>1, <2>2, StepOf
  <2>4. QED
    BY <1>1, <1>2, <2>1, <2>3
<1>3. CASE ~(PlanStart(run[p].state) < run[p].to)
  <2>1. Return(p, run[p].state)
    BY <1>3 DEF Register
  <2>2. QED
    BY <1>1, <2>1, ReturnOf
<1>4. QED
  BY <1>2, <1>3

LEMMA SendOf ==
  ASSUME RunsOK, NEW p \in Publishers, Send(p)
  PROVE  /\ run[p].pc = "send" /\ run[p].dest \in Stores
         /\ \/ /\ Takes(p, "save", run[p].dest, run[p].state, run[p].to) /\ holder' = holder
               /\ remote' = [remote EXCEPT ![run[p].dest] = @ \cup {PlanStart(run[p].state)}]
            \/ Clears(p) /\ remote' = remote
<1>1. /\ run[p].pc = "send" /\ run[p].dest \in Stores /\ TypeOK
      /\ run[p].state \in PublishState /\ run[p].to \in 0 .. MaxLength /\ "save" \in RunSteps
  BY TypedRuns
     DEF Send, Step, RunsOK, RunHasItsArguments, Fits, LockedSteps, RunRecord, RunSteps
<1>2. CASE live[run[p].dest]
  <2>1. /\ run' = [run EXCEPT ![p].pc = "save"] /\ holder' = holder
        /\ remote' = [remote EXCEPT ![run[p].dest] = @ \cup {PlanStart(run[p].state)}]
    BY <1>2 DEF Send, Goto
  <2>2. run' = [run EXCEPT ![p] = [@ EXCEPT !.pc = "save", !.dest = run[p].dest,
                                            !.state = run[p].state, !.to = run[p].to]]
    BY <1>1, <2>1, TypedRuns DEF Typed, RunRecord
  <2>3. Takes(p, "save", run[p].dest, run[p].state, run[p].to)
    BY <1>1, <2>1, <2>2, StepOf
  <2>4. QED
    BY <1>1, <2>1, <2>3
<1>3. CASE ~live[run[p].dest]
  BY <1>1, <1>3, LeaveOf DEF Send
<1>4. QED
  BY <1>2, <1>3

LEMMA SaveOf ==
  ASSUME RunsOK, NEW p \in Publishers, Save(p)
  PROVE  \E state \in PublishState :
           /\ run[p].pc = "save" /\ PlanStart(run[p].state) < run[p].to
           /\ saved' = state /\ Published(state)
           /\ state.start = run[p].state.start
           /\ state.offset = PlanStart(run[p].state) + 1 /\ PlanStart(state) = state.offset
           /\ \/ /\ state.offset < run[p].to /\ holder' = holder
                 /\ Takes(p, "send", run[p].dest, state, run[p].to)
              \/ Returned(p, state)
<1> DEFINE state == Checkpoint(run[p].state)
<1>1. /\ run[p].pc = "save" /\ holder = p /\ run[p].state \in PublishState /\ TypeOK
      /\ PlanStart(run[p].state) < run[p].to /\ run[p].to \in 0 .. MaxLength
      /\ run[p].dest \in Stores \cup {NoStore} /\ "send" \in RunSteps
  BY TypedRuns
     DEF Save, Step, RunsOK, RunHasItsArguments, Fits, LockedSteps, RunRecord, RunSteps
<1>2. PlanStart(run[p].state) < MaxLength
  BY <1>1, StateType, LengthBound
<1>3. /\ state \in PublishState /\ Published(state) /\ PlanStart(state) = state.offset
      /\ state.start = run[p].state.start /\ state.offset = PlanStart(run[p].state) + 1
  BY <1>1, <1>2, CheckpointOf
<1>4. /\ saved' = state
      /\ IF state.offset < run[p].to
           THEN run' = [run EXCEPT ![p].state = state, ![p].pc = "send"] /\ holder' = holder
           ELSE Return(p, state)
  BY DEF Save
<1> HIDE DEF state
<1>5. CASE state.offset < run[p].to
  <2>1. run' = [run EXCEPT ![p].state = state, ![p].pc = "send"] /\ holder' = holder
    BY <1>4, <1>5
  <2>2. run' = [run EXCEPT ![p] = [@ EXCEPT !.pc = "send", !.dest = run[p].dest,
                                            !.state = state, !.to = run[p].to]]
    BY <1>1, <1>3, <2>1, TypedRuns DEF Typed, RunRecord
  <2>3. Takes(p, "send", run[p].dest, state, run[p].to)
    BY <1>1, <1>3, <2>1, <2>2, StepOf
  <2>4. QED
    BY <1>1, <1>3, <1>4, <1>5, <2>1, <2>3
<1>6. CASE ~(state.offset < run[p].to)
  <2>1. Returned(p, state)
    BY <1>1, <1>3, <1>4, <1>6, ReturnOf
  <2>2. QED
    BY <1>1, <1>3, <1>4, <2>1
<1>7. QED
  BY <1>5, <1>6

LEMMA EndOf ==
  ASSUME TypeOK, NEW p \in Publishers, GiveUp(p) \/ Enable(p) \/ RunDies(p)
  PROVE  Clears(p)
<1>1. CASE GiveUp(p)
  BY <1>1, LeaveOf DEF GiveUp
<1>2. CASE Enable(p)
  BY <1>2, LeaveOf DEF Enable
<1>3. CASE RunDies(p)
  <2>1. run' = [run EXCEPT ![p] = NoRun] /\ holder' \in IF holder = p THEN {NoOne, Dead} ELSE {holder}
    BY <1>3 DEF RunDies
  <2>2. Typed' /\ Others(p) /\ run'[p] = NoRun
    BY <2>1, TypedRuns, NoRunType DEF Typed, Others
  <2>3. Holders(p)
    BY <2>1 DEF Holders
  <2>4. Becomes(p, NoRun)
    BY <2>2, <2>3, NoRunType DEF Becomes
  <2>5. QED
    BY <2>4, NoRunClears
<1>4. QED
  BY <1>1, <1>2, <1>3

LEMMA BreakOf ==
  ASSUME TypeOK, NEW p \in Publishers, BreakLock(p)
  PROVE  run' = run /\ Typed' /\ \A q \in Publishers : holder # q
  BY TypedRuns, HolderNames DEF BreakLock, Typed

-----------------------------------------------------------------------------
(* The types, and what each step works on                                   *)

CommandHasItsArguments ==
    /\ cmd.pc = "ack" => cmd.dir \in Dirs
    /\ cmd.pc \in {"delete", "forget", "stop"} => cmd.dest \in Stores
    /\ cmd.pc = "on save" =>
         ~Published(cmd.state) /\ cmd.state.start <= cmd.size /\ cmd.size <= length

WithinTranscript ==
    /\ saved.start <= length /\ saved.offset <= length
    /\ \A p \in Publishers : run[p].state.start <= length /\ run[p].to <= length
    /\ \A s \in Stores : \A b \in remote[s] : b < length

Basics == TypeOK /\ RunHasItsArguments /\ CommandHasItsArguments /\ WithinTranscript

CommandRecord ==
    [pc : CmdSteps, state : PublishState, size : 0 .. MaxLength,
     dir : 0 .. Depth, dest : Stores \cup {NoStore}]

FilesTyped ==
    /\ length \in 0 .. MaxLength
    /\ tree \in Tree /\ acks \in [Dirs -> Ack]
    /\ machine \in Machines /\ marker \in Markers /\ saved \in PublishState

StoresTyped == remote \in [Stores -> SUBSET Bytes] /\ live \in [Stores -> BOOLEAN]

HistoryTyped ==
    /\ floor \in 0 .. MaxLength /\ gone \in Stores \cup {NoStore}
    /\ printed \in [Dirs -> SUBSET Config] /\ mishaps \subseteq Mishaps

LEMMA TypeParts ==
  TypeOK <=> FilesTyped /\ StoresTyped /\ Typed /\ cmd \in CommandRecord /\ HistoryTyped
  BY DEF TypeOK, FilesTyped, StoresTyped, HistoryTyped, CommandRecord, Typed, RunRecord

LEMMA TypePartsNext ==
  TypeOK' <=> FilesTyped' /\ StoresTyped' /\ Typed' /\ cmd' \in CommandRecord /\ HistoryTyped'
  BY DEF TypeOK, FilesTyped, StoresTyped, HistoryTyped, CommandRecord, Typed, RunRecord

LEMMA NoCmdType == NoCmd \in CommandRecord /\ NoCmd.pc = "idle"
  BY FreshState, LengthBound DEF NoCmd, CommandRecord, CmdSteps

LEMMA RunsKept ==
  ASSUME RunHasItsArguments, NEW p \in Publishers, NEW r \in RunRecord, Becomes(p, r), Fits(r),
         r.pc \in LockedSteps => holder' = p
  PROVE  RunHasItsArguments' /\ Typed'
<1>1. ASSUME NEW q \in Publishers
      PROVE  Fits(run'[q]) /\ (run'[q].pc \in LockedSteps => holder' = q)
  <2>1. CASE q = p
    BY <2>1 DEF Becomes
  <2>2. CASE q # p
    BY <2>2 DEF Becomes, Others, Holders, RunHasItsArguments
  <2>3. QED
    BY <2>1, <2>2
<1>2. QED
  BY <1>1 DEF RunHasItsArguments, Becomes

LEMMA ClearsKept ==
  ASSUME RunHasItsArguments, NEW p \in Publishers, Clears(p)
  PROVE  RunHasItsArguments' /\ Typed'
<1>1. PICK r \in RunRecord :
         Becomes(p, r) /\ r.pc \in {"idle", "decide"} /\ r.source = "default" /\ r.dest = NoStore
  BY DEF Clears
<1>2. Fits(r) /\ r.pc \notin LockedSteps
  BY <1>1 DEF Fits, LockedSteps
<1>3. QED
  BY <1>1, <1>2, RunsKept

LEMMA TakesKept ==
  ASSUME RunsOK, NEW p \in Publishers, NEW step, NEW dest \in Stores, NEW state, NEW to,
         Takes(p, step, dest, state, to), run[p].pc \notin {"idle", "decide"},
         step \in LockedSteps \cup {"lock", "enable"}, step \in LockedSteps => holder' = p,
         step = "reconcile" => ~Published(state),
         step \in {"send", "save"} => PlanStart(state) < to
  PROVE  RunHasItsArguments' /\ Typed'
<1>1. Fits(run[p]) /\ RunHasItsArguments
  BY DEF RunsOK, RunHasItsArguments
<1>2. PICK r \in RunRecord :
         /\ Becomes(p, r) /\ r.pc = step /\ r.dest = dest /\ r.state = state /\ r.to = to
         /\ r.source = run[p].source /\ r.dir = run[p].dir
  BY DEF Takes
<1>3. Fits(r) /\ (r.pc \in LockedSteps => holder' = p)
  BY <1>1, <1>2 DEF Fits, LockedSteps
<1>4. QED
  BY <1>1, <1>2, <1>3, RunsKept

LEMMA RunsStep ==
  ASSUME RunsOK, NEW p \in Publishers, Publish(p)
  PROVE  RunHasItsArguments' /\ Typed'
<1>1. run[p] \in RunRecord /\ Fits(run[p]) /\ TypeOK /\ RunHasItsArguments
      /\ (run[p].pc \in LockedSteps => holder = p)
  BY TypedRuns DEF RunsOK, RunHasItsArguments
<1>2. /\ run[p].pc \in LockedSteps => run[p].dest \in Stores /\ run[p].pc \notin {"idle", "decide"}
      /\ run[p].pc = "lock" => run[p].dest \in Stores /\ run[p].pc \notin {"idle", "decide"}
  BY <1>1 DEF Fits, LockedSteps
<1>3. CASE \E via \in {"publish", "sync", "enable"} : Start(p, via)
  BY <1>1, <1>3, StartOf, ClearsKept
<1>4. CASE Decide(p)
  <2>1. run[p].pc = "decide" /\ (Allowed(p) \/ Clears(p))
    BY <1>1, <1>4, DecideOf
  <2>2. CASE Allowed(p)
    <3>1. PICK r \in RunRecord : Becomes(p, r) /\ r.pc = "config" /\ r.dest = run[p].dest
                                 /\ (r.source = "repo" => r.dir \in Dirs)
      BY <2>2 DEF Allowed
    <3>2. Fits(r) /\ r.pc \notin LockedSteps
      BY <1>1, <2>1, <3>1 DEF Fits, LockedSteps
    <3>3. QED
      BY <1>1, <3>1, <3>2, RunsKept
  <2>3. QED
    BY <1>1, <2>1, <2>2, ClearsKept
<1>5. CASE Configure(p)
  <2>1. Takes(p, "lock", LoadConfig(machine, tree), run[p].state, run[p].to)
        /\ LoadConfig(machine, tree) \in Stores /\ run[p].pc \notin {"idle", "decide"}
    BY <1>1, <1>5, ConfigureOf
  <2>2. QED
    BY <2>1, TakesKept DEF LockedSteps
<1>6. CASE TakeLock(p)
  <2>1. run[p].dest \in Stores /\ run[p].pc \notin {"idle", "decide"} /\ holder' = p
    BY <1>2, <1>6 DEF TakeLock, Step
  <2>2. \/ Takes(p, "register", run[p].dest, saved, length)
        \/ ~Published(saved) /\ Takes(p, "reconcile", run[p].dest, saved, length)
    BY <1>1, <1>6, <2>1, TakeLockOf
  <2>3. QED
    BY <2>1, <2>2, TakesKept DEF LockedSteps
<1>7. CASE BreakLock(p)
  BY <1>1, <1>7, BreakOf DEF RunHasItsArguments
<1>8. CASE GiveUp(p) \/ Enable(p) \/ RunDies(p)
  BY <1>1, <1>8, EndOf, ClearsKept
<1>9. CASE Reconcile(p)
  <2>1. PICK state \in PublishState :
           /\ Takes(p, "register", run[p].dest, state, run[p].to)
           /\ run[p].pc = "reconcile" /\ holder' = holder
    BY <1>9, ReconcileOf
  <2>2. QED
    BY <1>1, <1>2, <2>1, TakesKept DEF LockedSteps
<1>10. ASSUME NEW state, Returned(p, state), run[p].pc \in LockedSteps
       PROVE  RunHasItsArguments' /\ Typed'
  <2>1. CASE Clears(p)
    BY <1>1, <2>1, ClearsKept
  <2>2. CASE Takes(p, "enable", run[p].dest, state, run[p].to)
    BY <1>2, <1>10, <2>2, TakesKept DEF LockedSteps
  <2>3. QED
    BY <1>10, <2>1, <2>2 DEF Returned
<1>11. CASE Register(p)
  <2>1. run[p].pc = "register" /\ run[p].pc \in LockedSteps
    BY <1>11, RegisterOf DEF LockedSteps
  <2>2. CASE /\ PlanStart(run[p].state) < run[p].to /\ holder' = holder
             /\ Takes(p, "send", run[p].dest, run[p].state, run[p].to)
    BY <1>1, <1>2, <2>1, <2>2, TakesKept DEF LockedSteps
  <2>3. QED
    BY <1>10, <1>11, <2>1, <2>2, RegisterOf
<1>12. CASE Send(p)
  <2>1. run[p].pc = "send" /\ run[p].pc \in LockedSteps
    BY <1>12, SendOf DEF LockedSteps
  <2>2. PlanStart(run[p].state) < run[p].to
    BY <1>1, <2>1 DEF Fits
  <2>3. CASE Takes(p, "save", run[p].dest, run[p].state, run[p].to) /\ holder' = holder
    BY <1>1, <1>2, <2>1, <2>2, <2>3, TakesKept DEF LockedSteps
  <2>4. QED
    BY <1>1, <1>12, <2>3, SendOf, ClearsKept
<1>13. CASE Save(p)
  <2>1. PICK state \in PublishState :
           /\ run[p].pc = "save" /\ PlanStart(state) = state.offset
           /\ \/ /\ state.offset < run[p].to /\ holder' = holder
                 /\ Takes(p, "send", run[p].dest, state, run[p].to)
              \/ Returned(p, state)
    BY <1>13, SaveOf
  <2>2. run[p].pc \in LockedSteps
    BY <2>1 DEF LockedSteps
  <2>3. CASE /\ state.offset < run[p].to /\ holder' = holder
             /\ Takes(p, "send", run[p].dest, state, run[p].to)
    BY <1>1, <1>2, <2>1, <2>2, <2>3, TakesKept DEF LockedSteps
  <2>4. QED
    BY <1>10, <2>1, <2>2, <2>3
<1>14. QED
  BY <1>3, <1>4, <1>5, <1>6, <1>7, <1>8, <1>9, <1>11, <1>12, <1>13 DEF Publish

(* The steps of a publish leave the commands alone, and the commands the     *)
(* runs.                                                                     *)
LEMMA PublishFrame ==
  ASSUME NEW p \in Publishers, Publish(p)
  PROVE  UNCHANGED <<length, tree, acks, machine, cmd, printed>>
  BY DEF Publish, Start, Decide, Configure, TakeLock, BreakLock, GiveUp, Reconcile, Register,
         Send, Save, Enable, RunDies, files, stores, procs, history

LEMMA CommandFrame ==
  ASSUME Command
  PROVE  UNCHANGED <<length, tree, machine, run, holder>>
  BY DEF Command, ShareOn, Watermark, SaveWatermark, ShareOff, PrintPolicy, Acknowledge,
         Unpublish, DeleteSession, Forget, Stop, CommandDies, Aside

LEMMA EditFrame ==
  ASSUME NEW d \in Dirs, NEW config \in Configs, Edit(d, config)
  PROVE  /\ UNCHANGED <<length, acks, machine, marker, saved, remote, live, run, holder, cmd,
                        floor, gone, printed>>
         /\ tree' = [tree EXCEPT ![d] = config]
  BY DEF Edit, stores, procs

(* Which steps write the marker, the state file, the stores and the floor.   *)
LEMMA PublishWrites ==
  ASSUME NEW p \in Publishers, Publish(p)
  PROVE  /\ marker' = marker \/ Enable(p)
         /\ saved' = saved \/ Save(p)
         /\ remote' = remote \/ Send(p)
         /\ live' = live \/ Register(p)
         /\ (floor' = floor /\ gone' = gone) \/ Decide(p)
         /\ mishaps' = mishaps \/ Configure(p) \/ TakeLock(p) \/ RunDies(p)
  BY DEF Publish, Start, Decide, Configure, TakeLock, BreakLock, GiveUp, Reconcile, Register,
         Send, Save, Enable, RunDies, files, stores, procs, history

LEMMA MishapsGrow ==
  ASSUME mishaps \subseteq Mishaps, [Next]_vars
  PROVE  mishaps' \subseteq Mishaps /\ mishaps \subseteq mishaps'
<1>1. ASSUME NEW p \in Publishers, Publish(p)
      PROVE  mishaps' \subseteq Mishaps /\ mishaps \subseteq mishaps'
  BY <1>1 DEF Publish, Start, Decide, Configure, TakeLock, BreakLock, GiveUp, Reconcile, Register,
         Send, Save, Enable, RunDies, history, Suffers, If, Mishaps
<1>2. CASE Command
  BY <1>2 DEF Command, ShareOn, Watermark, SaveWatermark, ShareOff, PrintPolicy, Acknowledge,
         Unpublish, DeleteSession, Forget, Stop, CommandDies, history, Suffers, If, Mishaps
<1>3. CASE Grow
  BY <1>3 DEF Grow, history
<1>4. ASSUME NEW d \in Dirs, NEW config \in Configs, Edit(d, config)
      PROVE  mishaps' \subseteq Mishaps /\ mishaps \subseteq mishaps'
  BY <1>4 DEF Edit, Suffers, If, Mishaps
<1>5. CASE UNCHANGED vars
  BY <1>5 DEF vars, history
<1>6. QED
  BY <1>1, <1>2, <1>3, <1>4, <1>5 DEF Next

LEMMA PublishTypes ==
  ASSUME Basics, NEW p \in Publishers, Publish(p), mishaps' \subseteq Mishaps
  PROVE  Basics'
<1>1. /\ FilesTyped /\ StoresTyped /\ Typed /\ cmd \in CommandRecord /\ HistoryTyped
      /\ RunsOK /\ TypeOK
  BY TypeParts DEF Basics, RunsOK
<1>2. UNCHANGED <<length, tree, acks, machine, cmd, printed>>
  BY PublishFrame
<1>3. RunHasItsArguments' /\ Typed'
  BY <1>1, RunsStep
<1>4. marker' \in Markers
  <2>1. CASE Enable(p)
    BY <1>1, <2>1 DEF Enable, FilesTyped, Markers
  <2>2. QED
    BY <1>1, <2>1, PublishWrites DEF FilesTyped
<1>5. saved' \in PublishState /\ saved'.start <= length /\ saved'.offset <= length
  <2>1. CASE Save(p)
    <3>1. PICK state \in PublishState :
          /\ PlanStart(run[p].state) < run[p].to /\ saved' = state
          /\ state.start = run[p].state.start /\ state.offset = PlanStart(run[p].state) + 1
      BY <1>1, <2>1, SaveOf
    <3>2. run[p].state \in PublishState /\ run[p].to \in Int /\ length \in Int
      BY <1>1, TypedRuns, LengthBound DEF RunRecord, FilesTyped
    <3>3. run[p].state.start <= length /\ run[p].to <= length
      BY DEF Basics, WithinTranscript
    <3>4. QED
      BY <3>1, <3>2, <3>3, StateType
  <2>2. QED
    BY <1>1, <2>1, PublishWrites DEF FilesTyped, Basics, WithinTranscript
<1>6. /\ remote' \in [Stores -> SUBSET Bytes]
      /\ \A s \in Stores : \A b \in remote'[s] : b < length
  <2>1. CASE Send(p)
    <3>1. CASE remote' = [remote EXCEPT ![run[p].dest] = @ \cup {PlanStart(run[p].state)}]
      <4>1. run[p].pc = "send" /\ run[p].state \in PublishState /\ run[p].to \in 0 .. MaxLength
        BY <1>1, <2>1, SendOf, TypedRuns DEF RunRecord
      <4>2. PlanStart(run[p].state) < run[p].to /\ run[p].to <= length
        BY <4>1 DEF Basics, RunHasItsArguments, Fits, WithinTranscript
      <4>3. PlanStart(run[p].state) \in Bytes /\ PlanStart(run[p].state) < length
        BY <1>1, <4>1, <4>2, StateType, LengthBound DEF Bytes, FilesTyped
      <4>4. QED
        BY <1>1, <3>1, <4>3 DEF StoresTyped, Basics, WithinTranscript
    <3>2. CASE remote' = remote
      BY <1>1, <3>2 DEF StoresTyped, Basics, WithinTranscript
    <3>3. QED
      BY <1>1, <2>1, <3>1, <3>2, SendOf
  <2>2. QED
    BY <1>1, <2>1, PublishWrites DEF StoresTyped, Basics, WithinTranscript
<1>7. live' \in [Stores -> BOOLEAN]
  <2>1. CASE Register(p)
    BY <1>1, <2>1 DEF Register, StoresTyped
  <2>2. QED
    BY <1>1, <2>1, PublishWrites DEF StoresTyped
<1>8. floor' \in 0 .. MaxLength /\ gone' \in Stores \cup {NoStore}
  <2>1. CASE Decide(p)
    BY <1>1, <2>1, LengthBound, DecideOf DEF Allowed, HistoryTyped
  <2>2. QED
    BY <1>1, <2>1, PublishWrites DEF HistoryTyped
<1>9. \A q \in Publishers : run'[q].state.start <= length /\ run'[q].to <= length
  <2>1. \A q \in Publishers : run[q].state.start <= length /\ run[q].to <= length
    BY DEF Basics, WithinTranscript
  <2>2. length \in Nat
    BY <1>1, LengthBound DEF FilesTyped
  <2>3. ASSUME NEW r, Becomes(p, r), r.state.start <= length, r.to <= length
        PROVE  \A q \in Publishers : run'[q].state.start <= length /\ run'[q].to <= length
    BY <2>1, <2>3 DEF Becomes, Others
  <2>4. Clears(p) => \E r : Becomes(p, r) /\ r.state.start <= length /\ r.to <= length
    BY <2>2, FreshState DEF Clears
  <2>5. ASSUME NEW step, NEW dest, NEW state, NEW to, Takes(p, step, dest, state, to),
               state.start <= length, to <= length
        PROVE  \E r : Becomes(p, r) /\ r.state.start <= length /\ r.to <= length
    BY <2>5 DEF Takes
  <2>6. ASSUME NEW state, Returned(p, state), state.start <= length
        PROVE  \E r : Becomes(p, r) /\ r.state.start <= length /\ r.to <= length
    BY <2>1, <2>4, <2>5, <2>6 DEF Returned
  <2>7. CASE \E via \in {"publish", "sync", "enable"} : Start(p, via)
    BY <1>1, <2>3, <2>4, <2>7, StartOf
  <2>8. CASE Decide(p)
    BY <1>1, <2>1, <2>3, <2>4, <2>8, DecideOf DEF Allowed
  <2>9. CASE Configure(p)
    BY <1>1, <2>1, <2>3, <2>5, <2>9, ConfigureOf
  <2>10. CASE TakeLock(p)
    <3>1. run[p].dest \in Stores
      BY <1>1, <2>10 DEF TakeLock, Step, RunsOK, RunHasItsArguments, Fits
    <3>2. saved.start <= length /\ length <= length
      BY <2>2 DEF Basics, WithinTranscript
    <3>3. \E r : Becomes(p, r) /\ r.state.start <= length /\ r.to <= length
      BY <1>1, <2>5, <2>10, <3>1, <3>2, TakeLockOf
    <3>4. QED
      BY <2>3, <3>3
  <2>11. CASE BreakLock(p)
    BY <1>1, <2>1, <2>11, BreakOf
  <2>12. CASE GiveUp(p) \/ Enable(p) \/ RunDies(p)
    BY <1>1, <2>3, <2>4, <2>12, EndOf
  <2>13. CASE Reconcile(p)
    <3>1. PICK state \in PublishState :
            /\ Takes(p, "register", run[p].dest, state, run[p].to) /\ run[p].dest \in Stores
            /\ state = run[p].state \/ state.start \in remote[run[p].dest]
      BY <1>1, <2>13, ReconcileOf
    <3>2. CASE state = run[p].state
      BY <2>1, <2>3, <2>5, <3>1, <3>2
    <3>3. CASE state.start \in remote[run[p].dest]
      <4>1. state.start < length /\ state.start \in Int
        BY <3>1, <3>3, StateType DEF Basics, WithinTranscript
      <4>2. state.start <= length
        BY <2>2, <4>1
      <4>3. QED
        BY <2>1, <2>3, <2>5, <3>1, <4>2
    <3>4. QED
      BY <3>1, <3>2, <3>3
  <2>14. CASE Register(p)
    <3>1. \E r : Becomes(p, r) /\ r.state.start <= length /\ r.to <= length
      BY <1>1, <2>1, <2>5, <2>6, <2>14, RegisterOf
    <3>2. QED
      BY <2>3, <3>1
  <2>15. CASE Send(p)
    <3>1. \E r : Becomes(p, r) /\ r.state.start <= length /\ r.to <= length
      BY <1>1, <2>1, <2>4, <2>5, <2>15, SendOf
    <3>2. QED
      BY <2>3, <3>1
  <2>16. CASE Save(p)
    <3>1. PICK state \in PublishState :
            /\ state.start = run[p].state.start
            /\ Takes(p, "send", run[p].dest, state, run[p].to) \/ Returned(p, state)
      BY <1>1, <2>16, SaveOf
    <3>2. \E r : Becomes(p, r) /\ r.state.start <= length /\ r.to <= length
      BY <2>1, <2>5, <2>6, <3>1
    <3>3. QED
      BY <2>3, <3>2
  <2>17. QED
    BY <2>7, <2>8, <2>9, <2>10, <2>11, <2>12, <2>13, <2>14, <2>15, <2>16 DEF Publish
<1>10. WithinTranscript'
  BY <1>2, <1>5, <1>6, <1>9 DEF WithinTranscript
<1>11. CommandHasItsArguments'
  BY <1>2 DEF CommandHasItsArguments, Basics
<1>12. FilesTyped' /\ StoresTyped' /\ cmd' \in CommandRecord /\ HistoryTyped'
  BY <1>1, <1>2, <1>4, <1>5, <1>6, <1>7, <1>8 DEF FilesTyped, StoresTyped, HistoryTyped
<1>13. QED
  BY <1>3, <1>10, <1>11, <1>12, TypePartsNext DEF Basics

LEMMA CommandTypes ==
  ASSUME Basics, Command, mishaps' \subseteq Mishaps
  PROVE  Basics'
<1>1. /\ FilesTyped /\ StoresTyped /\ Typed /\ cmd \in CommandRecord /\ HistoryTyped
      /\ TypeOK /\ RunHasItsArguments /\ CommandHasItsArguments /\ WithinTranscript
  BY TypeParts DEF Basics
<1>2. UNCHANGED <<length, tree, machine, run, holder>>
  BY CommandFrame
<1>3. RunHasItsArguments' /\ Typed'
  BY <1>1, <1>2 DEF RunHasItsArguments, Typed
<1>4. length \in Int /\ length \in 0 .. MaxLength /\ MaxLength \in Nat
      /\ saved \in PublishState
  BY <1>1, LengthBound DEF FilesTyped
<1>5. \A p \in Publishers : run'[p].state.start <= length' /\ run'[p].to <= length'
  BY <1>1, <1>2 DEF WithinTranscript
<1> DEFINE FilesKept == marker' \in Markers /\ acks' \in [Dirs -> Ack]
                        /\ saved' \in PublishState /\ saved'.start <= length /\ saved'.offset <= length
           StoresKept == /\ StoresTyped' /\ \A s \in Stores : remote'[s] \subseteq remote[s]
           HistoryKept == /\ floor' \in 0 .. MaxLength /\ gone' \in Stores \cup {NoStore}
                          /\ printed' \in [Dirs -> SUBSET Config]
           CommandKept == cmd' \in CommandRecord /\ CommandHasItsArguments'
<1>6. SUFFICES FilesKept /\ StoresKept /\ HistoryKept /\ CommandKept
  <2>1. ASSUME FilesKept, StoresKept, HistoryKept, CommandKept
        PROVE  Basics'
    <3>1. FilesTyped' /\ HistoryTyped'
      BY <1>1, <1>2, <2>1 DEF FilesTyped, HistoryTyped
    <3>2. WithinTranscript'
      BY <1>1, <1>2, <1>5, <2>1 DEF WithinTranscript
    <3>3. TypeOK'
      BY <1>3, <2>1, <3>1, TypePartsNext
    <3>4. QED
      BY <1>3, <2>1, <3>2, <3>3 DEF Basics
  <2>2. QED
    BY <2>1
<1>7. marker' = marker /\ acks' = acks /\ saved' = saved => FilesKept
  BY <1>1 DEF FilesTyped, WithinTranscript
<1>8. UNCHANGED stores => StoresKept
  BY <1>1 DEF stores, StoresTyped
<1>9. UNCHANGED <<floor, gone, printed>> => HistoryKept
  BY <1>1 DEF HistoryTyped
<1>10. cmd' = NoCmd => CommandKept
  BY NoCmdType DEF CommandHasItsArguments
<1>11. /\ UNCHANGED cmd => CommandKept
       /\ cmd'.pc = "idle" /\ cmd' \in CommandRecord => CommandKept
  BY <1>1, <1>2 DEF CommandHasItsArguments
<1>12. CASE ShareOn
  <2>1. UNCHANGED stores /\ acks' = acks /\ saved' = saved /\ marker' = "on"
        /\ printed' = printed /\ gone' = NoStore /\ cmd' = [cmd EXCEPT !.pc = "on read"]
    BY <1>12 DEF ShareOn, Then
  <2>2. FilesKept
    BY <1>1, <2>1 DEF FilesTyped, WithinTranscript, Markers
  <2>3. floor' \in 0 .. MaxLength
    BY <1>1, <1>4, <1>12 DEF ShareOn, PublishState, HistoryTyped
  <2>4. HistoryKept
    BY <1>1, <2>1, <2>3 DEF HistoryTyped
  <2>5. CommandKept
    BY <1>1, <2>1 DEF CommandRecord, CmdSteps, CommandHasItsArguments
  <2>6. QED
    BY <1>8, <2>1, <2>2, <2>4, <2>5
<1>13. CASE Watermark
  <2>1. UNCHANGED <<acks, marker, saved, stores, floor, gone, printed>>
    BY <1>13 DEF Watermark, history
  <2>2. CommandKept
    <3>1. CASE Published(saved)
      BY <1>10, <1>13, <3>1 DEF Watermark, Done
    <3>2. CASE ~Published(saved)
      <4>1. cmd' = [cmd EXCEPT !.pc = "on save", !.state = saved, !.size = length]
        BY <1>13, <3>2 DEF Watermark
      <4>2. cmd' \in CommandRecord /\ cmd'.pc = "on save" /\ cmd'.state = saved /\ cmd'.size = length
        BY <1>1, <1>4, <4>1 DEF CommandRecord, CmdSteps
      <4>3. ~Published(cmd'.state) /\ cmd'.state.start <= cmd'.size /\ cmd'.size <= length'
        <5>1. saved.start <= length
          BY <1>1 DEF WithinTranscript
        <5>2. length <= length
          BY <1>4
        <5>3. length' = length
          BY <1>2
        <5>4. QED
          BY <3>2, <4>2, <5>1, <5>2, <5>3
      <4>4. CommandHasItsArguments'
        BY <4>2, <4>3 DEF CommandHasItsArguments
      <4>5. QED
        BY <4>2, <4>4
    <3>3. QED
      BY <3>1, <3>2
  <2>3. QED
    BY <1>7, <1>8, <1>9, <2>1, <2>2
<1>14. CASE SaveWatermark
  <2>1. /\ cmd.pc = "on save" /\ saved' = [cmd.state EXCEPT !.start = cmd.size]
        /\ UNCHANGED <<acks, marker, stores, floor, gone, printed>> /\ cmd' = NoCmd
    BY <1>14 DEF SaveWatermark, Done
  <2>2. /\ ~Published(cmd.state) /\ cmd.state.start <= cmd.size /\ cmd.size <= length
        /\ cmd.state \in PublishState /\ cmd.size \in 0 .. MaxLength
    BY <1>1, <2>1 DEF CommandHasItsArguments, CommandRecord
  <2>3. /\ saved' \in PublishState /\ saved'.start = cmd.size /\ saved'.offset = cmd.state.offset
        /\ cmd.state.offset <= cmd.state.start
    <3>1. saved' = [start |-> cmd.size, offset |-> cmd.state.offset]
      BY <2>1, <2>2 DEF PublishState
    <3>2. cmd.state.offset \in 0 .. MaxLength /\ cmd.state.offset <= cmd.state.start
      BY <2>2, StateType DEF Published
    <3>3. QED
      BY <2>2, <3>1, <3>2 DEF PublishState
  <2>4. cmd.state.offset <= length
    BY <1>4, <2>2, <2>3, StateType
  <2>5. FilesKept
    BY <1>1, <2>1, <2>2, <2>3, <2>4 DEF FilesTyped
  <2>6. QED
    BY <1>8, <1>9, <1>10, <2>1, <2>5
<1>15. CASE ShareOff
  <2>1. /\ marker' \in {"off", "unset"} /\ floor' = Nothing /\ gone' \in {gone, NoStore}
        /\ UNCHANGED <<acks, saved, stores, cmd, printed>>
    BY <1>15 DEF ShareOff
  <2>2. FilesKept
    BY <1>1, <2>1 DEF FilesTyped, WithinTranscript, Markers
  <2>3. HistoryKept
    BY <1>1, <1>4, <2>1 DEF HistoryTyped, Nothing
  <2>4. QED
    BY <1>8, <1>11, <2>1, <2>2, <2>3
<1>16. CASE PrintPolicy
  <2>1. /\ printed' = [printed EXCEPT ![Governing] = @ \cup {tree[Governing]}]
        /\ cmd' = [NoCmd EXCEPT !.pc = "ack", !.dir = Governing]
        /\ EffectiveMode(tree) = "always"
        /\ UNCHANGED <<acks, marker, saved, stores, floor, gone>>
    BY <1>16 DEF PrintPolicy
  <2>2. Governing \in Dirs
    <3>1. tree \in Tree
      BY <1>1 DEF FilesTyped
    <3>2. MostRestrictive(tree) # {}
      BY <2>1, <3>1, EffectiveModeOf
    <3>3. QED
      BY <3>1, <3>2, GoverningOf, LengthBound DEF Dirs
  <2>3. tree[Governing] \in Config
    BY <1>1, <2>2 DEF FilesTyped, Tree
  <2>4. HistoryKept
    BY <1>1, <2>1, <2>2, <2>3 DEF HistoryTyped
  <2>5. cmd' \in CommandRecord /\ cmd'.pc = "ack" /\ cmd'.dir = Governing
    <3>1. Governing \in 0 .. Depth
      BY <2>2, LengthBound DEF Dirs
    <3> DEFINE dir == Governing
    <3> HIDE DEF dir
    <3>2. cmd' = [NoCmd EXCEPT !.pc = "ack", !.dir = dir] /\ dir \in 0 .. Depth
      BY <2>1, <3>1 DEF dir
    <3>3. cmd' \in CommandRecord /\ cmd'.pc = "ack" /\ cmd'.dir = dir
      BY <3>2, NoCmdType DEF CommandRecord, CmdSteps
    <3>4. QED
      BY <3>3 DEF dir
  <2>6. CommandKept
    BY <2>2, <2>5 DEF CommandHasItsArguments
  <2>7. QED
    BY <1>7, <1>8, <2>1, <2>4, <2>6
<1>17. CASE Acknowledge
  <2>1. /\ cmd.pc = "ack" /\ cmd' = NoCmd
        /\ acks' \in {acks, [acks EXCEPT ![cmd.dir] = tree[cmd.dir]]}
        /\ UNCHANGED <<marker, saved, stores, floor, gone, printed>>
    BY <1>17 DEF Acknowledge, Done
  <2>2. cmd.dir \in Dirs /\ tree[cmd.dir] \in Ack
    BY <1>1, <2>1 DEF CommandHasItsArguments, FilesTyped, Tree, Ack
  <2>3. FilesKept
    BY <1>1, <2>1, <2>2 DEF FilesTyped, WithinTranscript
  <2>4. QED
    BY <1>8, <1>9, <1>10, <2>1, <2>3
<1>18. CASE Unpublish
  <2>1. /\ cmd' = [NoCmd EXCEPT !.pc = "delete", !.dest = LoadConfig(machine, tree)]
        /\ UNCHANGED <<acks, marker, saved, stores, floor, gone, printed>>
    BY <1>18 DEF Unpublish
  <2>2. LoadConfig(machine, tree) \in Stores
    BY <1>1, Destination DEF FilesTyped
  <2> DEFINE dest == LoadConfig(machine, tree)
  <2> HIDE DEF dest
  <2>3. cmd' = [NoCmd EXCEPT !.pc = "delete", !.dest = dest] /\ dest \in Stores
    BY <2>1, <2>2 DEF dest
  <2>4. cmd' \in CommandRecord /\ cmd'.pc = "delete" /\ cmd'.dest = dest
    BY <2>3, NoCmdType DEF CommandRecord, CmdSteps
  <2>5. CommandKept
    BY <2>3, <2>4 DEF CommandHasItsArguments
  <2>6. QED
    BY <1>7, <1>8, <1>9, <2>1, <2>5
<1>19. CASE DeleteSession
  <2>1. /\ cmd.pc = "delete" /\ cmd' = [cmd EXCEPT !.pc = "forget"]
        /\ remote' = [remote EXCEPT ![cmd.dest] = {}]
        /\ live' = [live EXCEPT ![cmd.dest] = FALSE]
        /\ UNCHANGED <<acks, marker, saved, floor, gone, printed>>
    BY <1>19 DEF DeleteSession, Then
  <2>2. cmd.dest \in Stores
    BY <1>1, <2>1 DEF CommandHasItsArguments
  <2>3. StoresKept
    BY <1>1, <2>1, <2>2 DEF StoresTyped
  <2>4. cmd' \in CommandRecord /\ cmd'.pc = "forget" /\ cmd'.dest = cmd.dest
    BY <1>1, <2>1 DEF CommandRecord, CmdSteps
  <2>5. CommandKept
    BY <2>2, <2>4 DEF CommandHasItsArguments
  <2>6. QED
    BY <1>7, <1>9, <2>1, <2>3, <2>5
<1>20. CASE Forget
  <2>1. /\ cmd.pc = "forget" /\ cmd' = [cmd EXCEPT !.pc = "stop"] /\ saved' = Fresh
        /\ UNCHANGED <<acks, marker, stores, floor, gone, printed>>
    BY <1>20 DEF Forget, Then, history
  <2>2. FilesKept
    BY <1>1, <1>4, <2>1, FreshState DEF FilesTyped
  <2>3. cmd' \in CommandRecord /\ cmd'.pc = "stop" /\ cmd'.dest = cmd.dest
    BY <1>1, <2>1 DEF CommandRecord, CmdSteps
  <2>4. CommandKept
    BY <1>1, <2>1, <2>3 DEF CommandHasItsArguments
  <2>5. QED
    BY <1>8, <1>9, <2>1, <2>2, <2>4
<1>21. CASE Stop
  <2>1. /\ cmd.pc = "stop" /\ cmd' = NoCmd /\ marker' = "off"
        /\ floor' = Nothing /\ gone' = cmd.dest
        /\ UNCHANGED <<acks, saved, stores, printed>>
    BY <1>21 DEF Stop, Done
  <2>2. FilesKept
    BY <1>1, <2>1 DEF FilesTyped, WithinTranscript, Markers
  <2>3. HistoryKept
    BY <1>1, <1>4, <2>1 DEF HistoryTyped, Nothing, CommandHasItsArguments
  <2>4. QED
    BY <1>8, <1>10, <2>1, <2>2, <2>3
<1>22. CASE CommandDies
  <2>1. cmd' = NoCmd /\ UNCHANGED <<acks, marker, saved, stores, floor, gone, printed>>
    BY <1>22 DEF CommandDies, Done
  <2>2. QED
    BY <1>7, <1>8, <1>9, <1>10, <2>1
<1> HIDE DEF FilesKept, StoresKept, HistoryKept, CommandKept
<1>23. QED
  BY <1>12, <1>13, <1>14, <1>15, <1>16, <1>17, <1>18, <1>19, <1>20, <1>21, <1>22 DEF Command

LEMMA BasicsInit == Init => Basics
<1> SUFFICES ASSUME Init PROVE Basics
  OBVIOUS
<1>1. FilesTyped
  BY FreshState, LengthBound, ConsentConstants DEF Init, FilesTyped, Ack, Markers
<1>2. StoresTyped /\ Typed /\ cmd \in CommandRecord
  BY NoRunType, NoCmdType DEF Init, StoresTyped, Typed
<1>3. HistoryTyped
  BY LengthBound DEF Init, HistoryTyped, Nothing
<1>4. RunHasItsArguments
  <2>1. \A p \in Publishers : run[p] = NoRun
    BY DEF Init
  <2>2. NoRun.pc = "idle" /\ NoRun.source = "default" /\ NoRun.dest = NoStore
    BY DEF NoRun
  <2>3. Fits(NoRun)
    BY <2>2 DEF Fits, LockedSteps
  <2>4. QED
    BY <2>1, <2>2, <2>3 DEF RunHasItsArguments, LockedSteps
<1>5. CommandHasItsArguments
  BY NoCmdType DEF Init, CommandHasItsArguments
<1>6. WithinTranscript
  BY NoRunType, FreshState DEF Init, WithinTranscript
<1>7. QED
  BY <1>1, <1>2, <1>3, <1>4, <1>5, <1>6, TypeParts DEF Basics

LEMMA BasicsStep == Basics /\ [Next]_vars => Basics'
<1> SUFFICES ASSUME Basics, [Next]_vars
             PROVE  Basics'
  OBVIOUS
<1>1. mishaps' \subseteq Mishaps
  BY MishapsGrow DEF Basics, TypeOK
<1>2. /\ FilesTyped /\ StoresTyped /\ Typed /\ cmd \in CommandRecord /\ HistoryTyped
      /\ TypeOK /\ RunHasItsArguments /\ CommandHasItsArguments /\ WithinTranscript
  BY TypeParts DEF Basics
<1>3. ASSUME NEW p \in Publishers, Publish(p)
      PROVE  Basics'
  BY <1>1, <1>3, PublishTypes
<1>4. CASE Command
  BY <1>1, <1>4, CommandTypes
<1>5. CASE Grow
  <2>1. /\ UNCHANGED <<tree, acks, machine, marker, saved, remote, live, run, holder, cmd,
                       floor, gone, printed, mishaps>>
        /\ length' = length + 1 /\ length < MaxLength /\ length \in 0 .. MaxLength
    BY <1>2, <1>5 DEF Grow, files, stores, procs, history, FilesTyped
  <2>2. FilesTyped' /\ StoresTyped' /\ Typed' /\ cmd' \in CommandRecord /\ HistoryTyped'
    BY <1>2, <2>1, LengthBound DEF FilesTyped, StoresTyped, Typed, HistoryTyped
  <2>3. RunHasItsArguments'
    BY <1>2, <2>1 DEF RunHasItsArguments
  <2>4. CommandHasItsArguments'
    <3>1. cmd.size \in Int /\ length \in Int
      BY <1>2, <2>1, LengthBound DEF CommandRecord
    <3>2. cmd.size <= length => cmd.size <= length'
      BY <2>1, <3>1
    <3>3. QED
      BY <1>2, <2>1, <3>2 DEF CommandHasItsArguments
  <2>5. WithinTranscript'
    <3>1. saved.start <= length' /\ saved.offset <= length'
      BY <1>2, <2>1, StateType, LengthBound DEF WithinTranscript, FilesTyped
    <3>2. \A p \in Publishers : run[p].state.start <= length' /\ run[p].to <= length'
      <4>1. \A p \in Publishers : run[p].state.start \in Int /\ run[p].to \in Int
        BY <1>2, TypedRuns, StateType, LengthBound DEF RunRecord
      <4>2. QED
        BY <1>2, <2>1, <4>1, LengthBound DEF WithinTranscript
    <3>3. \A s \in Stores : \A b \in remote[s] : b < length'
      <4>1. \A s \in Stores : \A b \in remote[s] : b \in Int
        BY <1>2, LengthBound DEF StoresTyped, Bytes
      <4>2. QED
        BY <1>2, <2>1, <4>1, LengthBound DEF WithinTranscript
    <3>4. QED
      BY <2>1, <3>1, <3>2, <3>3 DEF WithinTranscript
  <2>6. QED
    BY <2>2, <2>3, <2>4, <2>5, TypePartsNext DEF Basics
<1>6. ASSUME NEW d \in Dirs, NEW config \in Configs, Edit(d, config)
      PROVE  Basics'
  <2>1. /\ UNCHANGED <<length, acks, machine, marker, saved, remote, live, run, holder, cmd,
                       floor, gone, printed>>
        /\ tree' = [tree EXCEPT ![d] = config]
    BY <1>6, EditFrame
  <2>2. tree' \in Tree
    BY <1>2, <2>1, ConsentConstants DEF FilesTyped, Tree
  <2>3. FilesTyped' /\ StoresTyped' /\ Typed' /\ cmd' \in CommandRecord /\ HistoryTyped'
    BY <1>1, <1>2, <2>1, <2>2 DEF FilesTyped, StoresTyped, Typed, HistoryTyped
  <2>4. RunHasItsArguments' /\ CommandHasItsArguments' /\ WithinTranscript'
    BY <1>2, <2>1 DEF RunHasItsArguments, CommandHasItsArguments, WithinTranscript
  <2>5. QED
    BY <2>3, <2>4, TypePartsNext DEF Basics
<1>7. CASE UNCHANGED vars
  <2>1. UNCHANGED <<length, tree, acks, machine, marker, saved, remote, live, run, holder, cmd,
                    floor, gone, printed, mishaps>>
    BY <1>7 DEF vars, files, stores, procs, history
  <2>2. FilesTyped' /\ StoresTyped' /\ Typed' /\ cmd' \in CommandRecord /\ HistoryTyped'
    BY <1>2, <2>1 DEF FilesTyped, StoresTyped, Typed, HistoryTyped
  <2>3. RunHasItsArguments' /\ CommandHasItsArguments' /\ WithinTranscript'
    BY <1>2, <2>1 DEF RunHasItsArguments, CommandHasItsArguments, WithinTranscript
  <2>4. QED
    BY <2>2, <2>3, TypePartsNext DEF Basics
<1>8. QED
  BY <1>3, <1>4, <1>5, <1>6, <1>7 DEF Next

LEMMA BasicsAlways == Spec => []Basics
<1>1. QED
  BY BasicsInit, BasicsStep, PTL DEF Spec

(* Every variable keeps its type.                                            *)
THEOREM TypeCorrect == Spec => []TypeOK
<1>1. Basics => TypeOK
  BY DEF Basics
<1>2. QED
  BY <1>1, BasicsAlways, PTL

(* Sharing is decided by all directories together: no policy further in can  *)
(* widen what one further out allows.                                        *)
THEOREM UnanimityAlways == Spec => []ResolveIsUnanimous
<1>1. TypeOK => ResolveIsUnanimous
  BY TypeGivesUnanimity
<1>2. QED
  BY <1>1, TypeCorrect, PTL

-----------------------------------------------------------------------------
(* What the steps do to the runs and the files, in short                    *)

LEMMA UnderWayOf ==
  ASSUME Typed
  PROVE  UnderWay <=> \E p \in Publishers : run[p].pc \in UnderWaySteps
<1>1. \A p \in Publishers : run[p].pc \in RunSteps
  BY DEF Typed, RunRecord
<1>2. QED
  BY <1>1 DEF UnderWay, UnderWaySteps, RunSteps

(* Which commands write what.                                                *)
LEMMA CommandWrites ==
  ASSUME Command
  PROVE  /\ (marker' = marker /\ floor' = floor /\ gone' = gone) \/ ShareOn \/ ShareOff \/ Stop
         /\ saved' = saved \/ SaveWatermark \/ Forget
         /\ remote' = remote \/ DeleteSession
         /\ (acks' = acks /\ printed' = printed) \/ PrintPolicy \/ Acknowledge
  BY DEF Command, ShareOn, Watermark, SaveWatermark, ShareOff, PrintPolicy, Acknowledge,
         Unpublish, DeleteSession, Forget, Stop, CommandDies, stores, history

(* What neither publishes nor commands do.                                   *)
LEMMA EnvironmentKeeps ==
  ASSUME Grow \/ UNCHANGED vars \/ \E d \in Dirs, config \in Configs : Edit(d, config)
  PROVE  UNCHANGED <<acks, machine, marker, saved, remote, live, run, holder, cmd,
                     floor, gone, printed>>
<1>1. CASE Grow
  BY <1>1 DEF Grow, files, stores, procs, history
<1>2. CASE UNCHANGED vars
  BY <1>2 DEF vars, files, stores, procs, history
<1>3. CASE \E d \in Dirs, config \in Configs : Edit(d, config)
  BY <1>3, EditFrame
<1>4. QED
  BY <1>1, <1>2, <1>3

(* Where a command goes on.                                                  *)
LEMMA CommandMoves ==
  ASSUME cmd \in CommandRecord, Command
  PROVE  \/ cmd'.pc = "idle" \/ cmd' = cmd
         \/ ShareOn /\ cmd.pc = "idle" /\ cmd'.pc = "on read"
         \/ /\ Watermark /\ cmd.pc = "on read" /\ cmd'.pc = "on save"
            /\ ~Published(saved) /\ cmd'.state = saved /\ cmd'.size = length
         \/ PrintPolicy /\ cmd.pc = "idle" /\ cmd'.pc = "ack"
         \/ Unpublish /\ cmd.pc = "idle" /\ cmd'.pc = "delete"
         \/ DeleteSession /\ cmd.pc = "delete" /\ cmd'.pc = "forget"
         \/ Forget /\ cmd.pc = "forget" /\ cmd'.pc = "stop"
<1>1. NoCmd.pc = "idle" /\ NoCmd \in CommandRecord
  BY NoCmdType
<1>2. CASE ShareOn
  BY <1>2 DEF ShareOn, Give, Then, CommandRecord
<1>3. CASE Watermark
  BY <1>1, <1>3 DEF Watermark, Done, CommandRecord
<1>4. CASE PrintPolicy
  BY <1>1, <1>4 DEF PrintPolicy, Give, CommandRecord
<1>5. CASE Unpublish
  BY <1>1, <1>5 DEF Unpublish, Give, CommandRecord
<1>6. CASE DeleteSession \/ Forget
  BY <1>6 DEF DeleteSession, Forget, Then, CommandRecord
<1>7. CASE SaveWatermark \/ Acknowledge \/ Stop \/ CommandDies \/ ShareOff
  BY <1>1, <1>7 DEF SaveWatermark, Acknowledge, Stop, CommandDies, ShareOff, Done
<1>8. QED
  BY <1>2, <1>3, <1>4, <1>5, <1>6, <1>7 DEF Command

(* The steps of a publish, by what becomes of the run.                       *)
Saves(p) ==
    \E state \in PublishState :
      /\ saved' = state /\ Published(state) /\ PlanStart(state) = state.offset
      /\ state.start = run[p].state.start /\ state.offset = PlanStart(run[p].state) + 1
      /\ \/ Takes(p, "send", run[p].dest, state, run[p].to)
         \/ Takes(p, "enable", run[p].dest, state, run[p].to)
         \/ Clears(p)

Adopts(p) ==
    \E state \in PublishState :
      /\ Takes(p, "register", run[p].dest, state, run[p].to)
      /\ \/ state = run[p].state
         \/ /\ Published(state) /\ state.start \in remote[run[p].dest]
            /\ \A b \in state.start .. state.offset - 1 : b \in remote[run[p].dest]

LEMMA PublishSteps ==
  ASSUME RunsOK, NEW p \in Publishers, Publish(p)
  PROVE  \/ Clears(p)
         \/ run[p].pc = "decide" /\ Decide(p) /\ Allowed(p)
         \/ /\ run[p].pc = "config" /\ Configure(p)
            /\ Takes(p, "lock", LoadConfig(machine, tree), run[p].state, run[p].to)
         \/ /\ run[p].pc = "lock" /\ TakeLock(p) /\ run[p].dest \in Stores
            /\ \/ Published(saved) /\ Takes(p, "register", run[p].dest, saved, length)
               \/ ~Published(saved) /\ Takes(p, "reconcile", run[p].dest, saved, length)
         \/ run[p].pc = "lock" /\ run' = run
         \/ run[p].pc = "reconcile" /\ run[p].dest \in Stores /\ Adopts(p)
         \/ /\ run[p].pc = "register"
            /\ \/ Takes(p, "send", run[p].dest, run[p].state, run[p].to)
               \/ Takes(p, "enable", run[p].dest, run[p].state, run[p].to)
         \/ /\ run[p].pc = "send" /\ run[p].dest \in Stores
            /\ Takes(p, "save", run[p].dest, run[p].state, run[p].to)
            /\ remote' = [remote EXCEPT ![run[p].dest] = @ \cup {PlanStart(run[p].state)}]
         \/ run[p].pc = "save" /\ Saves(p)
<1>1. TypeOK /\ Fits(run[p])
  BY DEF RunsOK, RunHasItsArguments
<1>2. CASE \E via \in {"publish", "sync", "enable"} : Start(p, via)
  BY <1>1, <1>2, StartOf
<1>3. CASE Decide(p)
  BY <1>1, <1>3, DecideOf
<1>4. CASE Configure(p)
  BY <1>1, <1>4, ConfigureOf
<1>5. CASE TakeLock(p)
  <2>1. run[p].dest \in Stores
    BY <1>1, <1>5 DEF TakeLock, Step, Fits
  <2>2. QED
    BY <1>1, <1>5, <2>1, TakeLockOf
<1>6. CASE BreakLock(p)
  BY <1>1, <1>6, BreakOf DEF BreakLock, Step
<1>7. CASE GiveUp(p) \/ Enable(p) \/ RunDies(p)
  BY <1>1, <1>7, EndOf
<1>8. CASE Reconcile(p)
  BY <1>8, ReconcileOf DEF Adopts
<1>9. CASE Register(p)
  BY <1>9, RegisterOf DEF Returned
<1>10. CASE Send(p)
  BY <1>10, SendOf
<1>11. CASE Save(p)
  BY <1>11, SaveOf DEF Saves, Returned
<1>12. QED
  BY <1>2, <1>3, <1>4, <1>5, <1>6, <1>7, <1>8, <1>9, <1>10, <1>11 DEF Publish

(* A step that changes a file or a store is at the step of its name.         *)
LEMMA PublishKeeps ==
  ASSUME RunsOK, NEW p \in Publishers, Publish(p)
  PROVE  /\ run[p].pc # "enable" => marker' = marker
         /\ saved' = saved \/ (run[p].pc = "save" /\ Saves(p))
         /\ \/ remote' = remote
            \/ /\ run[p].pc = "send" /\ run[p].dest \in Stores
               /\ Takes(p, "save", run[p].dest, run[p].state, run[p].to)
               /\ remote' = [remote EXCEPT ![run[p].dest] = @ \cup {PlanStart(run[p].state)}]
         /\ run[p].pc # "decide" => floor' = floor /\ gone' = gone
<1>1. /\ Enable(p) => run[p].pc = "enable"
      /\ Save(p) => run[p].pc = "save" /\ Saves(p)
      /\ Decide(p) => run[p].pc = "decide"
  BY SaveOf DEF Enable, Decide, Step, Saves, Returned
<1>2. Send(p) => \/ remote' = remote
                 \/ /\ run[p].pc = "send" /\ run[p].dest \in Stores
                    /\ Takes(p, "save", run[p].dest, run[p].state, run[p].to)
                    /\ remote' = [remote EXCEPT ![run[p].dest] = @ \cup {PlanStart(run[p].state)}]
  BY SendOf
<1>3. QED
  BY <1>1, <1>2, PublishWrites

LEMMA OtherRuns ==
  ASSUME NEW p \in Publishers, NEW r, Becomes(p, r), NEW q \in Publishers
  PROVE  run'[q] = IF q = p THEN r ELSE run[q]
  BY DEF Becomes, Others

-----------------------------------------------------------------------------
-----------------------------------------------------------------------------
(* An unpublished session stays unpublished                                 *)

Misplaced == Unless({"overtaken", "moved"})
EmptyStores == \A s \in Stores : remote[s] = {}
BeforeTheLock == {"idle", "decide", "config", "lock"}

(* From the deletion on the stores are empty and nobody has the lock; once   *)
(* the marker says so nobody is past the decision either.                    *)
StaysUnpublished ==
    /\ gone # NoStore => Misplaced \/ (EmptyStores /\ marker = "off" /\ ~UnderWay)
    /\ cmd.pc \in {"forget", "stop"} =>
         Misplaced \/ (EmptyStores /\ \A p \in Publishers : run[p].pc \in BeforeTheLock)

LEMMA StaysInit == Init => StaysUnpublished
  BY NoCmdType DEF Init, StaysUnpublished

LEMMA StaysStep == Basics /\ StaysUnpublished /\ [Next]_vars => StaysUnpublished'
<1> SUFFICES ASSUME Basics, StaysUnpublished, [Next]_vars, ~Misplaced'
             PROVE  StaysUnpublished'
  BY DEF StaysUnpublished
<1>1. /\ RunsOK /\ TypeOK /\ Typed /\ cmd \in CommandRecord /\ mishaps \subseteq mishaps'
  BY MishapsGrow, TypeParts DEF Basics, RunsOK, TypeOK
<1>2. ~Misplaced
  BY <1>1 DEF Misplaced, Unless
<1>3. /\ gone # NoStore =>
           EmptyStores /\ marker = "off" /\ \A p \in Publishers : run[p].pc \in {"idle", "decide"}
      /\ cmd.pc \in {"forget", "stop"} =>
           EmptyStores /\ \A p \in Publishers : run[p].pc \in BeforeTheLock
  <2>1. ~UnderWay => \A p \in Publishers : run[p].pc \in {"idle", "decide"}
    BY <1>1 DEF UnderWay, Typed, RunRecord
  <2>2. QED
    BY <1>2, <2>1 DEF StaysUnpublished
<1>4. SUFFICES /\ gone' # NoStore => /\ EmptyStores' /\ marker' = "off"
                                    /\ \A p \in Publishers : run'[p].pc \in {"idle", "decide"}
               /\ cmd'.pc \in {"forget", "stop"} =>
                    EmptyStores' /\ \A p \in Publishers : run'[p].pc \in BeforeTheLock
  BY <1>4 DEF StaysUnpublished, UnderWay
<1>5. ASSUME NEW p \in Publishers, Publish(p)
      PROVE  /\ gone' # NoStore => /\ EmptyStores' /\ marker' = "off"
                                  /\ \A q \in Publishers : run'[q].pc \in {"idle", "decide"}
             /\ cmd'.pc \in {"forget", "stop"} =>
                  EmptyStores' /\ \A q \in Publishers : run'[q].pc \in BeforeTheLock
  <2>1. cmd' = cmd
    BY <1>5, PublishFrame
  <2>2. Clears(p) => \E r : Becomes(p, r) /\ r.pc \in {"idle", "decide"}
    BY DEF Clears
  <2>3. ASSUME gone' # NoStore
        PROVE  /\ EmptyStores' /\ marker' = "off"
               /\ \A q \in Publishers : run'[q].pc \in {"idle", "decide"}
    <3>1. gone # NoStore
      <4>1. CASE Decide(p)
        BY <1>1, <2>3, <4>1, DecideOf DEF Allowed
      <4>2. QED
        BY <1>5, <2>3, <4>1, PublishWrites
    <3>2. EmptyStores /\ marker = "off" /\ \A q \in Publishers : run[q].pc \in {"idle", "decide"}
      BY <1>3, <3>1
    <3>3. remote' = remote /\ marker' = marker
      BY <1>1, <1>5, <3>2, PublishKeeps
    <3>4. ~Allowed(p)
      BY <3>2 DEF Allowed
    <3>5. Clears(p)
      BY <1>1, <1>5, <3>2, <3>4, PublishSteps
    <3>6. \A q \in Publishers : run'[q].pc \in {"idle", "decide"}
      BY <2>2, <3>2, <3>5, OtherRuns
    <3>7. QED
      BY <3>2, <3>3, <3>6 DEF EmptyStores
  <2>4. ASSUME cmd.pc \in {"forget", "stop"}
        PROVE  EmptyStores' /\ \A q \in Publishers : run'[q].pc \in BeforeTheLock
    <3>1. EmptyStores /\ \A q \in Publishers : run[q].pc \in BeforeTheLock
      BY <1>3, <2>4
    <3>2. EmptyStores'
      <4>1. remote' = remote
        BY <1>1, <1>5, <3>1, PublishKeeps DEF BeforeTheLock
      <4>2. QED
        BY <3>1, <4>1 DEF EmptyStores
    <3>3. ~TakeLock(p)
      BY <1>1, <2>4 DEF TakeLock, Suffers, If, Misplaced, Unless
    <3>4. \/ run' = run
          \/ \E r : Becomes(p, r) /\ r.pc \in BeforeTheLock
      <4>1. CASE Clears(p)
        BY <2>2, <4>1 DEF BeforeTheLock
      <4>2. CASE Allowed(p)
        BY <4>2 DEF Allowed, BeforeTheLock
      <4>3. CASE Takes(p, "lock", LoadConfig(machine, tree), run[p].state, run[p].to)
        BY <4>3 DEF Takes, BeforeTheLock
      <4>4. CASE run[p].pc = "lock" /\ run' = run
        BY <4>4
      <4>5. QED
        BY <1>1, <1>5, <3>1, <3>3, <4>1, <4>2, <4>3, <4>4, PublishSteps DEF BeforeTheLock
    <3>5. QED
      BY <3>1, <3>2, <3>4, OtherRuns
  <2>5. QED
    BY <2>1, <2>3, <2>4
<1>6. CASE Command
  <2>1. run' = run
    BY <1>6, CommandFrame
  <2>2. EmptyStores => EmptyStores'
    <3>1. CASE DeleteSession
      BY <1>1, <3>1 DEF DeleteSession, EmptyStores, TypeOK
    <3>2. QED
      BY <1>6, <3>1, CommandWrites DEF EmptyStores
  <2>3. UnderWay /\ (DeleteSession \/ Stop \/ ShareOff) => Misplaced'
    BY DEF DeleteSession, Stop, ShareOff, Suffers, If, Misplaced, Unless
  <2>4. ~UnderWay => \A p \in Publishers : run[p].pc \in {"idle", "decide"}
    BY <1>1 DEF UnderWay, Typed, RunRecord
  <2>5. ASSUME gone' # NoStore
        PROVE  /\ EmptyStores' /\ marker' = "off"
               /\ \A p \in Publishers : run[p].pc \in {"idle", "decide"}
    <3>1. CASE ShareOn
      BY <2>5, <3>1 DEF ShareOn
    <3>2. CASE ShareOff
      <4>1. marker' = "off" /\ gone' = gone
        BY <2>5, <3>2 DEF ShareOff
      <4>2. QED
        BY <1>3, <2>2, <2>5, <4>1
    <3>3. CASE Stop
      <4>1. marker' = "off" /\ cmd.pc = "stop"
        BY <3>3 DEF Stop
      <4>2. QED
        BY <1>3, <2>2, <2>3, <2>4, <3>3, <4>1
    <3>4. QED
      BY <1>3, <1>6, <2>2, <2>5, <3>1, <3>2, <3>3, CommandWrites
  <2>6. ASSUME cmd'.pc \in {"forget", "stop"}
        PROVE  EmptyStores' /\ \A p \in Publishers : run[p].pc \in BeforeTheLock
    <3>1. CASE cmd.pc \in {"forget", "stop"}
      BY <1>3, <2>2, <3>1
    <3>2. CASE DeleteSession
      <4>1. ~Elsewhere(cmd.dest) /\ remote' = [remote EXCEPT ![cmd.dest] = {}] /\ cmd.dest \in Stores
        BY <3>2 DEF DeleteSession, Suffers, If, Misplaced, Unless, Basics, CommandHasItsArguments
      <4>2. EmptyStores'
        BY <1>1, <4>1 DEF Elsewhere, EmptyStores, TypeOK
      <4>3. QED
        BY <2>3, <2>4, <3>2, <4>2 DEF BeforeTheLock
    <3>3. QED
      BY <1>1, <1>6, <2>6, <3>1, <3>2, CommandMoves
  <2>7. QED
    BY <2>1, <2>5, <2>6
<1>7. CASE Grow \/ UNCHANGED vars \/ \E d \in Dirs, config \in Configs : Edit(d, config)
  <2>1. UNCHANGED <<gone, cmd, run, remote, marker>>
    BY <1>7, EnvironmentKeeps
  <2>2. QED
    BY <1>3, <2>1 DEF EmptyStores
<1>8. QED
  BY <1>5, <1>6, <1>7 DEF Next

LEMMA StaysAlways == Spec => []StaysUnpublished
<1>1. QED
  BY StaysInit, StaysStep, BasicsAlways, PTL DEF Spec

(* After `unpublish` nothing of the session is in any store until the user   *)
(* agrees again, unless a publish was under way or the session is in another *)
(* store than the one it was removed from.                                   *)
THEOREM UnpublishAlways == Spec => []UnpublishLeavesNothing
<1>1. StaysUnpublished => UnpublishLeavesNothing
  BY DEF StaysUnpublished, UnpublishLeavesNothing, Misplaced, EmptyStores
<1>2. QED
  BY <1>1, StaysAlways, PTL

-----------------------------------------------------------------------------
(* Where the bytes go is what was printed                                   *)

(* What was accepted had been printed, and while a publish that a policy     *)
(* allows has yet to read where to, the text it decided on is still there.   *)
PrintedBeforeAccepted ==
    /\ \A d \in Dirs : acks[d] # NoAck => acks[d] \in printed[d] \/ Unless({"swapped"})
    /\ \A p \in Publishers : run[p].pc = "config" /\ run[p].source = "repo" =>
         tree[run[p].dir] \in printed[run[p].dir] \/ Unless({"swapped", "repointed"})

LEMMA NearestOf ==
  ASSUME NEW t \in Tree, NEW d \in FindRepo(t)
  PROVE  NearestConfig(t) = t[d]
<1>1. \A e \in FindRepo(t) : e = d
  <2>1. ASSUME NEW e \in FindRepo(t)
        PROVE  e = d
    <3>1. e \in Dirs /\ d \in Dirs /\ e <= d /\ d <= e
      BY DEF FindRepo
    <3>2. e \in Int /\ d \in Int
      BY <3>1 DEF Dirs
    <3>3. QED
      BY <3>1, <3>2
  <2>2. QED
    BY <2>1
<1>2. (CHOOSE e \in FindRepo(t) : TRUE) = d
  BY <1>1
<1>3. QED
  BY <1>2 DEF NearestConfig

LEMMA PrintedInit == Init => PrintedBeforeAccepted /\ DestinationAsPrinted
<1> SUFFICES ASSUME Init
             PROVE  PrintedBeforeAccepted /\ DestinationAsPrinted
  OBVIOUS
<1>1. \A p \in Publishers : run[p].pc = "idle" /\ run[p].source = "default"
  BY DEF Init, NoRun
<1>2. \A d \in Dirs : acks[d] = NoAck
  BY DEF Init
<1>3. QED
  BY <1>1, <1>2 DEF PrintedBeforeAccepted, DestinationAsPrinted

(* The names of a run that the destination depends on.                       *)
Says(r) == \/ r.dest = machine
           \/ \E text \in printed[r.dir] :
                text.store = r.dest \/ (text.store = NoStore /\ r.dest = DefaultStore)
           \/ Unless({"swapped", "repointed", "nested"})

LEMMA SaysKept ==
  ASSUME mishaps \subseteq mishaps', machine' = machine, NEW r, printed[r.dir] \subseteq printed'[r.dir],
         Says(r)
  PROVE  \/ r.dest = machine'
         \/ \E text \in printed'[r.dir] :
              text.store = r.dest \/ (text.store = NoStore /\ r.dest = DefaultStore)
         \/ Unless({"swapped", "repointed", "nested"})'
  BY DEF Says, Unless

LEMMA PrintedStep ==
  Basics /\ PrintedBeforeAccepted /\ DestinationAsPrinted /\ [Next]_vars
    => PrintedBeforeAccepted' /\ DestinationAsPrinted'
<1> SUFFICES ASSUME Basics, PrintedBeforeAccepted, DestinationAsPrinted, [Next]_vars
             PROVE  PrintedBeforeAccepted' /\ DestinationAsPrinted'
  OBVIOUS
<1>1. /\ RunsOK /\ TypeOK /\ Typed /\ mishaps \subseteq mishaps'
      /\ tree \in Tree /\ printed \in [Dirs -> SUBSET Config]
      /\ acks \in [Dirs -> Ack]
      /\ \A p \in Publishers : run[p] \in RunRecord /\ Fits(run[p])
  BY MishapsGrow, TypeParts, TypedRuns DEF Basics, RunsOK, TypeOK, RunHasItsArguments
<1>2. \A p \in Publishers : run[p].source = "repo" /\ run[p].dest # NoStore => Says(run[p])
  BY DEF DestinationAsPrinted, Says
<1>3. machine' = machine
  <2>1. Command => machine' = machine
    BY CommandFrame
  <2>2. \A p \in Publishers : Publish(p) => machine' = machine
    BY PublishFrame
  <2>3. QED
    BY <2>1, <2>2, EnvironmentKeeps DEF Next
<1>4. ASSUME run' = run, \A d \in Dirs : printed[d] \subseteq printed'[d]
      PROVE  DestinationAsPrinted'
  <2>1. ASSUME NEW p \in Publishers, run[p].source = "repo", run[p].dest # NoStore
        PROVE  \/ run[p].dest = machine'
               \/ \E text \in printed'[run[p].dir] :
                    text.store = run[p].dest \/ (text.store = NoStore /\ run[p].dest = DefaultStore)
               \/ Unless({"swapped", "repointed", "nested"})'
    <3>1. run[p].dir \in Dirs
      BY <1>1, <2>1 DEF Fits
    <3>2. QED
      BY <1>1, <1>2, <1>3, <1>4, <2>1, <3>1, SaysKept
  <2>2. QED
    BY <1>4, <2>1 DEF DestinationAsPrinted
<1>5. ASSUME NEW p \in Publishers, Publish(p)
      PROVE  PrintedBeforeAccepted' /\ DestinationAsPrinted'
  <2>1. UNCHANGED <<tree, acks, machine, printed>>
    BY <1>5, PublishFrame
  <2>2. ASSUME NEW r, Becomes(p, r),
               r.pc = "config" /\ r.source = "repo" =>
                 tree[r.dir] \in printed[r.dir] \/ Unless({"swapped", "repointed"})',
               r.source = "repo" /\ r.dest # NoStore => Says(r) \/ Unless({"nested"})'
        PROVE  PrintedBeforeAccepted' /\ DestinationAsPrinted'
    <3>1. PrintedBeforeAccepted'
      <4>1. \A d \in Dirs : acks[d] # NoAck => acks[d] \in printed[d] \/ Unless({"swapped"})'
        BY <1>1 DEF PrintedBeforeAccepted, Unless
      <4>2. ASSUME NEW q \in Publishers, run'[q].pc = "config", run'[q].source = "repo"
            PROVE  tree[run'[q].dir] \in printed[run'[q].dir] \/ Unless({"swapped", "repointed"})'
        <5>1. CASE q = p
          BY <2>2, <4>2, <5>1, OtherRuns
        <5>2. CASE q # p
          BY <1>1, <2>2, <4>2, <5>2, OtherRuns DEF PrintedBeforeAccepted, Unless
        <5>3. QED
          BY <5>1, <5>2
      <4>3. QED
        BY <2>1, <4>1, <4>2 DEF PrintedBeforeAccepted
    <3>2. ASSUME NEW q \in Publishers, run'[q].source = "repo", run'[q].dest # NoStore
          PROVE  \/ run'[q].dest = machine'
                 \/ \E text \in printed'[run'[q].dir] :
                      \/ text.store = run'[q].dest
                      \/ text.store = NoStore /\ run'[q].dest = DefaultStore
                 \/ Unless({"swapped", "repointed", "nested"})'
      <4>1. Says(run'[q]) \/ Unless({"nested"})'
        <5>1. CASE q = p
          BY <2>2, <3>2, <5>1, OtherRuns
        <5>2. CASE q # p
          BY <1>2, <2>2, <3>2, <5>2, OtherRuns
        <5>3. QED
          BY <5>1, <5>2
      <4>2. Unless({"nested"})' => Unless({"swapped", "repointed", "nested"})'
        BY DEF Unless
      <4>3. QED
        BY <1>1, <2>1, <4>1, <4>2, SaysKept
    <3>3. QED
      BY <3>1, <3>2 DEF DestinationAsPrinted
  <2>3. CASE Clears(p)
    BY <2>2, <2>3 DEF Clears
  <2>4. CASE run[p].pc = "decide" /\ Allowed(p)
    <3>1. PICK r \in RunRecord :
            /\ Becomes(p, r) /\ r.dest = run[p].dest
            /\ r.source = "repo" => r.dir \in Dirs /\ acks[r.dir] = tree[r.dir] /\ acks[r.dir] # NoAck
      BY <2>4 DEF Allowed
    <3>2. r.dest = NoStore
      BY <1>1, <2>4, <3>1 DEF Fits
    <3>3. r.source = "repo" => tree[r.dir] \in printed[r.dir] \/ Unless({"swapped", "repointed"})'
      BY <1>1, <3>1 DEF PrintedBeforeAccepted, Unless
    <3>4. QED
      BY <2>2, <3>1, <3>2, <3>3
  <2>5. CASE /\ run[p].pc = "config" /\ Configure(p)
             /\ Takes(p, "lock", LoadConfig(machine, tree), run[p].state, run[p].to)
    <3> DEFINE dest == LoadConfig(machine, tree)
    <3>1. PICK r \in RunRecord :
            /\ Becomes(p, r) /\ r.dest = dest /\ r.pc = "lock"
            /\ r.source = run[p].source /\ r.dir = run[p].dir
      BY <2>5 DEF Takes
    <3>2. ASSUME r.source = "repo"
          PROVE  Says(r) \/ Unless({"nested"})'
      <4>1. CASE machine # NoStore
        BY <3>1, <4>1 DEF LoadConfig, Says
      <4>2. CASE machine = NoStore /\ r.dir \notin FindRepo(tree)
        BY <2>5, <3>1, <3>2, <4>2 DEF Configure, Suffers, If, Unless
      <4>3. CASE machine = NoStore /\ r.dir \in FindRepo(tree)
        <5>1. NearestConfig(tree) = tree[r.dir]
          BY <1>1, <4>3, NearestOf
        <5>2. tree[r.dir].store = dest \/ (tree[r.dir].store = NoStore /\ dest = DefaultStore)
          BY <4>3, <5>1 DEF LoadConfig
        <5>3. tree[r.dir] \in printed[r.dir] \/ Unless({"swapped", "repointed"})
          BY <2>5, <3>1, <3>2 DEF PrintedBeforeAccepted
        <5>4. Unless({"swapped", "repointed"}) => Unless({"swapped", "repointed", "nested"})
          BY DEF Unless
        <5> HIDE DEF dest
        <5>5. QED
          BY <3>1, <5>2, <5>3, <5>4 DEF Says
      <4>4. QED
        BY <4>1, <4>2, <4>3
    <3>3. QED
      BY <2>2, <3>1, <3>2
  <2>6. ASSUME NEW step, step # "config", NEW state, NEW to, Takes(p, step, run[p].dest, state, to)
        PROVE  PrintedBeforeAccepted' /\ DestinationAsPrinted'
    <3>1. PICK r \in RunRecord :
            /\ Becomes(p, r) /\ r.dest = run[p].dest /\ r.pc = step
            /\ r.source = run[p].source /\ r.dir = run[p].dir
      BY <2>6 DEF Takes
    <3>2. Says(run[p]) => Says(r)
      BY <3>1 DEF Says
    <3>3. QED
      BY <1>2, <2>2, <2>6, <3>1, <3>2
  <2>7. CASE run' = run
    <3>1. PrintedBeforeAccepted'
      BY <1>1, <2>1, <2>7 DEF PrintedBeforeAccepted, Unless
    <3>2. DestinationAsPrinted'
      BY <1>4, <2>1, <2>7
    <3>3. QED
      BY <3>1, <3>2
  <2>8. Adopts(p) \/ Saves(p) => PrintedBeforeAccepted' /\ DestinationAsPrinted'
    BY <2>3, <2>6 DEF Adopts, Saves
  <2>9. QED
    BY <1>1, <1>5, <2>3, <2>4, <2>5, <2>6, <2>7, <2>8, PublishSteps
<1>6. CASE Command
  <2>1. UNCHANGED <<tree, run>>
    BY <1>6, CommandFrame
  <2>2. CASE PrintPolicy
    <3>1. acks' = acks /\ printed' = [printed EXCEPT ![Governing] = @ \cup {tree[Governing]}]
      BY <2>2 DEF PrintPolicy
    <3>2. \A d \in Dirs : printed[d] \subseteq printed'[d]
      BY <1>1, <3>1
    <3>3. PrintedBeforeAccepted'
      <4>1. \A d \in Dirs : acks[d] # NoAck => acks[d] \in printed'[d] \/ Unless({"swapped"})'
        BY <1>1, <3>2 DEF PrintedBeforeAccepted, Unless
      <4>2. \A p \in Publishers : run[p].pc = "config" /\ run[p].source = "repo" =>
              tree[run[p].dir] \in printed'[run[p].dir] \/ Unless({"swapped", "repointed"})'
        <5>1. \A p \in Publishers : run[p].source = "repo" => run[p].dir \in Dirs
          BY <1>1 DEF Fits
        <5>2. QED
          BY <1>1, <3>2, <5>1 DEF PrintedBeforeAccepted, Unless
      <4>3. QED
        BY <2>1, <3>1, <4>1, <4>2 DEF PrintedBeforeAccepted
    <3>4. QED
      BY <1>4, <2>1, <3>2, <3>3
  <2>3. CASE Acknowledge
    <3>1. printed' = printed /\ cmd.dir \in Dirs
      BY <2>3 DEF Acknowledge, Basics, CommandHasItsArguments
    <3>2. \/ acks' = acks
          \/ /\ acks' = [acks EXCEPT ![cmd.dir] = tree[cmd.dir]]
             /\ tree[cmd.dir] \in printed[cmd.dir] \/ Unless({"swapped"})'
      BY <2>3 DEF Acknowledge, Suffers, If, Unless
    <3>3. \A d \in Dirs : acks'[d] # NoAck => acks'[d] \in printed[d] \/ Unless({"swapped"})'
      BY <1>1, <3>1, <3>2 DEF PrintedBeforeAccepted, Unless
    <3>4. PrintedBeforeAccepted'
      <4>1. \A p \in Publishers : run[p].pc = "config" /\ run[p].source = "repo" =>
              tree[run[p].dir] \in printed[run[p].dir] \/ Unless({"swapped", "repointed"})'
        BY <1>1 DEF PrintedBeforeAccepted, Unless
      <4>2. QED
        BY <2>1, <3>1, <3>3, <4>1 DEF PrintedBeforeAccepted
    <3>5. QED
      BY <1>4, <2>1, <3>1, <3>4
  <2>4. CASE acks' = acks /\ printed' = printed
    <3>1. PrintedBeforeAccepted'
      BY <1>1, <2>1, <2>4 DEF PrintedBeforeAccepted, Unless
    <3>2. QED
      BY <1>4, <2>1, <2>4, <3>1
  <2>5. QED
    BY <1>6, <2>2, <2>3, <2>4, CommandWrites
<1>7. CASE Grow \/ UNCHANGED vars \/ \E d \in Dirs, config \in Configs : Edit(d, config)
  <2>1. UNCHANGED <<acks, printed, run>>
    BY <1>7, EnvironmentKeeps
  <2>2. DestinationAsPrinted'
    BY <1>4, <2>1
  <2>3. \A d \in Dirs : acks[d] # NoAck => acks[d] \in printed[d] \/ Unless({"swapped"})'
    BY <1>1 DEF PrintedBeforeAccepted, Unless
  <2>4. ASSUME NEW p \in Publishers, run[p].pc = "config", run[p].source = "repo"
        PROVE  tree'[run[p].dir] \in printed[run[p].dir] \/ Unless({"swapped", "repointed"})'
    <3>1. CASE tree' = tree
      BY <1>1, <2>4, <3>1 DEF PrintedBeforeAccepted, Unless
    <3>2. CASE \E d \in Dirs, config \in Configs : Edit(d, config)
      BY <2>4, <3>2 DEF Edit, Suffers, If, Unless
    <3>3. Grow \/ UNCHANGED vars => tree' = tree
      BY DEF Grow, vars, files
    <3>4. QED
      BY <1>7, <3>1, <3>2, <3>3
  <2>5. PrintedBeforeAccepted'
    BY <2>1, <2>3, <2>4 DEF PrintedBeforeAccepted
  <2>6. QED
    BY <2>2, <2>5
<1>8. QED
  BY <1>5, <1>6, <1>7 DEF Next

(* A policy sends bytes only where the text that was printed for `share ack` *)
(* says, unless a config changed in between or another one names the store.  *)
THEOREM DestinationAlways == Spec => []DestinationAsPrinted
<1>1. QED
  BY PrintedInit, PrintedStep, BasicsAlways, PTL DEF Spec

-----------------------------------------------------------------------------
(* What is taken as published is in the store                               *)

Below(state, s) == \A b \in state.start .. PlanStart(state) - 1 : b \in remote[s]
Broken == Unless({"overtaken", "moved", "halfway"})

(* Some store has all that the state file calls published, except while      *)
(* `unpublish` has deleted the session and still has the file to forget; and *)
(* a run that is past the lock sends to that store.                          *)
StateIsInAStore ==
    /\ Broken \/ cmd.pc = "forget" \/ (Published(saved) => \E s \in Stores : Below(saved, s))
    /\ \A p \in Publishers :
         /\ run[p].pc \in {"register", "send", "save"} => Broken \/ Below(run[p].state, run[p].dest)
         /\ run[p].pc = "save" => Broken \/ PlanStart(run[p].state) \in remote[run[p].dest]

LEMMA InAStoreInit == Init => StateIsInAStore
<1> SUFFICES ASSUME Init
             PROVE  StateIsInAStore
  OBVIOUS
<1>1. \A p \in Publishers : run[p].pc = "idle"
  BY DEF Init, NoRun
<1>2. ~Published(saved)
  BY FreshState DEF Init
<1>3. QED
  BY <1>1, <1>2 DEF StateIsInAStore

(* A state that calls nothing published is anywhere. *)
LEMMA NothingBelow ==
  ASSUME NEW state \in PublishState, ~Published(state), NEW s
  PROVE  Below(state, s)
<1>1. PlanStart(state) = state.start /\ state.start \in Int
  BY StateType
<1>2. QED
  BY <1>1 DEF Below

LEMMA InAStoreStep == Basics /\ StateIsInAStore /\ [Next]_vars => StateIsInAStore'
<1> SUFFICES ASSUME Basics, StateIsInAStore, [Next]_vars, ~Broken'
             PROVE  StateIsInAStore'
  BY DEF StateIsInAStore
<1> DEFINE Under(state, s) == \A b \in state.start .. PlanStart(state) - 1 : b \in remote'[s]
           RunIn(r) == /\ r.pc \in {"register", "send", "save"} => Under(r.state, r.dest)
                       /\ r.pc = "save" => PlanStart(r.state) \in remote'[r.dest]
<1>1. /\ RunsOK /\ TypeOK /\ Typed /\ mishaps \subseteq mishaps'
      /\ cmd \in CommandRecord /\ saved \in PublishState
      /\ remote \in [Stores -> SUBSET Bytes] /\ RunHasItsArguments
      /\ \A p \in Publishers : run[p] \in RunRecord /\ Fits(run[p])
  BY MishapsGrow, TypeParts, TypedRuns DEF Basics, RunsOK, TypeOK, RunHasItsArguments
<1>2. ~Broken
  BY <1>1 DEF Broken, Unless
<1>3. /\ cmd.pc = "forget" \/ (Published(saved) => \E s \in Stores : Below(saved, s))
      /\ \A p \in Publishers :
           /\ run[p].pc \in {"register", "send", "save"} => Below(run[p].state, run[p].dest)
           /\ run[p].pc = "save" => PlanStart(run[p].state) \in remote[run[p].dest]
  BY <1>2 DEF StateIsInAStore
<1>4. SUFFICES /\ cmd'.pc = "forget" \/ (Published(saved') => \E s \in Stores : Under(saved', s))
               /\ \A p \in Publishers : RunIn(run'[p])
  BY <1>4 DEF StateIsInAStore, Below
<1>5. ASSUME \A s \in Stores : remote[s] \subseteq remote'[s]
      PROVE  /\ \A state : \A s \in Stores : Below(state, s) => Under(state, s)
             /\ \A q \in Publishers : RunIn(run[q])
  <2>1. \A state : \A s \in Stores : Below(state, s) => Under(state, s)
    BY <1>5 DEF Below
  <2>2. \A q \in Publishers : run[q].pc \in {"register", "send", "save"} => run[q].dest \in Stores
    BY <1>1 DEF Fits, LockedSteps
  <2>3. \A q \in Publishers : run[q].pc = "save" => PlanStart(run[q].state) \in remote'[run[q].dest]
    BY <1>3, <1>5, <2>2
  <2>4. QED
    BY <1>3, <2>1, <2>2, <2>3
<1>6. ASSUME NEW p \in Publishers, Publish(p)
      PROVE  /\ cmd'.pc = "forget" \/ (Published(saved') => \E s \in Stores : Under(saved', s))
             /\ \A q \in Publishers : RunIn(run'[q])
  <2>1. cmd' = cmd
    BY <1>6, PublishFrame
  <2>2. \A s \in Stores : remote[s] \subseteq remote'[s]
    BY <1>1, <1>6, PublishKeeps
  <2>3. /\ \A state : \A s \in Stores : Below(state, s) => Under(state, s)
        /\ \A q \in Publishers : RunIn(run[q])
    BY <1>5, <2>2
  <2>4. cmd.pc = "forget" \/ (Published(saved) => \E s \in Stores : Under(saved, s))
    BY <1>3, <2>3
  <2> HIDE DEF RunIn
  <2>5. ASSUME NEW r, Becomes(p, r), RunIn(r)
        PROVE  \A q \in Publishers : RunIn(run'[q])
    BY <2>3, <2>5, OtherRuns
  <2>6. Clears(p) \/ Allowed(p) => \A q \in Publishers : RunIn(run'[q])
    <3>1. \A r : r.pc \in {"idle", "decide", "config"} => RunIn(r)
      BY DEF RunIn
    <3>2. Clears(p) \/ Allowed(p) => \E r : Becomes(p, r) /\ r.pc \in {"idle", "decide", "config"}
      BY DEF Clears, Allowed
    <3>3. QED
      BY <2>5, <3>1, <3>2
  <2>7. ASSUME NEW step, NEW dest, NEW state, NEW to, Takes(p, step, dest, state, to),
               step \in {"register", "send", "save"} => Under(state, dest),
               step = "save" => PlanStart(state) \in remote'[dest]
        PROVE  \A q \in Publishers : RunIn(run'[q])
    <3>1. PICK r \in RunRecord : Becomes(p, r) /\ r.pc = step /\ r.dest = dest /\ r.state = state
      BY <2>7 DEF Takes
    <3>2. RunIn(r)
      BY <2>7, <3>1 DEF RunIn
    <3>3. QED
      BY <2>5, <3>1, <3>2
  <2> DEFINE s0 == run[p].state
             d0 == run[p].dest
  <2>8. run[p].pc \in {"register", "send", "save"} => Under(s0, d0) /\ Below(s0, d0) /\ d0 \in Stores
    BY <1>1, <1>3, <2>3 DEF RunIn, Fits, LockedSteps
  <2>9. CASE run[p].pc = "save" /\ Saves(p)
    <3>1. PICK state \in PublishState :
            /\ saved' = state /\ PlanStart(state) = state.offset
            /\ state.start = s0.start /\ state.offset = PlanStart(s0) + 1
            /\ \/ Takes(p, "send", d0, state, run[p].to)
               \/ Takes(p, "enable", d0, state, run[p].to)
               \/ Clears(p)
      BY <2>9 DEF Saves
    <3>2. Under(state, d0)
      <4>1. PlanStart(s0) \in remote'[d0] /\ Under(s0, d0)
        BY <2>3, <2>8, <2>9 DEF RunIn
      <4>2. PlanStart(s0) \in Int /\ s0.start \in Int
        BY <1>1, StateType DEF RunRecord
      <4>3. ASSUME NEW b \in state.start .. PlanStart(state) - 1
            PROVE  b \in remote'[d0]
        <5>1. b \in s0.start .. PlanStart(s0) - 1 \/ b = PlanStart(s0)
          BY <3>1, <4>2
        <5>2. QED
          BY <4>1, <5>1
      <4>4. QED
        BY <4>3
    <3>3. \E s \in Stores : Under(saved', s)
      BY <2>8, <2>9, <3>1, <3>2
    <3> HIDE DEF Under
    <3>4. \A q \in Publishers : RunIn(run'[q])
      BY <2>6, <2>7, <3>1, <3>2
    <3>5. QED
      BY <3>3, <3>4
  <2>10. CASE saved' = saved
    <3>1. cmd'.pc = "forget" \/ (Published(saved') => \E s \in Stores : Under(saved', s))
      BY <2>1, <2>4, <2>10
    <3> HIDE DEF Under
    <3>2. CASE Clears(p) \/ Allowed(p)
      BY <2>6, <3>1, <3>2
    <3>3. CASE Takes(p, "lock", LoadConfig(machine, tree), s0, run[p].to)
      BY <2>7, <3>1, <3>3
    <3>4. CASE TakeLock(p) /\ d0 \in Stores /\ Published(saved)
               /\ Takes(p, "register", d0, saved, length)
      <4>1. cmd.pc # "forget" /\ ~Elsewhere(d0)
        BY <3>4 DEF TakeLock, Suffers, If, Broken, Unless
      <4>2. PICK s \in Stores : Below(saved, s)
        BY <1>3, <3>4, <4>1
      <4>3. saved.start \in saved.start .. PlanStart(saved) - 1
        BY <1>1, <3>4, StateType DEF Published
      <4>4. remote[s] # {}
        BY <4>2, <4>3 DEF Below
      <4>5. s = d0
        BY <4>1, <4>4 DEF Elsewhere
      <4>6. Under(saved, d0)
        BY <2>3, <4>2, <4>5
      <4>7. QED
        BY <2>7, <3>1, <3>4, <4>6
    <3>5. CASE Takes(p, "reconcile", d0, saved, length)
      BY <2>7, <3>1, <3>5
    <3>6. CASE run' = run
      BY <2>3, <3>1, <3>6
    <3>7. CASE run[p].pc = "reconcile" /\ d0 \in Stores /\ Adopts(p)
      <4>1. PICK state \in PublishState :
               /\ Takes(p, "register", d0, state, run[p].to)
               /\ \/ state = s0
                  \/ /\ Published(state)
                     /\ \A b \in state.start .. state.offset - 1 : b \in remote[d0]
        BY <3>7 DEF Adopts
      <4>2. Below(state, d0)
        <5>1. CASE state = s0
          BY <1>1, <3>7, <5>1, NothingBelow DEF Fits
        <5>2. CASE Published(state) /\ \A b \in state.start .. state.offset - 1 : b \in remote[d0]
          BY <5>2, StateType DEF Below
        <5>3. QED
          BY <4>1, <5>1, <5>2
      <4>3. Under(state, d0)
        BY <2>3, <3>7, <4>2
      <4>4. QED
        BY <2>7, <3>1, <4>1, <4>3
    <3>8. CASE run[p].pc = "register" /\ Takes(p, "send", d0, s0, run[p].to)
      BY <2>7, <2>8, <3>1, <3>8
    <3>9. CASE Takes(p, "enable", d0, s0, run[p].to)
      BY <2>7, <3>1, <3>9
    <3>10. CASE /\ run[p].pc = "send" /\ d0 \in Stores /\ Takes(p, "save", d0, s0, run[p].to)
                /\ remote' = [remote EXCEPT ![d0] = @ \cup {PlanStart(s0)}]
      <4>1. PlanStart(s0) \in remote'[d0]
        BY <1>1, <3>10
      <4>2. QED
        BY <2>7, <2>8, <3>1, <3>10, <4>1
    <3>11. CASE run[p].pc = "save" /\ Saves(p)
      BY <2>9, <3>11
    <3>12. QED
      BY <1>1, <1>6, <3>1, <3>2, <3>3, <3>4, <3>5, <3>6, <3>7, <3>8, <3>9, <3>10, <3>11, PublishSteps
  <2>11. QED
    BY <1>1, <1>6, <2>9, <2>10, PublishKeeps
<1>7. CASE Command
  <2>1. run' = run
    BY <1>7, CommandFrame
  <2>2. CASE DeleteSession
    <3>1. ~UnderWay /\ cmd'.pc = "forget"
      BY <1>1, <2>2 DEF DeleteSession, Then, Suffers, If, Broken, Unless, CommandRecord
    <3>2. \A q \in Publishers : run[q].pc \notin {"register", "send", "save"}
      BY <3>1 DEF UnderWay
    <3>3. QED
      BY <2>1, <3>1, <3>2
  <2>3. CASE remote' = remote
    <3>1. /\ \A state : \A s \in Stores : Below(state, s) => Under(state, s)
          /\ \A q \in Publishers : RunIn(run[q])
      BY <1>5, <2>3
    <3>2. CASE SaveWatermark
      <4>1. /\ cmd.pc = "on save" /\ saved' = [cmd.state EXCEPT !.start = cmd.size]
        BY <3>2 DEF SaveWatermark
      <4>2. /\ ~Published(cmd.state) /\ cmd.state.start <= cmd.size /\ cmd.state \in PublishState
            /\ cmd.size \in 0 .. MaxLength
        BY <1>1, <4>1 DEF Basics, CommandHasItsArguments, CommandRecord
      <4>3. saved' = [start |-> cmd.size, offset |-> cmd.state.offset]
        BY <4>1, <4>2 DEF PublishState
      <4>4. ~Published(saved')
        BY <4>2, <4>3, StateType, LengthBound DEF Published
      <4>5. QED
        BY <2>1, <3>1, <4>4
    <3>3. CASE Forget
      <4>1. ~Published(saved')
        BY <3>3, FreshState DEF Forget
      <4>2. QED
        BY <2>1, <3>1, <4>1
    <3>4. CASE saved' = saved
      <4>1. cmd.pc = "forget" => cmd'.pc = "forget" \/ Forget
        <5>1. CommandDies => Broken'
          BY DEF CommandDies, Suffers, Broken, Unless
        <5>2. QED
          BY <1>7, <5>1 DEF Command, ShareOn, Watermark, SaveWatermark, ShareOff, PrintPolicy,
                            Acknowledge, Unpublish, DeleteSession, Stop, Give
      <4>2. QED
        BY <1>3, <2>1, <3>1, <3>3, <3>4, <4>1
    <3>5. QED
      BY <1>7, <3>2, <3>3, <3>4, CommandWrites
  <2>4. QED
    BY <1>7, <2>2, <2>3, CommandWrites
<1>8. CASE Grow \/ UNCHANGED vars \/ \E d \in Dirs, config \in Configs : Edit(d, config)
  <2>1. UNCHANGED <<saved, remote, run, cmd>>
    BY <1>8, EnvironmentKeeps
  <2>2. /\ \A state : \A s \in Stores : Below(state, s) => Under(state, s)
        /\ \A q \in Publishers : RunIn(run[q])
    BY <1>5, <2>1
  <2>3. QED
    BY <1>3, <2>1, <2>2
<1> HIDE DEF Under, RunIn
<1>9. QED
  BY <1>6, <1>7, <1>8 DEF Next

(* Below the first byte a publish sends there is no hole in the store down   *)
(* to its watermark, unless `unpublish` came between or ended halfway, or    *)
(* another store has the session.                                            *)
THEOREM NothingMissingAlways == Spec => []NothingMissingBelow
<1>1. StateIsInAStore => NothingMissingBelow
  BY DEF StateIsInAStore, NothingMissingBelow, Broken, Below
<1>2. QED
  BY <1>1, InAStoreInit, InAStoreStep, BasicsAlways, PTL DEF Spec

-----------------------------------------------------------------------------
(* What the user agreed to                                                  *)

Misled == Unless({"early", "overtaken", "overwritten", "halfway", "unsaved", "moved"})

(* The watermark is not below the first byte the user agreed to, when a      *)
(* publish may read it: `share on` writes the marker first, and its three    *)
(* steps carry the bound to the state file.  A publish that has the lock     *)
(* keeps to it; and it finds bytes it does not know of in no store, where    *)
(* reconcile would adopt them and with them a beginning below the watermark. *)
Watermarked ==
    /\ UnderWay \/ marker = "on" => cmd.pc \notin {"idle", "ack"} \/ PlanStart(saved) >= floor
    /\ cmd.pc = "on read" => floor <= length /\ (Published(saved) => saved.offset >= floor)
    /\ cmd.pc = "on save" => floor <= cmd.size
    /\ \A p \in Publishers : run[p].pc \in LockedSteps => PlanStart(run[p].state) >= floor
    /\ EmptyStores \/ Published(saved) \/ \E p \in Publishers : run[p].pc = "save"
    /\ \A p \in Publishers : run[p].pc = "reconcile" => ~Published(saved)

FloorIsKept == Misled \/ Watermarked

LEMMA FloorInit == Init => FloorIsKept
<1> SUFFICES ASSUME Init
             PROVE  Watermarked
  BY DEF FloorIsKept
<1>1. \A p \in Publishers : run[p].pc = "idle"
  BY DEF Init, NoRun
<1>2. cmd.pc = "idle" /\ marker = "unset" /\ EmptyStores
  BY NoCmdType DEF Init, EmptyStores
<1>3. ~UnderWay
  BY <1>1 DEF UnderWay
<1>4. QED
  BY <1>1, <1>2, <1>3 DEF Watermarked, LockedSteps

(* A step of a run changes the floor only when it decides to share.          *)
LEMMA PublishFloor ==
  ASSUME RunsOK, NEW p \in Publishers, Publish(p)
  PROVE  \/ floor' = floor
         \/ floor' = 0 /\ Allowed(p) /\ run[p].pc = "decide"
<1>1. CASE Decide(p)
  BY <1>1, DecideOf DEF RunsOK, Allowed
<1>2. QED
  BY <1>1, PublishWrites

LEMMA SavesOrDies ==
  ASSUME NEW p \in Publishers, Publish(p), run[p].pc = "save"
  PROVE  Save(p) \/ "unsaved" \in mishaps'
  BY DEF Publish, Start, Decide, Configure, TakeLock, BreakLock, GiveUp, Reconcile, Register,
         Send, Enable, RunDies, Step, Suffers, If

LEMMA FloorStep == Basics /\ StaysUnpublished /\ FloorIsKept /\ [Next]_vars => FloorIsKept'
<1> SUFFICES ASSUME Basics, StaysUnpublished, FloorIsKept, [Next]_vars, ~Misled'
             PROVE  Watermarked'
  BY DEF FloorIsKept
<1>1. /\ RunsOK /\ TypeOK /\ Typed /\ mishaps \subseteq mishaps'
      /\ cmd \in CommandRecord /\ saved \in PublishState
      /\ remote \in [Stores -> SUBSET Bytes] /\ RunHasItsArguments
      /\ \A p \in Publishers : run[p] \in RunRecord /\ Fits(run[p])
      /\ length \in Int /\ floor \in Nat /\ saved.offset <= length
  BY MishapsGrow, TypeParts, TypedRuns, LengthBound
     DEF Basics, RunsOK, TypeOK, RunHasItsArguments, WithinTranscript
<1>2. Watermarked
  BY <1>1 DEF FloorIsKept, Misled, Unless
<1>3. /\ PlanStart(saved) \in Int /\ saved.offset \in Int /\ saved.offset <= PlanStart(saved)
      /\ Published(saved) => PlanStart(saved) = saved.offset
      /\ \A p \in Publishers : PlanStart(run[p].state) \in Nat
      /\ length \in Int /\ cmd.size \in Int /\ floor \in Int
  <2>1. \A state \in PublishState : PlanStart(state) \in Nat
    BY StateType, LengthBound
  <2>2. QED
    BY <1>1, <2>1, StateType, LengthBound DEF RunRecord, CommandRecord
<1> DEFINE from(q) == PlanStart(run[q].state)
<1>4. \A q \in Publishers : /\ from(q) \in Int
                            /\ run[q].pc \in LockedSteps => from(q) >= floor
                            /\ run[q].pc = "reconcile" => ~Published(saved)
  <2>1. \A q \in Publishers : from(q) \in Int
    BY <1>3
  <2>2. QED
    BY <1>2, <2>1 DEF Watermarked
<1>5. ASSUME \A m \in Int : m >= floor => m >= floor'
      PROVE  \A q \in Publishers : run[q].pc \in LockedSteps => PlanStart(run[q].state) >= floor'
  <2>1. \A q \in Publishers : run[q].pc \in LockedSteps => from(q) >= floor'
    <3> HIDE DEF from
    <3>1. QED
      BY <1>4, <1>5
  <2>2. QED
    BY <2>1
<1>6. UnderWay <=> \E p \in Publishers : run[p].pc \in UnderWaySteps
  BY <1>1, UnderWayOf
<1>7. ASSUME NEW p \in Publishers, Publish(p)
      PROVE  Watermarked'
  <2>1. cmd' = cmd /\ length' = length
    BY <1>7, PublishFrame
  <2>2. floor' \in Nat /\ \A m \in Int : m >= floor => m >= floor'
    <3>1. floor' \in Nat /\ floor' <= floor
      BY <1>1, <1>7, PublishFloor
    <3>2. QED
      BY <1>3, <3>1
  <2>3. Typed' /\ (UnderWay' <=> \E q \in Publishers : run'[q].pc \in UnderWaySteps)
    <3>1. Typed'
      BY <1>1, <1>7, RunsStep
    <3>2. \A q \in Publishers : run'[q].pc \in RunSteps
      BY <3>1 DEF Typed, RunRecord
    <3>3. QED
      BY <3>1, <3>2 DEF UnderWay, UnderWaySteps, RunSteps
  <2>4. CASE run[p].pc = "save"
    <3>1. Save(p)
      BY <1>7, <2>4, SavesOrDies DEF Misled, Unless
    <3>2. Saves(p) /\ UnderWay
      BY <1>1, <1>6, <2>4, <3>1, SaveOf DEF Saves, Returned, UnderWaySteps
    <3>3. PICK state \in PublishState :
            /\ saved' = state /\ Published(state) /\ PlanStart(state) = state.offset
            /\ state.offset = PlanStart(run[p].state) + 1
            /\ \/ Takes(p, "send", run[p].dest, state, run[p].to)
               \/ Takes(p, "enable", run[p].dest, state, run[p].to)
               \/ Clears(p)
      BY <3>2 DEF Saves
    <3>4. state.offset >= floor' /\ PlanStart(state) >= floor'
      <4>1. PlanStart(run[p].state) >= floor
        BY <1>2, <2>4 DEF Watermarked, LockedSteps
      <4>2. QED
        <5>1. state.offset \in Int /\ state.offset >= floor
          BY <1>3, <2>4, <3>3, <4>1
        <5>2. QED
          BY <2>2, <3>3, <5>1
    <3>5. PICK r : Becomes(p, r) /\ (r.pc \in LockedSteps => r.pc = "send" /\ r.state = state)
      BY <3>3 DEF Takes, Clears, LockedSteps
    <3>6. \A q \in Publishers : run'[q] = IF q = p THEN r ELSE run[q]
      BY <3>5, OtherRuns
    <3>7. \A q \in Publishers : run'[q].pc \in LockedSteps => PlanStart(run'[q].state) >= floor'
      BY <1>5, <2>2, <3>4, <3>5, <3>6
    <3>8. \A q \in Publishers : run'[q].pc # "reconcile"
      <4>1. \A q \in Publishers : run[q].pc \in LockedSteps => holder = q
        BY <1>1 DEF RunHasItsArguments
      <4>2. \A q \in Publishers : run[q].pc = "reconcile" => q = p
        BY <2>4, <4>1 DEF LockedSteps
      <4>3. QED
        BY <2>4, <3>5, <3>6, <4>2 DEF LockedSteps
    <3>9. /\ cmd.pc = "on read" => floor' <= length
          /\ cmd.pc = "on save" => floor' <= cmd.size
      BY <1>2, <1>3, <2>2 DEF Watermarked
    <3>10. QED
      BY <2>1, <3>3, <3>4, <3>7, <3>8, <3>9 DEF Watermarked
  <2>5. CASE run[p].pc # "save"
    <3>1. saved' = saved
      BY <1>1, <1>7, <2>5, PublishKeeps
    <3>2. UnderWay' \/ marker' = "on" => UnderWay \/ marker = "on" \/ floor' = 0
      <4>1. CASE run[p].pc \in UnderWaySteps
        BY <1>6, <4>1
      <4>2. CASE run[p].pc \notin UnderWaySteps
        <5>1. marker' = marker
          BY <1>1, <1>7, <4>2, PublishKeeps DEF UnderWaySteps
        <5>2. Allowed(p) => floor' = 0 \/ marker = "on"
          BY DEF Allowed
        <5>3. Clears(p) => (UnderWay' => UnderWay)
          <6>1. Clears(p) => \E r : Becomes(p, r) /\ r.pc \notin UnderWaySteps
            BY DEF Clears, UnderWaySteps
          <6>2. QED
            BY <1>6, <2>3, <6>1, OtherRuns
        <5>4. Clears(p) \/ Allowed(p)
          BY <1>1, <1>7, <4>2, PublishSteps DEF UnderWaySteps
        <5>5. QED
          BY <5>1, <5>2, <5>3, <5>4
      <4>3. QED
        BY <4>1, <4>2
    <3>3. UnderWay' \/ marker' = "on" =>
            cmd.pc \notin {"idle", "ack"} \/ PlanStart(saved) >= floor'
      <4>1. PlanStart(saved) >= 0
        BY <1>1, StateType
      <4>2. PlanStart(saved) >= floor => PlanStart(saved) >= floor'
        BY <1>1, <1>3, <2>2
      <4>3. QED
        BY <1>2, <3>2, <4>1, <4>2 DEF Watermarked
    <3>4. cmd.pc = "on read" => floor' <= length /\ (Published(saved) => saved.offset >= floor')
      BY <1>2, <1>3, <2>2 DEF Watermarked
    <3>5. cmd.pc = "on save" => floor' <= cmd.size
      BY <1>2, <1>3, <2>2 DEF Watermarked
    <3>6. \/ run' = run
          \/ \E r : /\ Becomes(p, r)
                    /\ r.pc \in LockedSteps => PlanStart(r.state) >= floor'
                    /\ r.pc = "reconcile" => ~Published(saved)
      <4> DEFINE Next1(r) == /\ Becomes(p, r)
                             /\ r.pc \in LockedSteps => PlanStart(r.state) >= floor'
                             /\ r.pc = "reconcile" => ~Published(saved)
      <4> SUFFICES run' = run \/ \E r : Next1(r)
        OBVIOUS
      <4>1. ASSUME NEW step, NEW dest, NEW state, NEW to, Takes(p, step, dest, state, to),
                   step \in LockedSteps => PlanStart(state) >= floor',
                   step = "reconcile" => ~Published(saved)
            PROVE  \E r : Next1(r)
        BY <4>1 DEF Takes
      <4>2. CASE Clears(p) \/ Allowed(p)
        BY <4>2 DEF Clears, Allowed, LockedSteps
      <4> HIDE DEF Next1
      <4> DEFINE s0 == run[p].state
                 d0 == run[p].dest
      <4>3. run[p].pc \in LockedSteps => PlanStart(s0) >= floor'
        BY <1>5, <2>2
      <4>4. CASE Takes(p, "lock", LoadConfig(machine, tree), s0, run[p].to)
        BY <4>1, <4>4 DEF LockedSteps
      <4>5. CASE /\ run[p].pc = "lock" /\ TakeLock(p)
                 /\ \/ Published(saved) /\ Takes(p, "register", d0, saved, length)
                    \/ ~Published(saved) /\ Takes(p, "reconcile", d0, saved, length)
        <5>1. cmd.pc \in {"idle", "ack"}
          BY <1>1, <4>5 DEF TakeLock, Suffers, If, Misled, Unless, CommandRecord, CmdSteps
        <5>2. UnderWay
          BY <1>6, <4>5 DEF UnderWaySteps
        <5>3. PlanStart(saved) >= floor
          BY <1>2, <5>1, <5>2 DEF Watermarked
        <5>4. PlanStart(saved) >= floor'
          BY <1>1, <1>3, <2>2, <5>3
        <5>5. QED
          BY <4>1, <4>5, <5>4 DEF LockedSteps
      <4>6. CASE run[p].pc = "reconcile" /\ d0 \in Stores /\ Adopts(p)
        <5>1. PICK state \in PublishState :
                 /\ Takes(p, "register", d0, state, run[p].to)
                 /\ state = s0 \/ state.start \in remote[d0]
          BY <4>6 DEF Adopts
        <5>2. EmptyStores
          <6>1. ~Published(saved)
            BY <1>2, <4>6 DEF Watermarked
          <6>2. \A q \in Publishers : run[q].pc # "save"
            BY <1>1, <4>6 DEF RunHasItsArguments, LockedSteps
          <6>3. QED
            BY <1>2, <6>1, <6>2 DEF Watermarked
        <5>3. state = s0
          BY <4>6, <5>1, <5>2 DEF EmptyStores
        <5>4. PlanStart(state) >= floor'
          BY <4>3, <4>6, <5>3 DEF LockedSteps
        <5>5. QED
          BY <4>1, <5>1, <5>4
      <4>7. CASE /\ run[p].pc = "register"
                 /\ \/ Takes(p, "send", d0, s0, run[p].to)
                    \/ Takes(p, "enable", d0, s0, run[p].to)
        BY <4>1, <4>3, <4>7 DEF LockedSteps
      <4>8. CASE run[p].pc = "send" /\ Takes(p, "save", d0, s0, run[p].to)
        BY <4>1, <4>3, <4>8 DEF LockedSteps
      <4>9. QED
        BY <1>1, <1>7, <2>5, <4>2, <4>4, <4>5, <4>6, <4>7, <4>8, PublishSteps
    <3>7. \A q \in Publishers : /\ run'[q].pc \in LockedSteps => PlanStart(run'[q].state) >= floor'
                                /\ run'[q].pc = "reconcile" => ~Published(saved)
      <4>1. \A q \in Publishers : /\ run[q].pc \in LockedSteps => PlanStart(run[q].state) >= floor'
                                  /\ run[q].pc = "reconcile" => ~Published(saved)
        BY <1>4, <1>5, <2>2
      <4>2. QED
        BY <3>6, <4>1, OtherRuns
    <3>8. EmptyStores' \/ Published(saved) \/ \E q \in Publishers : run'[q].pc = "save"
      <4>1. CASE remote' = remote
        <5>1. CASE EmptyStores \/ Published(saved)
          BY <4>1, <5>1 DEF EmptyStores
        <5>2. ASSUME NEW q \in Publishers, run[q].pc = "save"
              PROVE  run'[q].pc = "save"
          <6>1. q # p
            BY <2>5, <5>2
          <6>2. QED
            BY <3>6, <5>2, <6>1, OtherRuns
        <5>3. QED
          BY <1>2, <5>1, <5>2 DEF Watermarked
      <4>2. CASE Takes(p, "save", run[p].dest, run[p].state, run[p].to)
        BY <4>2 DEF Takes, Becomes
      <4>3. QED
        BY <1>1, <1>7, <4>1, <4>2, PublishKeeps
    <3>9. QED
      BY <2>1, <3>1, <3>3, <3>4, <3>5, <3>7, <3>8 DEF Watermarked
  <2>6. QED
    BY <2>4, <2>5
<1>8. CASE Command
  <2>1. run' = run /\ length' = length
    BY <1>8, CommandFrame
  <2>2. /\ UnderWay' <=> UnderWay
        /\ EmptyStores => EmptyStores'
    <3>1. EmptyStores => EmptyStores'
      <4>1. CASE DeleteSession
        BY <1>1, <4>1 DEF DeleteSession, EmptyStores
      <4>2. QED
        BY <1>8, <4>1, CommandWrites DEF EmptyStores
    <3>2. QED
      BY <2>1, <3>1 DEF UnderWay
  <2>3. UnderWay /\ (Stop \/ ShareOff) => Misled'
    BY DEF Stop, ShareOff, Suffers, If, Misled, Unless
  <2>4. ~UnderWay => \A p \in Publishers : run[p].pc \notin LockedSteps
    BY <1>6 DEF UnderWaySteps, LockedSteps
  <2>5. \A p \in Publishers : run[p].pc \in LockedSteps => PlanStart(run[p].state) >= floor'
    <3>1. CASE Stop \/ ShareOff
      BY <2>3, <2>4, <3>1
    <3>2. CASE ShareOn
      <4> DEFINE agreed == IF Published(saved) THEN saved.offset ELSE length
      <4>1. floor' = IF agreed < floor THEN agreed ELSE floor
        BY <3>2 DEF ShareOn
      <4>2. agreed \in Int
        BY <1>3
      <4> HIDE DEF agreed
      <4>3. \A m \in Int : m >= floor => m >= floor'
        BY <1>3, <4>1, <4>2
      <4>4. QED
        BY <1>5, <4>3
    <3>3. QED
      BY <1>2, <1>8, <3>1, <3>2, CommandWrites DEF Watermarked
  <2>6. CASE SaveWatermark
    <3>1. /\ cmd.pc = "on save" /\ saved' = [cmd.state EXCEPT !.start = cmd.size]
          /\ saved = cmd.state /\ cmd'.pc = "idle"
      BY <2>6, NoCmdType DEF SaveWatermark, Suffers, If, Done, Misled, Unless
    <3>2. /\ ~Published(saved) /\ cmd.size \in 0 .. MaxLength /\ saved.start <= cmd.size
      BY <3>1, <1>1 DEF Basics, CommandHasItsArguments, CommandRecord
    <3>3. saved' = [start |-> cmd.size, offset |-> saved.offset]
      BY <1>1, <3>1 DEF PublishState
    <3>4. saved' \in PublishState /\ saved'.start = cmd.size /\ ~Published(saved')
      BY <1>1, <3>2, <3>3, StateType DEF PublishState, Published
    <3>5. PlanStart(saved') = cmd.size
      BY <3>4, StateType
    <3>6. PlanStart(saved') >= floor'
      <4>1. floor' = floor
        BY <2>6 DEF SaveWatermark
      <4>2. QED
        BY <1>1, <1>2, <3>1, <3>2, <3>5, <4>1 DEF Watermarked
    <3>7. EmptyStores \/ \E p \in Publishers : run[p].pc = "save"
      BY <1>2, <3>2 DEF Watermarked
    <3>8. QED
      BY <2>1, <2>2, <2>5, <3>1, <3>4, <3>6, <3>7 DEF Watermarked
  <2>7. CASE Forget
    <3>1. cmd.pc = "forget" /\ cmd'.pc = "stop" /\ saved' = Fresh
      BY <1>1, <2>7 DEF Forget, Then, CommandRecord
    <3>2. EmptyStores
      BY <1>1, <3>1 DEF StaysUnpublished, Misplaced, Misled, Unless
    <3>3. QED
      BY <2>1, <2>2, <2>5, <3>1, <3>2, FreshState DEF Watermarked
  <2>8. CASE saved' = saved
    <3>1. /\ EmptyStores' \/ Published(saved') \/ \E p \in Publishers : run'[p].pc = "save"
          /\ \A p \in Publishers : /\ run'[p].pc \in LockedSteps => PlanStart(run'[p].state) >= floor'
                                   /\ run'[p].pc = "reconcile" => ~Published(saved')
      BY <1>2, <2>1, <2>2, <2>5, <2>8 DEF Watermarked
    <3> DEFINE Kept == /\ UnderWay' \/ marker' = "on" =>
                            cmd'.pc \notin {"idle", "ack"} \/ PlanStart(saved) >= floor'
                       /\ cmd'.pc = "on read" =>
                            floor' <= length /\ (Published(saved) => saved.offset >= floor')
                       /\ cmd'.pc = "on save" => floor' <= cmd'.size
    <3>2. ASSUME Kept
          PROVE  Watermarked'
      BY <2>1, <2>8, <3>1, <3>2 DEF Watermarked
    <3>3. CASE ShareOn
      <4> DEFINE agreed == IF Published(saved) THEN saved.offset ELSE length
      <4>1. cmd'.pc = "on read" /\ floor' = IF agreed < floor THEN agreed ELSE floor
        BY <1>1, <3>3 DEF ShareOn, Then, CommandRecord
      <4>2. floor' <= length /\ (Published(saved) => saved.offset >= floor')
        <5>1. agreed \in Int /\ agreed <= length /\ (Published(saved) => saved.offset = agreed)
          BY <1>1, <1>3
        <5> HIDE DEF agreed
        <5>2. floor \in Int /\ length \in Int
          BY <1>3
        <5>3. floor' = IF agreed < floor THEN agreed ELSE floor
          BY <4>1
        <5>4. floor' \in Int /\ floor' <= agreed
          BY <5>1, <5>2, <5>3
        <5>5. QED
          BY <5>1, <5>2, <5>4
      <4>3. QED
        BY <3>2, <4>1, <4>2
    <3>4. CASE Watermark
      <4>1. cmd.pc = "on read" /\ UNCHANGED <<marker, floor>>
        BY <3>4 DEF Watermark, history
      <4>2. floor <= length /\ (Published(saved) => saved.offset >= floor)
        BY <1>2, <4>1 DEF Watermarked
      <4>3. CASE Published(saved)
        <5>1. cmd'.pc = "idle"
          BY <3>4, <4>3, NoCmdType DEF Watermark, Done
        <5>2. PlanStart(saved) >= floor
          BY <1>3, <4>2, <4>3
        <5>3. QED
          BY <3>2, <4>1, <5>1, <5>2
      <4>4. CASE ~Published(saved)
        <5>1. cmd'.pc = "on save" /\ cmd'.size = length
          BY <1>1, <3>4, <4>4 DEF Watermark, CommandRecord
        <5>2. QED
          BY <3>2, <4>1, <4>2, <5>1
      <4>5. QED
        BY <4>3, <4>4
    <3>5. CASE ShareOff \/ Stop
      <4>1. ~UnderWay' /\ marker' # "on" /\ cmd'.pc \notin {"on read", "on save"}
        BY <2>2, <2>3, <3>5, NoCmdType DEF ShareOff, Stop, Give, Done
      <4>2. QED
        BY <3>2, <4>1
    <3>6. CASE PrintPolicy \/ Unpublish \/ DeleteSession
      <4>1. UNCHANGED <<marker, floor>>
        BY <3>6 DEF PrintPolicy, Unpublish, DeleteSession
      <4>2. cmd'.pc \in {"ack", "delete", "forget"} /\ (cmd'.pc = "ack" => cmd.pc = "idle")
        BY <1>1, <3>6, NoCmdType DEF PrintPolicy, Unpublish, DeleteSession, Give, Then, CommandRecord
      <4>3. QED
        BY <1>2, <2>2, <3>2, <4>1, <4>2 DEF Watermarked
    <3>7. CASE Acknowledge
      <4>1. cmd.pc = "ack" /\ cmd'.pc = "idle" /\ UNCHANGED <<marker, floor>>
        BY <3>7, NoCmdType DEF Acknowledge, Done
      <4>2. QED
        BY <1>2, <2>2, <3>2, <4>1 DEF Watermarked
    <3>8. ~CommandDies
      BY DEF CommandDies, Suffers, Misled, Unless
    <3>9. CASE SaveWatermark \/ Forget
      BY <2>6, <2>7, <3>9
    <3>10. QED
      BY <1>8, <3>3, <3>4, <3>5, <3>6, <3>7, <3>8, <3>9 DEF Command
  <2>9. QED
    BY <1>8, <2>6, <2>7, <2>8, CommandWrites
<1>9. CASE Grow \/ UNCHANGED vars \/ \E d \in Dirs, config \in Configs : Edit(d, config)
  <2>1. UNCHANGED <<marker, saved, remote, run, cmd, floor>>
    BY <1>9, EnvironmentKeeps
  <2>2. length' = length \/ length' = length + 1
    BY <1>9, EditFrame DEF Grow, vars
  <2>3. floor <= length => floor <= length'
    BY <1>1, <2>2
  <2>4. QED
    BY <1>2, <2>1, <2>3 DEF Watermarked, UnderWay, EmptyStores
<1>10. QED
  BY <1>7, <1>8, <1>9 DEF Next

(* What is new in a store is the first byte of somebody's plan. *)
LEMMA NewBytes ==
  ASSUME Basics, [Next]_vars, NEW s \in Stores, NEW b \in remote'[s] \ remote[s]
  PROVE  \E p \in Publishers : run[p].pc = "send" /\ b = PlanStart(run[p].state)
<1>1. RunsOK /\ remote \in [Stores -> SUBSET Bytes]
  BY DEF Basics, RunsOK, TypeOK
<1>2. ASSUME NEW p \in Publishers, Publish(p)
      PROVE  run[p].pc = "send" /\ b = PlanStart(run[p].state)
  <2>1. /\ run[p].pc = "send" /\ run[p].dest \in Stores
        /\ remote' = [remote EXCEPT ![run[p].dest] = @ \cup {PlanStart(run[p].state)}]
    BY <1>1, <1>2, PublishKeeps
  <2>2. QED
    BY <1>1, <2>1
<1>3. ~Command
  <2>1. ~DeleteSession
    BY <1>1 DEF DeleteSession
  <2>2. QED
    BY <2>1, CommandWrites
<1>4. ~(Grow \/ UNCHANGED vars \/ \E d \in Dirs, config \in Configs : Edit(d, config))
  BY EnvironmentKeeps
<1>5. QED
  BY <1>2, <1>3, <1>4 DEF Next

(* No byte is sent that the user did not agree to share, unless something    *)
(* came between two steps of a publish and of a command.                     *)
THEOREM ConsentAlways == Spec => SentIsConsented
<1>1. ASSUME Basics, FloorIsKept, [Next]_vars, NEW s \in Stores, NEW b \in remote'[s] \ remote[s]
      PROVE  b >= floor \/ Misled
  <2>1. PICK p \in Publishers : run[p].pc = "send" /\ b = PlanStart(run[p].state)
    BY <1>1, NewBytes
  <2>2. QED
    BY <1>1, <2>1 DEF FloorIsKept, Watermarked, LockedSteps
<1>2. Basics /\ FloorIsKept /\ [Next]_vars =>
        [\A s \in Stores : \A b \in remote'[s] \ remote[s] :
           \/ b >= floor
           \/ Unless({"early", "overtaken", "overwritten", "halfway", "unsaved", "moved"})]_vars
  BY <1>1 DEF Misled
<1>3. Spec => []FloorIsKept
  BY FloorInit, FloorStep, BasicsAlways, StaysAlways, PTL DEF Spec
<1>4. QED
  BY <1>2, <1>3, BasicsAlways, PTL DEF Spec, SentIsConsented
=============================================================================
