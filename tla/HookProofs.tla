------------------------------ MODULE HookProofs ------------------------------
(***************************************************************************)
(* Proofs about the session hook and its installation, for any debounce,   *)
(* patience, number of turns, events and edits of the user: types; install *)
(* and uninstall keep what is the user's; and the publishes that Stop      *)
(* starts do not stack up behind a slow one.                               *)
(***************************************************************************)
EXTENDS Hook, FiniteSetTheorems, WellFoundedInduction, TLAPS

-----------------------------------------------------------------------------
(* Selecting from a list of groups                                          *)

(* A non-empty set of naturals has a least element.                         *)
LEMMA Least ==
  ASSUME NEW S, S \subseteq Nat, S # {}
  PROVE  \E x \in S : \A y \in S : x <= y
<1> DEFINE R == OpToRel(<, Nat)
<1>1. IsWellFoundedOn(R, Nat)
  BY NatLessThanWellFounded
<1>2. \A x, y \in Nat : x < y => <<x, y>> \in R
  BY DEF OpToRel
<1> HIDE DEF R
<1>3. PICK x \in S : \A y \in S : <<y, x>> \notin R
  BY <1>1, WFMin
<1>4. ASSUME NEW y \in S
      PROVE  x <= y
  <2>1. ~(y < x)
    BY <1>2, <1>3
  <2> QED
    BY <2>1
<1> QED
  BY <1>3, <1>4

(* f is what Select keeps of the first i groups, for each i up to n.         *)
Selects(f, n, groups, kind) ==
    f = [i \in 0 .. n |-> IF i = 0 THEN <<>>
                          ELSE IF groups[i] \in kind THEN Append(f[i - 1], groups[i]) ELSE f[i - 1]]

LEMMA SelectsAt ==
  ASSUME NEW n \in Nat, NEW groups, NEW kind, NEW f, Selects(f, n, groups, kind)
  PROVE  /\ f[0] = <<>>
         /\ \A i \in 1 .. n : f[i] = IF groups[i] \in kind THEN Append(f[i - 1], groups[i]) ELSE f[i - 1]
<1>1. ASSUME NEW i \in 0 .. n
      PROVE  f[i] = IF i = 0 THEN <<>>
                    ELSE IF groups[i] \in kind THEN Append(f[i - 1], groups[i]) ELSE f[i - 1]
  BY Zenon DEF Selects
<1>2. 0 \in 0 .. n /\ \A i \in 1 .. n : i \in 0 .. n /\ i # 0
  OBVIOUS
<1> QED
  BY <1>1, <1>2

(* There is such a function: the least n without one has none for n - 1.     *)
LEMMA SelectsExists ==
  ASSUME NEW groups, NEW kind, NEW n \in Nat
  PROVE  \E f : Selects(f, n, groups, kind)
<1> DEFINE Without == {k \in Nat : ~ \E f : Selects(f, k, groups, kind)}
<1>1. SUFFICES ASSUME Without # {}
               PROVE  FALSE
  OBVIOUS
<1>2. PICK m \in Without : \A k \in Without : m <= k
  BY <1>1, Least
<1>3. m # 0
  <2> DEFINE f == [i \in 0 .. 0 |-> <<>>]
  <2>1. Selects(f, 0, groups, kind)
    BY DEF Selects
  <2> QED
    BY <2>1, <1>2
<1>4. PICK f : Selects(f, m - 1, groups, kind)
  BY <1>2, <1>3
<1> DEFINE g == [i \in 0 .. m |-> IF i = 0 THEN <<>>
                                  ELSE IF groups[i] \in kind THEN Append(f[i - 1], groups[i]) ELSE f[i - 1]]
<1>5. ASSUME NEW i \in 0 .. (m - 1)
      PROVE  g[i] = f[i]
  <2>1. i \in 0 .. m
    BY <1>2
  <2>2. f[i] = IF i = 0 THEN <<>>
               ELSE IF groups[i] \in kind THEN Append(f[i - 1], groups[i]) ELSE f[i - 1]
    BY <1>4, Zenon DEF Selects
  <2> QED
    BY <2>1, <2>2, Zenon
<1>6. Selects(g, m, groups, kind)
  <2>1. ASSUME NEW i \in 0 .. m, i # 0
        PROVE  g[i - 1] = f[i - 1]
    <3>1. i - 1 \in 0 .. (m - 1)
      BY <1>2, <2>1
    <3> QED
      BY <1>5, <3>1, Zenon
  <2> QED
    BY <2>1, Zenon DEF Selects
<1> QED
  BY <1>2, <1>6

LEMMA SelectIs ==
  ASSUME NEW groups \in Seq(Groups), NEW kind
  PROVE  \E f : Selects(f, Len(groups), groups, kind) /\ Select(groups, kind) = f[Len(groups)]
<1> DEFINE upTo[i \in 0 .. Len(groups)] ==
             IF i = 0 THEN <<>>
             ELSE IF groups[i] \in kind THEN Append(upTo[i - 1], groups[i]) ELSE upTo[i - 1]
<1>1. Select(groups, kind) = upTo[Len(groups)]
  BY DEF Select
<1>2. \E f : Selects(f, Len(groups), groups, kind)
  <2>1. Len(groups) \in Nat
    OBVIOUS
  <2> QED
    BY <2>1, SelectsExists, Zenon
<1>3. Selects(upTo, Len(groups), groups, kind)
  BY <1>2 DEF Selects
<1> QED
  BY <1>1, <1>3

(* Lists that begin alike are selected from alike.                           *)
LEMMA SelectsAlike ==
  ASSUME NEW m \in Nat, NEW n \in Nat, m <= n, NEW a, NEW b, NEW kind, NEW f, NEW g,
         Selects(f, m, a, kind), Selects(g, n, b, kind), \A i \in 1 .. m : a[i] = b[i]
  PROVE  f[m] = g[m]
<1> DEFINE Unlike == {k \in 0 .. m : f[k] # g[k]}
<1>1. SUFFICES ASSUME Unlike # {}
               PROVE  FALSE
  OBVIOUS
<1>2. PICK k \in Unlike : \A j \in Unlike : k <= j
  <2>1. Unlike \subseteq Nat
    OBVIOUS
  <2> QED
    BY <1>1, <2>1, Least
<1>3. /\ f[0] = <<>> /\ g[0] = <<>>
      /\ \A i \in 1 .. m : f[i] = IF a[i] \in kind THEN Append(f[i - 1], a[i]) ELSE f[i - 1]
      /\ \A i \in 1 .. n : g[i] = IF b[i] \in kind THEN Append(g[i - 1], b[i]) ELSE g[i - 1]
  BY SelectsAt
<1>4. k \in 1 .. m /\ k \in 1 .. n /\ k - 1 \in 0 .. m /\ k - 1 \notin Unlike
  BY <1>2, <1>3
<1> QED
  BY <1>2, <1>3, <1>4

(* One more group: it is kept, or not.                                       *)
LEMMA SelectAppend ==
  ASSUME NEW groups \in Seq(Groups), NEW group \in Groups, NEW kind
  PROVE  Select(Append(groups, group), kind) =
           IF group \in kind THEN Append(Select(groups, kind), group) ELSE Select(groups, kind)
<1> DEFINE n == Len(groups)
           longer == Append(groups, group)
<1>1. /\ n \in Nat /\ longer \in Seq(Groups) /\ Len(longer) = n + 1 /\ longer[n + 1] = group
      /\ \A i \in 1 .. n : longer[i] = groups[i]
  OBVIOUS
<1>2. PICK f : Selects(f, n, groups, kind) /\ Select(groups, kind) = f[n]
  BY SelectIs
<1> HIDE DEF longer
<1>3. PICK g : Selects(g, n + 1, longer, kind) /\ Select(longer, kind) = g[n + 1]
  BY <1>1, SelectIs
<1> HIDE DEF n
<1>4. n + 1 \in Nat /\ n <= n + 1 /\ n + 1 \in 1 .. (n + 1) /\ (n + 1) - 1 = n
  BY <1>1
<1>5. f[n] = g[n]
  BY <1>1, <1>2, <1>3, <1>4, SelectsAlike
<1>6. g[n + 1] = IF longer[n + 1] \in kind THEN Append(g[n], longer[n + 1]) ELSE g[n]
  BY <1>3, <1>4, SelectsAt
<1> QED
  BY <1>1, <1>2, <1>3, <1>5, <1>6 DEF longer

LEMMA SelectOfNone == \A kind : Select(<<>>, kind) = <<>>
<1> SUFFICES ASSUME NEW kind
             PROVE  Select(<<>>, kind) = <<>>
  OBVIOUS
<1>1. <<>> \in Seq(Groups) /\ Len(<<>>) = 0
  OBVIOUS
<1>2. PICK f : Selects(f, 0, <<>>, kind) /\ Select(<<>>, kind) = f[0]
  BY <1>1, SelectIs
<1> QED
  BY <1>2, SelectsAt

LEMMA SelectType ==
  ASSUME NEW groups \in Seq(Groups), NEW kind
  PROVE  Select(groups, kind) \in Seq(Groups)
<1> DEFINE n == Len(groups)
<1>1. n \in Nat /\ \A i \in 1 .. n : groups[i] \in Groups
  OBVIOUS
<1>2. PICK f : Selects(f, n, groups, kind) /\ Select(groups, kind) = f[n]
  BY SelectIs
<1> HIDE DEF n
<1>3. /\ f[0] = <<>>
      /\ \A i \in 1 .. n : f[i] = IF groups[i] \in kind THEN Append(f[i - 1], groups[i]) ELSE f[i - 1]
  BY <1>1, <1>2, SelectsAt
<1> DEFINE Other == {i \in 0 .. n : f[i] \notin Seq(Groups)}
<1>4. SUFFICES ASSUME Other # {}
               PROVE  FALSE
  <2>1. n \in 0 .. n
    BY <1>1
  <2> QED
    BY <1>2, <2>1
<1>5. PICK i \in Other : \A j \in Other : i <= j
  <2>1. Other \subseteq Nat
    OBVIOUS
  <2> QED
    BY <1>4, <2>1, Least
<1>6. i \in 1 .. n /\ i - 1 \in 0 .. n
  <2>1. <<>> \in Seq(Groups)
    OBVIOUS
  <2>2. f[0] \in Seq(Groups)
    BY <1>3, <2>1
  <2>3. i # 0
    BY <1>5, <2>2
  <2> QED
    BY <1>1, <1>5, <2>3
<1>7. f[i - 1] \in Seq(Groups)
  <2>1. i - 1 \notin Other
    BY <1>5
  <2> QED
    BY <1>6, <2>1
<1>8. f[i] \in Seq(Groups)
  <2>1. groups[i] \in Groups
    BY <1>1, <1>6
  <2>2. Append(f[i - 1], groups[i]) \in Seq(Groups)
    BY <1>7, <2>1
  <2>3. f[i] = Append(f[i - 1], groups[i]) \/ f[i] = f[i - 1]
    BY <1>3, <1>6
  <2> QED
    BY <1>7, <2>2, <2>3
<1> QED
  BY <1>5, <1>8

(* Selecting a second time keeps what the first time kept, when the list has *)
(* groups of both kinds or of none.                                          *)
LEMMA SelectTwice ==
  ASSUME NEW groups \in Seq(Groups), NEW kind, NEW again,
         \A i \in 1 .. Len(groups) : groups[i] \in kind <=> groups[i] \in again
  PROVE  Select(Select(groups, kind), again) = Select(groups, again)
<1> DEFINE n == Len(groups)
<1>1. n \in Nat /\ \A i \in 1 .. n : groups[i] \in Groups
  OBVIOUS
<1>2. PICK f : Selects(f, n, groups, kind) /\ Select(groups, kind) = f[n]
  BY SelectIs
<1>3. PICK g : Selects(g, n, groups, again) /\ Select(groups, again) = g[n]
  BY SelectIs
<1>4. \A i \in 1 .. n : groups[i] \in kind <=> groups[i] \in again
  OBVIOUS
<1> HIDE DEF n
<1>5. /\ f[0] = <<>> /\ g[0] = <<>>
      /\ \A i \in 1 .. n : f[i] = IF groups[i] \in kind THEN Append(f[i - 1], groups[i]) ELSE f[i - 1]
      /\ \A i \in 1 .. n : g[i] = IF groups[i] \in again THEN Append(g[i - 1], groups[i]) ELSE g[i - 1]
  BY <1>1, <1>2, <1>3, SelectsAt
<1> DEFINE Differ == {i \in 0 .. n : ~(f[i] \in Seq(Groups) /\ Select(f[i], again) = g[i])}
<1>6. SUFFICES ASSUME Differ # {}
               PROVE  FALSE
  <2>1. n \in 0 .. n
    BY <1>1
  <2> QED
    BY <1>2, <1>3, <2>1
<1>7. PICK i \in Differ : \A j \in Differ : i <= j
  <2>1. Differ \subseteq Nat
    OBVIOUS
  <2> QED
    BY <1>6, <2>1, Least
<1>8. i \in 1 .. n /\ i - 1 \in 0 .. n
  <2>1. <<>> \in Seq(Groups) /\ Select(<<>>, again) = <<>>
    BY SelectOfNone
  <2>2. i # 0
    BY <1>5, <1>7, <2>1
  <2> QED
    BY <1>1, <1>7, <2>2
<1>9. f[i - 1] \in Seq(Groups) /\ Select(f[i - 1], again) = g[i - 1]
  <2>1. i - 1 \notin Differ
    BY <1>7
  <2> QED
    BY <1>8, <2>1
<1>10. groups[i] \in Groups
  BY <1>1, <1>8
<1>11. f[i] \in Seq(Groups) /\ Select(f[i], again) = g[i]
  <2>1. CASE groups[i] \in kind
    <3>1. f[i] = Append(f[i - 1], groups[i]) /\ g[i] = Append(g[i - 1], groups[i])
      BY <1>4, <1>5, <1>8, <2>1
    <3>2. Select(Append(f[i - 1], groups[i]), again) = Append(Select(f[i - 1], again), groups[i])
      BY <1>4, <1>8, <1>9, <1>10, <2>1, SelectAppend
    <3> QED
      BY <1>9, <1>10, <3>1, <3>2
  <2>2. CASE groups[i] \notin kind
    BY <1>4, <1>5, <1>8, <1>9, <2>2
  <2> QED
    BY <2>1, <2>2
<1> QED
  BY <1>7, <1>11

-----------------------------------------------------------------------------
(* The settings file                                                        *)

LEMMA InstalledFile ==
  ASSUME NEW file \in File
  PROVE  /\ Installed(file) \in File
         /\ \A e \in Events : Theirs(Installed(file).groups[e]) = Theirs(file.groups[e])
         /\ file.line = "theirs" => Installed(file).line = "theirs"
<1>1. {"ours"} \in Groups /\ file.groups \in [Events -> Seq(Groups)]
  BY DEF Groups, File
<1>2. \A e \in Events : Installed(file).groups[e] =
          IF e \in HookEvents /\ Ours(file.groups[e]) = <<>> THEN Append(file.groups[e], {"ours"})
                                                              ELSE file.groups[e]
  BY DEF Installed
<1>3. \A e \in Events : file.groups[e] \in Seq(Groups)
  BY <1>1
<1>4. ASSUME NEW e \in Events
      PROVE  Installed(file).groups[e] \in Seq(Groups)
  <2>1. Append(file.groups[e], {"ours"}) \in Seq(Groups)
    BY <1>1, <1>3
  <2> QED
    BY <1>2, <1>3, <2>1
<1>5. Installed(file) \in File
  <2> DEFINE groups == [e \in Events |-> IF e \in HookEvents /\ Ours(file.groups[e]) = <<>>
                                           THEN Append(file.groups[e], {"ours"}) ELSE file.groups[e]]
             line == IF file.line = "none" THEN "ours" ELSE file.line
  <2>1. groups \in [Events -> Seq(Groups)]
    BY <1>1, <1>3
  <2>2. line \in {"none", "ours", "theirs"}
    BY DEF File
  <2>3. Installed(file) = [groups |-> groups, line |-> line]
    BY DEF Installed
  <2> HIDE DEF groups, line
  <2> QED
    BY <2>1, <2>2, <2>3 DEF File
<1>6. ASSUME NEW e \in Events
      PROVE  Theirs(Installed(file).groups[e]) = Theirs(file.groups[e])
  <2>1. {"ours"} \notin {g \in Groups : "theirs" \in g}
    OBVIOUS
  <2>2. Theirs(Append(file.groups[e], {"ours"})) = Theirs(file.groups[e])
    BY <1>1, <1>3, <2>1, SelectAppend DEF Theirs
  <2> QED
    BY <1>2, <2>2
<1> QED
  BY <1>5, <1>6 DEF Installed

LEMMA UninstalledFile ==
  ASSUME NEW file \in File
  PROVE  /\ Uninstalled(file) \in File
         /\ file.line = "theirs" => Uninstalled(file).line = "theirs"
         /\ \A e \in Events :
              (\A i \in DOMAIN file.groups[e] : file.groups[e][i] # {"ours", "theirs"}) =>
                Theirs(Uninstalled(file).groups[e]) = Theirs(file.groups[e])
<1> DEFINE kind == {g \in Groups : ~IsOurs(g)}
           theirs == {g \in Groups : "theirs" \in g}
<1>1. \A e \in Events : file.groups[e] \in Seq(Groups)
  BY DEF File
<1>2. \A e \in Events : Uninstalled(file).groups[e] = Select(file.groups[e], kind)
  BY DEF Uninstalled
<1>3. Uninstalled(file) \in File
  <2> DEFINE groups == [e \in Events |-> Select(file.groups[e], kind)]
             line == IF file.line = "ours" THEN "none" ELSE file.line
  <2>1. groups \in [Events -> Seq(Groups)]
    BY <1>1, SelectType
  <2>2. line \in {"none", "ours", "theirs"}
    BY DEF File
  <2>3. Uninstalled(file) = [groups |-> groups, line |-> line]
    BY DEF Uninstalled
  <2> HIDE DEF groups, line
  <2> QED
    BY <2>1, <2>2, <2>3 DEF File
<1>4. ASSUME NEW e \in Events,
             \A i \in DOMAIN file.groups[e] : file.groups[e][i] # {"ours", "theirs"}
      PROVE  Theirs(Uninstalled(file).groups[e]) = Theirs(file.groups[e])
  <2> DEFINE groups == file.groups[e]
  <2>1. groups \in Seq(Groups) /\ DOMAIN groups = 1 .. Len(groups)
    BY <1>1
  <2>2. \A i \in 1 .. Len(groups) : groups[i] \in {{"ours"}, {"theirs"}}
    BY <1>4, <2>1 DEF Groups
  <2>3. /\ {"ours"} \notin kind /\ {"ours"} \notin theirs
        /\ {"theirs"} \in kind /\ {"theirs"} \in theirs
    BY DEF IsOurs, Groups
  <2> HIDE DEF groups, kind, theirs
  <2>4. \A i \in 1 .. Len(groups) : groups[i] \in kind <=> groups[i] \in theirs
    BY <2>2, <2>3
  <2>5. Select(Select(groups, kind), theirs) = Select(groups, theirs)
    BY <2>1, <2>4, SelectTwice
  <2> QED
    BY <1>2, <2>5 DEF Theirs, groups, theirs
<1> QED
  BY <1>3, <1>4 DEF Uninstalled

LEMMA SettingsStart == SettingsInit => SettingsTypeOK
<1> SUFFICES ASSUME SettingsInit
             PROVE  SettingsTypeOK
  OBVIOUS
<1> USE SettingsConstants DEF SettingsConstants
<1>1. NoFile \in File
  BY DEF NoFile, File
<1> DEFINE users == [NoFile EXCEPT !.groups["Stop"] = <<{"theirs"}>>, !.line = "theirs"]
<1>2. users \in File
  <2>1. <<{"theirs"}>> \in Seq(Groups)
    BY DEF Groups
  <2>2. [NoFile.groups EXCEPT !["Stop"] = <<{"theirs"}>>] \in [Events -> Seq(Groups)]
    BY <1>1, <2>1 DEF File
  <2> QED
    BY <1>1, <2>2 DEF File
<1>3. Installed(users) \in File
  <2> HIDE DEF users
  <2> QED
    BY <1>2, InstalledFile
<1>4. settings \in {NoFile, Installed(users)} /\ job = NoJob /\ writes = 0 /\ spoilt = {}
  BY DEF SettingsInit
<1> HIDE DEF users
<1> QED
  BY <1>1, <1>3, <1>4 DEF SettingsTypeOK, NoJob

LEMMA SettingsStep ==
  ASSUME SettingsTypeOK, SettingsNext \/ UNCHANGED settingsVars
  PROVE  SettingsTypeOK'
<1> USE SettingsConstants DEF SettingsConstants
<1>1. ASSUME NEW command \in {"install", "uninstall"}, Read(command)
      PROVE  SettingsTypeOK'
  BY <1>1 DEF SettingsTypeOK, Read, Write
<1>2. CASE Change
  <2>1. job' = NoJob /\ writes' = writes /\ NoJob \in [pc : {"idle", "install", "uninstall"}, copy : File]
    BY <1>2 DEF Change, NoJob, NoFile, File
  <2>2. job.copy \in File
    BY DEF SettingsTypeOK
  <2>3. Installed(job.copy) \in File /\ Uninstalled(job.copy) \in File
    BY <2>2, InstalledFile, UninstalledFile
  <2>4. settings' \in {settings, Installed(job.copy), Uninstalled(job.copy)} /\ spoilt' \subseteq Spoils
    BY <1>2 DEF Change, SettingsTypeOK, Spoils
  <2> QED
    BY <2>1, <2>3, <2>4 DEF SettingsTypeOK
<1>3. ASSUME NEW event \in UserEvents, UserEdits(event)
      PROVE  SettingsTypeOK'
  <2>1. event \in Events /\ settings.groups \in [Events -> Seq(Groups)] /\ settings \in File
    BY DEF SettingsTypeOK, File
  <2>2. ASSUME NEW groups \in Seq(Groups)
        PROVE  [settings EXCEPT !.groups[event] = groups] \in File
    <3>1. [settings.groups EXCEPT ![event] = groups] \in [Events -> Seq(Groups)]
      BY <2>1
    <3> QED
      BY <2>1, <3>1 DEF File
  <2>3. settings' \in File
    <3> DEFINE groups == settings.groups[event]
    <3>1. groups \in Seq(Groups) /\ {"theirs"} \in Groups /\ {"ours", "theirs"} \in Groups
      BY <2>1 DEF Groups
    <3>2. CASE settings' = [settings EXCEPT !.groups[event] = Append(@, {"theirs"})]
      <4>1. Append(groups, {"theirs"}) \in Seq(Groups)
        BY <3>1
      <4> QED
        BY <2>2, <3>2, <4>1
    <3>3. CASE settings' = [settings EXCEPT !.line = "theirs"]
      BY <2>1, <3>3 DEF File
    <3>4. CASE \E i \in DOMAIN groups : settings' = [settings EXCEPT !.groups[event][i] = {"ours", "theirs"}]
      <4>1. PICK i \in DOMAIN groups : settings' = [settings EXCEPT !.groups[event][i] = {"ours", "theirs"}]
        BY <3>4
      <4>2. [groups EXCEPT ![i] = {"ours", "theirs"}] \in Seq(Groups)
        BY <3>1, <4>1
      <4> QED
        BY <2>2, <4>1, <4>2
    <3>5. CASE settings' = [settings EXCEPT !.groups[event] = Select(@, Groups \ {{"ours"}})]
      <4>1. Select(groups, Groups \ {{"ours"}}) \in Seq(Groups)
        BY <3>1, SelectType
      <4> QED
        BY <2>2, <3>5, <4>1
    <3> QED
      BY <1>3, <3>2, <3>3, <3>4, <3>5 DEF UserEdits
  <2> QED
    BY <1>3, <2>3 DEF UserEdits, Write, SettingsTypeOK
<1>4. CASE UNCHANGED settingsVars
  BY <1>4 DEF settingsVars, SettingsTypeOK
<1> QED
  BY <1>1, <1>2, <1>3, <1>4 DEF SettingsNext

(* Every step but those of the settings leaves them alone.                   *)
LEMMA SettingsApart ==
  ASSUME [Next]_vars
  PROVE  SettingsNext \/ UNCHANGED settingsVars
<1>1. CASE Wires
  BY <1>1 DEF Wires
<1>2. CASE Turn \/ EndSession \/ KillSession
  BY <1>2 DEF Turn, EndSession, KillSession
<1>3. ASSUME NEW s \in Sources, HookStep(s)
      PROVE  UNCHANGED settingsVars
  BY <1>3 DEF HookStep, Look, Mark, Spawn, Aside
<1>4. CASE PublishStep \/ Fail
  BY <1>4 DEF PublishStep, Begin, TakeLock, GiveUp, Upload, Fail, Aside
<1>5. CASE Tick \/ Toggle \/ UNCHANGED vars
  BY <1>5 DEF Tick, Toggle, Aside, vars
<1> QED
  BY <1>1, <1>2, <1>3, <1>4, <1>5 DEF Next

(* A command that ends has written what it read, changed only in groups of   *)
(* ours; what it read is what was there, or it says "rewritten".             *)
LEMMA TheirsKept ==
  ASSUME SettingsTypeOK, SettingsNext, job.pc # "idle", job' = NoJob,
         spoilt' \cap {"rewritten", "mixed"} = {}
  PROVE  /\ \A e \in Events : Theirs(settings'.groups[e]) = Theirs(settings.groups[e])
         /\ settings.line = "theirs" => settings'.line = "theirs"
<1> DEFINE changed == IF job.pc = "install" THEN Installed(job.copy) ELSE Uninstalled(job.copy)
           mixed == \E e \in Events : \E i \in DOMAIN job.copy.groups[e] :
                      job.copy.groups[e][i] = {"ours", "theirs"}
<1>1. Change
  BY DEF SettingsNext, Read, UserEdits, NoJob
<1>2. CASE changed = job.copy
  BY <1>1, <1>2 DEF Change
<1>3. CASE changed # job.copy
  <2>1. /\ settings' = changed
        /\ spoilt' = spoilt \cup (IF settings # job.copy THEN {"rewritten"} ELSE {})
                            \cup (IF mixed /\ job.pc = "uninstall" THEN {"mixed"} ELSE {})
    BY <1>1, <1>3 DEF Change
  <2>2. settings = job.copy /\ settings \in File
    BY <2>1 DEF SettingsTypeOK
  <2>3. job.pc = "uninstall" => ~mixed
    BY <2>1
  <2>4. job.pc \in {"install", "uninstall"}
    BY <1>1 DEF Change
  <2>5. CASE job.pc = "install"
    <3>1. settings' = Installed(settings)
      BY <2>1, <2>2, <2>5
    <3> QED
      BY <2>2, <3>1, InstalledFile
  <2>6. CASE job.pc = "uninstall"
    <3>1. settings' = Uninstalled(settings)
      BY <2>1, <2>2, <2>6
    <3>2. \A e \in Events : \A i \in DOMAIN settings.groups[e] : settings.groups[e][i] # {"ours", "theirs"}
      BY <2>2, <2>3, <2>6
    <3> QED
      BY <2>2, <3>1, <3>2, UninstalledFile
  <2> QED
    BY <2>4, <2>5, <2>6
<1> QED
  BY <1>2, <1>3

(* The commands leave the user's own groups, in their order, and status line *)
(* as they are (hooks.py:164), unless the file changed under the command or  *)
(* the user had put a command into a group of ours.                          *)
THEOREM TheirsSurviveAlways == Spec => TheirsSurvive
<1>1. Init => SettingsTypeOK
  BY SettingsStart DEF Init
<1>2. SettingsTypeOK /\ [Next]_vars => SettingsTypeOK'
  BY SettingsApart, SettingsStep
<1>3. SettingsTypeOK /\ [Next]_vars =>
        [job.pc # "idle" /\ job' = NoJob =>
           \/ /\ \A e \in Events : Theirs(settings'.groups[e]) = Theirs(settings.groups[e])
              /\ settings.line = "theirs" => settings'.line = "theirs"
           \/ spoilt' \cap {"rewritten", "mixed"} # {}]_settingsVars
  BY SettingsApart, TheirsKept
<1> QED
  BY <1>1, <1>2, <1>3, PTL DEF Spec, TheirsSurvive

-----------------------------------------------------------------------------
(* The steps of a hook, and the publishes that wait behind an upload. *)
HookTypes ==
    /\ hook \in [Sources -> [pc : {"idle", "look", "mark", "spawn"}, event : Events]]
    /\ markAge \in 0 .. Never
    /\ starting \in [BOOLEAN -> Nat]
    /\ waiting \in [Waits -> Nat]

(* A hook of Stop that has decided to start a publish, and not done so.      *)
Going(s) == hook[s].pc \in {"mark", "spawn"}
Starts(s) == Going(s) /\ hook[s].event # "SessionEnd"
Waiting == {w \in Waits : ~w.final /\ waiting[w] > 0}

(* One hook at a time is past its look at the mark, and what it starts keeps *)
(* the mark young until it waits for the lock.                               *)
OneGoes == \A s, t \in Sources : Going(s) /\ Going(t) => s = t
MarkIsYoung ==
    /\ \A s \in Sources : hook[s].pc = "spawn" => markAge = 0
    /\ starting[FALSE] > 0 => markAge = 0
OneStarts ==
    /\ starting[FALSE] <= 1
    /\ (\E s \in Sources : Starts(s)) => starting[FALSE] = 0

(* Publishes that wait were started after the mark was left, no two of them  *)
(* within Debounce, and none within Debounce of the next.                    *)
Apart(m, n) == m + Debounce <= n \/ n + Debounce <= m
WaitsApart ==
    /\ \A w \in Waiting : waiting[w] = 1 /\ markAge <= w.wait
    /\ \A v, w \in Waiting : v # w => Apart(v.wait, w.wait)
NextIsApart ==
    (starting[FALSE] > 0 \/ \E s \in Sources : Starts(s)) =>
        \A w \in Waiting : w.wait >= Debounce

InTurn == OneGoes /\ MarkIsYoung /\ OneStarts /\ WaitsApart /\ NextIsApart
QueueInv == HookTypes /\ ("overlap" \in mishaps \/ InTurn)

-----------------------------------------------------------------------------
(* Counting                                                                 *)

(* Numbers that are d apart have different quotients by d.                   *)
LEMMA QuotientsDiffer ==
  ASSUME NEW a \in Nat, NEW b \in Nat, NEW d \in Nat \ {0}, a + d <= b
  PROVE  /\ a \div d \in Nat /\ b \div d \in Nat
         /\ a \div d < b \div d
<1> DEFINE p == a \div d
           q == b \div d
           r == a % d
           t == b % d
<1>1. p \in Nat /\ q \in Nat /\ r \in 0 .. (d - 1) /\ t \in 0 .. (d - 1)
  OBVIOUS
<1>2. a = d * p + r /\ b = d * q + t
  OBVIOUS
<1> HIDE DEF p, q, r, t
<1>3. ASSUME q <= p
      PROVE  FALSE
  <2>1. PICK k \in Nat : p = q + k
    <3>1. p - q \in Nat /\ p = q + (p - q)
      BY <1>1, <1>3
    <3> QED
      BY <3>1
  <2>2. d * p = d * q + d * k /\ d * k \in Nat
    BY <1>1, <2>1
  <2>3. d * p \in Nat /\ d * q \in Nat
    BY <1>1
  <2> QED
    BY <1>1, <1>2, <2>2, <2>3
<1>4. p < q
  BY <1>1, <1>3
<1> QED
  BY <1>1, <1>4 DEF p, q

LEMMA QuotientsGrow ==
  ASSUME NEW a \in Nat, NEW b \in Nat, NEW d \in Nat \ {0}, a <= b
  PROVE  a \div d \in Nat /\ b \div d \in Nat /\ a \div d <= b \div d
<1> DEFINE p == a \div d
           q == b \div d
           r == a % d
           t == b % d
<1>1. p \in Nat /\ q \in Nat /\ r \in 0 .. (d - 1) /\ t \in 0 .. (d - 1)
  OBVIOUS
<1>2. a = d * p + r /\ b = d * q + t
  OBVIOUS
<1> HIDE DEF p, q, r, t
<1>3. ASSUME q < p
      PROVE  FALSE
  <2>1. PICK k \in Nat : p = q + 1 + k
    <3>1. p - q - 1 \in Nat /\ p = q + 1 + (p - q - 1)
      BY <1>1, <1>3
    <3> QED
      BY <3>1
  <2>2. d * p = d * q + d + d * k /\ d * k \in Nat
    BY <1>1, <2>1
  <2>3. d * p \in Nat /\ d * q \in Nat
    BY <1>1
  <2> QED
    BY <1>1, <1>2, <2>2, <2>3
<1>4. p <= q
  BY <1>1, <1>3
<1> QED
  BY <1>1, <1>4 DEF p, q

(* Publishes that wait and are Debounce apart have different quotients of    *)
(* their waits by Debounce, of which LockWait leaves room for so many; one   *)
(* that is about to wait is as far from them.                                *)
LEMMA QueueIsShort ==
  ASSUME HookTypes, InTurn
  PROVE  NoPileUp
<1> USE HookConstants DEF HookConstants
<1> DEFINE top == LockWait \div Debounce
           low == starting[FALSE]
           Slot == [q \in Queue(FALSE) |-> q[1].wait \div Debounce]
<1>1. top \in Nat /\ low \in {0, 1}
  <2>1. top \in Nat
    BY QuotientsGrow
  <2>2. low \in Nat
    BY DEF HookTypes
  <2>3. low <= 1
    BY DEF InTurn, OneStarts
  <2> HIDE DEF low
  <2> QED
    BY <2>1, <2>2, <2>3
<1>2. ASSUME NEW q \in Queue(FALSE)
      PROVE  q[1] \in Waiting /\ q = <<q[1], 1>> /\ q[1].wait \in 0 .. LockWait
  <2>1. PICK w \in Waits : w.final = FALSE /\ q \in {w} \X (1 .. waiting[w])
    BY DEF Queue
  <2>2. PICK n \in 1 .. waiting[w] : q = <<w, n>>
    BY <2>1
  <2>3. w \in Waiting
    BY <2>1, <2>2 DEF Waiting, HookTypes
  <2>4. waiting[w] = 1 /\ n = 1
    BY <2>2, <2>3 DEF InTurn, WaitsApart
  <2> QED
    BY <2>1, <2>2, <2>3, <2>4 DEF Waits
<1>3. ASSUME NEW q \in Queue(FALSE)
      PROVE  Slot[q] \in low .. top
  <2>1. q[1].wait \in Nat /\ q[1].wait <= LockWait
    <3>1. q[1].wait \in 0 .. LockWait
      BY <1>2
    <3> HIDE DEF Slot
    <3> QED
      BY <3>1
  <2>2. q[1].wait \div Debounce \in Nat /\ q[1].wait \div Debounce <= top
    BY <2>1, QuotientsGrow
  <2>3. CASE low = 0
    BY <1>1, <2>2, <2>3
  <2>4. CASE low = 1
    <3>1. 0 + Debounce <= q[1].wait
      <4>1. starting[FALSE] > 0
        BY <2>4
      <4>2. Debounce <= q[1].wait
        BY <1>2, <4>1, <2>1 DEF InTurn, NextIsApart
      <4> QED
        BY <4>2
    <3>2. 0 \div Debounce < q[1].wait \div Debounce /\ 0 \div Debounce \in Nat
      BY <2>1, <3>1, QuotientsDiffer
    <3> QED
      BY <1>1, <2>2, <2>4, <3>2
  <2> QED
    BY <1>1, <2>3, <2>4
<1>4. ASSUME NEW q \in Queue(FALSE), NEW u \in Queue(FALSE), q # u
      PROVE  Slot[q] # Slot[u]
  <2>1. q[1] # u[1]
    BY <1>2, <1>4
  <2>2. Apart(q[1].wait, u[1].wait)
    BY <1>2, <2>1 DEF InTurn, WaitsApart
  <2>3. q[1].wait \in 0 .. LockWait /\ u[1].wait \in 0 .. LockWait
    BY <1>2
  <2>4. q[1].wait \in Nat /\ u[1].wait \in Nat
    <3> HIDE DEF Slot
    <3> QED
      BY <2>3
  <2>5. q[1].wait \div Debounce # u[1].wait \div Debounce
    <3> HIDE DEF Slot
    <3>1. ASSUME NEW a \in Nat, NEW b \in Nat, Apart(a, b)
          PROVE  a \div Debounce # b \div Debounce
      <4>1. CASE a + Debounce <= b
        <5>1. a \div Debounce \in Nat /\ a \div Debounce < b \div Debounce
          BY <4>1, QuotientsDiffer
        <5> QED
          BY <5>1
      <4>2. CASE b + Debounce <= a
        <5>1. b \div Debounce \in Nat /\ b \div Debounce < a \div Debounce
          BY <4>2, QuotientsDiffer
        <5> QED
          BY <5>1
      <4> QED
        BY <3>1, <4>1, <4>2 DEF Apart
    <3> QED
      BY <2>2, <2>4, <3>1
  <2> QED
    BY <2>5
<1>5. Slot \in Injection(Queue(FALSE), low .. top)
  <2>1. Slot \in [Queue(FALSE) -> low .. top]
    BY <1>3
  <2> HIDE DEF Slot
  <2> QED
    BY <1>4, <2>1 DEF Injection, IsInjective
<1> HIDE DEF Slot, low, top
<1>6. IsFiniteSet(low .. top) /\ Cardinality(low .. top) <= top - low + 1
  <2>1. IsFiniteSet(low .. top) /\ Cardinality(low .. top) = IF low > top THEN 0 ELSE top - low + 1
    BY <1>1, FS_Interval
  <2> QED
    BY <1>1, <2>1
<1>7. IsFiniteSet(Queue(FALSE)) /\ Cardinality(Queue(FALSE)) <= Cardinality(low .. top)
  BY <1>5, <1>6, FS_Injection
<1>8. Cardinality(Queue(FALSE)) \in Nat /\ Cardinality(low .. top) \in Nat
  BY <1>6, <1>7, FS_CardinalityType
<1>9. Count(FALSE) = low + Cardinality(Queue(FALSE))
  BY DEF Count, low
<1>10. Count(FALSE) <= top + 1
  <2> DEFINE queued == Cardinality(Queue(FALSE))
             room == Cardinality(low .. top)
  <2>1. queued \in Nat /\ room \in Nat /\ queued <= room /\ room <= top - low + 1
    BY <1>6, <1>7, <1>8
  <2> HIDE DEF queued, room
  <2>2. low + queued <= top + 1
    BY <1>1, <2>1
  <2> QED
    BY <1>9, <2>2 DEF queued
<1> QED
  BY <1>10 DEF NoPileUp, top

-----------------------------------------------------------------------------
(* The steps                                                                *)

LEMMA QueueInit == Init => QueueInv
<1> SUFFICES ASSUME Init
             PROVE  QueueInv
  OBVIOUS
<1> USE HookConstants DEF HookConstants
<1>1. hook = [s \in Sources |-> NoHook] /\ markAge = Never
  BY DEF Init
<1>2. starting = [final \in BOOLEAN |-> 0] /\ waiting = [w \in Waits |-> 0]
  BY DEF Init
<1>3. \A s \in Sources : hook[s] = NoHook /\ ~Going(s) /\ ~Starts(s)
  BY <1>1 DEF Going, Starts, NoHook
<1>4. Waiting = {}
  BY <1>2 DEF Waiting
<1>5. HookTypes
  BY <1>1, <1>2 DEF HookTypes, NoHook, Never, Events, HookEvents
<1>6. starting[FALSE] = 0
  BY <1>2
<1>7. InTurn
  BY <1>1, <1>3, <1>4, <1>6 DEF InTurn, OneGoes, MarkIsYoung, OneStarts, WaitsApart, NextIsApart, NoHook
<1> QED
  BY <1>5, <1>7 DEF QueueInv

(* No step touches what a publish waits for but these: ...                   *)
Untouched == hook' = hook /\ markAge' = markAge /\ starting' = starting /\ waiting' = waiting

LEMMA Spawned ==
  ASSUME HookTypes, NEW s \in Sources, Spawn(s)
  PROVE  /\ hook[s].event = "SessionEnd" => starting' = [starting EXCEPT ![TRUE] = @ + 1]
         /\ hook[s].event # "SessionEnd" => starting' = [starting EXCEPT ![FALSE] = @ + 1]
<1>1. CASE hook[s].event = "SessionEnd"
  <2>1. (hook[s].event = "SessionEnd") = TRUE
    BY <1>1
  <2> QED
    BY <1>1, <2>1, Zenon DEF Spawn
<1>2. CASE hook[s].event # "SessionEnd"
  <2>1. (hook[s].event = "SessionEnd") = FALSE
    BY <1>2
  <2> QED
    BY <1>2, <2>1, Zenon DEF Spawn
<1> QED
  BY <1>1, <1>2

LEMMA TypesStep ==
  ASSUME HookTypes, [Next]_vars
  PROVE  HookTypes'
<1> USE HookConstants DEF HookConstants
<1>1. CASE Untouched
  BY <1>1 DEF Untouched, HookTypes, Never
<1>2. ASSUME NEW event \in Events, Fire(event), UNCHANGED <<markAge, starting, waiting>>
      PROVE  HookTypes'
  <2>1. hook' \in [Sources -> [pc : {"idle", "look", "mark", "spawn"}, event : Events]]
    BY <1>2 DEF Fire, NoHook, Events, HookEvents
  <2> QED
    BY <1>2, <2>1 DEF HookTypes, Never
<1>3. ASSUME NEW s \in Sources, Look(s)
      PROVE  HookTypes'
  BY <1>3 DEF HookTypes, Look, NoHook, Events, HookEvents, publishes, Never
<1>4. ASSUME NEW s \in Sources, Mark(s)
      PROVE  HookTypes'
  BY <1>4 DEF HookTypes, Mark, publishes, Never
<1>5. ASSUME NEW s \in Sources, Spawn(s)
      PROVE  HookTypes'
  <2>1. hook' \in [Sources -> [pc : {"idle", "look", "mark", "spawn"}, event : Events]]
    BY <1>5 DEF HookTypes, Spawn, NoHook, Events, HookEvents
  <2>2. starting' \in [BOOLEAN -> Nat]
    <3>1. \/ starting' = [starting EXCEPT ![TRUE] = @ + 1]
          \/ starting' = [starting EXCEPT ![FALSE] = @ + 1]
      BY <1>5, Spawned
    <3>2. starting \in [BOOLEAN -> Nat]
      BY DEF HookTypes
    <3>3. \A b \in BOOLEAN : starting[b] + 1 \in Nat
      BY <3>2
    <3>4. ASSUME NEW b \in BOOLEAN, starting' = [starting EXCEPT ![b] = @ + 1]
          PROVE  starting' \in [BOOLEAN -> Nat]
      BY <3>2, <3>3, <3>4
    <3> QED
      BY <3>1, <3>4, Zenon
  <2> QED
    BY <1>5, <2>1, <2>2 DEF HookTypes, Spawn, Never
<1>6. ASSUME NEW final \in BOOLEAN, Begin(final)
      PROVE  HookTypes'
  <2>1. starting' \in [BOOLEAN -> Nat]
    <3>1. starting[final] \in Nat /\ starting[final] > 0
      BY <1>6 DEF HookTypes, Begin
    <3>2. starting[final] - 1 \in Nat
      BY <3>1
    <3> QED
      BY <1>6, <3>2 DEF HookTypes, Begin
  <2>2. waiting' \in [Waits -> Nat]
    <3>1. [final |-> final, wait |-> 0] \in Waits
      BY DEF Waits
    <3>2. waiting[[final |-> final, wait |-> 0]] + 1 \in Nat
      BY <3>1 DEF HookTypes
    <3> QED
      BY <1>6, <3>1, <3>2 DEF HookTypes, Begin
  <2> QED
    BY <1>6, <2>1, <2>2 DEF HookTypes, Begin, Never
<1>7. ASSUME NEW w \in Waits, Leaves(w), UNCHANGED <<hook, markAge, starting>>
      PROVE  HookTypes'
  BY <1>7 DEF HookTypes, Leaves, Never
<1>8. CASE Tick
  <2>1. waiting' \in [Waits -> Nat]
    <3>1. \A w \in Waits : w.wait # 0 => [w EXCEPT !.wait = @ - 1] \in Waits
      BY DEF Waits
    <3> QED
      BY <1>8, <3>1 DEF Tick, HookTypes
  <2>2. markAge' \in 0 .. Never
    BY <1>8 DEF Tick, HookTypes, Older, Never
  <2> QED
    BY <1>8, <2>1, <2>2 DEF HookTypes, Tick, Never
<1> QED
  <2>1. CASE Turn
    BY <1>2, <2>1 DEF Turn, publishes, Events, HookEvents
  <2>2. CASE EndSession
    BY <1>2, <2>2 DEF EndSession, publishes, Events, HookEvents
  <2>3. CASE KillSession \/ Upload \/ Toggle \/ Wires \/ UNCHANGED vars
    BY <1>1, <2>3 DEF KillSession, Upload, Toggle, Wires, vars, hookVars, publishes, Untouched
  <2>4. CASE \E w \in Waits : TakeLock(w) \/ GiveUp(w)
    BY <1>7, <2>4 DEF TakeLock, GiveUp
  <2>5. CASE Fail
    BY <1>1, <1>7, <2>5 DEF Fail, Untouched
  <2> QED
    BY <1>3, <1>4, <1>5, <1>6, <1>8, <2>1, <2>2, <2>3, <2>4, <2>5 DEF Next, HookStep, PublishStep

(* Who waits, waits still or has left; or a new one has come to wait, behind *)
(* all others by Debounce.                                                   *)
LEMMA StillApart ==
  ASSUME HookTypes, HookTypes', WaitsApart, markAge' = markAge,
         \A w \in Waits : waiting'[w] <= waiting[w]
  PROVE  Waiting' \subseteq Waiting /\ WaitsApart'
<1>1. \A w \in Waits : waiting[w] \in Nat /\ waiting'[w] \in Nat
  BY DEF HookTypes
<1>2. Waiting' \subseteq Waiting
  BY <1>1 DEF Waiting
<1>3. \A w \in Waiting' : waiting'[w] = 1
  BY <1>1, <1>2 DEF Waiting, WaitsApart
<1>4. WaitsApart'
  BY <1>2, <1>3 DEF WaitsApart, Apart
<1> QED
  BY <1>2, <1>4

(* A hook that goes past its look finds the mark old, so that nobody is      *)
(* about to start, and who waits has waited for Debounce.                    *)
LEMMA LookStep ==
  ASSUME HookTypes, HookTypes', InTurn, "overlap" \notin mishaps',
         NEW s \in Sources, Look(s)
  PROVE  InTurn'
<1> USE HookConstants DEF HookConstants
<1> DEFINE goes == sharing /\ hook[s].event \in PublishEvents /\ ~Skips(hook[s].event)
<1>1. hook[s].pc = "look" /\ UNCHANGED <<markAge, starting, waiting>>
  BY DEF Look, publishes
<1>2. hook' = [hook EXCEPT ![s] = IF goes THEN [@ EXCEPT !.pc = "mark"] ELSE NoHook]
  BY DEF Look
<1>3. goes => \A t \in Sources : ~Going(t)
  BY DEF Look, Going
<1>4. \A t \in Sources : t # s => hook'[t] = hook[t]
  BY <1>2 DEF HookTypes
<1>5. ~goes => hook'[s] = NoHook
  BY <1>2 DEF HookTypes
<1>6. goes => hook'[s] = [hook[s] EXCEPT !.pc = "mark"]
  BY <1>2 DEF HookTypes
<1>7. hook'[s].pc \in {"idle", "mark"} /\ (goes => hook'[s].event = hook[s].event)
  BY <1>5, <1>6 DEF HookTypes, NoHook
<1>8. goes /\ hook[s].event # "SessionEnd" => markAge >= Debounce
  BY DEF Skips, HookTypes, Never
<1> HIDE DEF goes
<1>9. WaitsApart' /\ Waiting' = Waiting
  BY <1>1 DEF InTurn, WaitsApart, Waiting
<1>10. MarkIsYoung'
  BY <1>1, <1>4, <1>7 DEF InTurn, MarkIsYoung
<1>11. CASE ~goes
  <2>1. \A t \in Sources : (Going(t)' => Going(t)) /\ (Starts(t)' => Starts(t))
    BY <1>4, <1>5, <1>11 DEF Going, Starts, NoHook
  <2>2. OneGoes' /\ OneStarts'
    BY <1>1, <2>1 DEF InTurn, OneGoes, OneStarts
  <2>3. NextIsApart'
    BY <1>1, <1>9, <2>1 DEF InTurn, NextIsApart
  <2> QED
    BY <1>9, <1>10, <2>2, <2>3 DEF InTurn
<1>12. CASE goes
  <2>1. \A t \in Sources : Going(t)' => t = s
    BY <1>3, <1>4, <1>12 DEF Going
  <2>2. OneGoes'
    BY <2>1 DEF OneGoes
  <2>3. CASE hook[s].event = "SessionEnd"
    <3>1. \A t \in Sources : ~Starts(t)'
      BY <1>7, <1>12, <2>1, <2>3 DEF Starts, Going
    <3>2. OneStarts' /\ NextIsApart'
      BY <1>1, <1>9, <3>1 DEF InTurn, OneStarts, NextIsApart
    <3> QED
      BY <1>9, <1>10, <2>2, <3>2 DEF InTurn
  <2>4. CASE hook[s].event # "SessionEnd"
    <3>1. markAge >= Debounce /\ markAge \in Nat
      BY <1>8, <1>12, <2>4 DEF HookTypes, Never
    <3>2. starting[FALSE] = 0
      <4>1. markAge # 0
        BY <3>1
      <4>2. ~(starting[FALSE] > 0)
        BY <4>1, Zenon DEF InTurn, MarkIsYoung
      <4>3. \A b \in BOOLEAN : starting[b] \in Nat
        BY DEF HookTypes
      <4>4. starting[FALSE] \in Nat
        BY <4>3, Zenon
      <4> DEFINE n == starting[FALSE]
      <4> HIDE DEF n
      <4>5. n \in Nat /\ ~(n > 0) => n = 0
        OBVIOUS
      <4> QED
        BY <4>2, <4>4, <4>5 DEF n
    <3>3. \A w \in Waiting : w.wait >= Debounce
      BY <3>1 DEF InTurn, WaitsApart, Waiting, Waits
    <3>4. OneStarts' /\ NextIsApart'
      BY <1>1, <1>9, <3>2, <3>3 DEF InTurn, OneStarts, NextIsApart
    <3> QED
      BY <1>9, <1>10, <2>2, <3>4 DEF InTurn
  <2> QED
    BY <2>3, <2>4
<1> QED
  BY <1>11, <1>12

LEMMA MarkStep ==
  ASSUME HookTypes, HookTypes', InTurn, NEW s \in Sources, Mark(s)
  PROVE  InTurn'
<1>1. hook[s].pc = "mark" /\ markAge' = 0 /\ UNCHANGED <<starting, waiting>>
  BY DEF Mark, publishes
<1>2. hook' = [hook EXCEPT ![s].pc = "spawn"]
  BY DEF Mark
<1>3. \A t \in Sources : t # s => hook'[t] = hook[t]
  BY <1>2 DEF HookTypes
<1>4. hook'[s].pc = "spawn" /\ hook'[s].event = hook[s].event
  BY <1>2 DEF HookTypes
<1>5. \A t \in Sources : Going(t)' = Going(t) /\ Starts(t)' = Starts(t)
  BY <1>1, <1>3, <1>4 DEF Going, Starts
<1>6. OneGoes' /\ OneStarts'
  BY <1>1, <1>5 DEF InTurn, OneGoes, OneStarts
<1>7. MarkIsYoung'
  BY <1>1 DEF MarkIsYoung
<1>8. Waiting' = Waiting /\ \A w \in Waiting : 0 <= w.wait
  BY <1>1 DEF Waiting, Waits
<1>9. WaitsApart'
  BY <1>1, <1>8 DEF InTurn, WaitsApart
<1>10. NextIsApart'
  BY <1>1, <1>5, <1>8 DEF InTurn, NextIsApart
<1> QED
  BY <1>6, <1>7, <1>9, <1>10 DEF InTurn

LEMMA SpawnStep ==
  ASSUME HookTypes, HookTypes', InTurn, NEW s \in Sources, Spawn(s)
  PROVE  InTurn'
<1>1. hook[s].pc = "spawn" /\ markAge = 0 /\ UNCHANGED <<markAge, waiting>>
  BY DEF Spawn, InTurn, MarkIsYoung
<1>2. hook' = [hook EXCEPT ![s] = NoHook]
  BY DEF Spawn
<1>3. \A t \in Sources : t # s => hook'[t] = hook[t] /\ ~Going(t)
  BY <1>1, <1>2 DEF HookTypes, InTurn, OneGoes, Going
<1>4. hook'[s] = NoHook
  BY <1>2 DEF HookTypes
<1>5. \A t \in Sources : ~Going(t)' /\ ~Starts(t)'
  BY <1>3, <1>4 DEF Going, Starts, NoHook
<1>6. OneGoes'
  BY <1>5 DEF OneGoes
<1>7. Waiting' = Waiting /\ WaitsApart'
  BY <1>1 DEF InTurn, WaitsApart, Waiting
<1>8. MarkIsYoung'
  BY <1>1, <1>5 DEF MarkIsYoung, Going
<1>9. CASE hook[s].event = "SessionEnd"
  <2>1. starting'[FALSE] = starting[FALSE]
    BY <1>9, Spawned DEF HookTypes
  <2>2. OneStarts' /\ NextIsApart'
    BY <1>5, <1>7, <2>1 DEF InTurn, OneStarts, NextIsApart
  <2> QED
    BY <1>6, <1>7, <1>8, <2>2 DEF InTurn
<1>10. CASE hook[s].event # "SessionEnd"
  <2>1. Starts(s)
    BY <1>1, <1>10 DEF Starts, Going
  <2>2. starting[FALSE] = 0
    BY <2>1 DEF InTurn, OneStarts
  <2>3. starting' = [starting EXCEPT ![FALSE] = @ + 1]
    BY <1>10, Spawned
  <2>4. starting'[FALSE] = 1
    BY <2>2, <2>3 DEF HookTypes
  <2>5. OneStarts'
    BY <1>5, <2>4 DEF OneStarts
  <2>6. NextIsApart'
    BY <1>7, <2>1 DEF InTurn, NextIsApart
  <2> QED
    BY <1>6, <1>7, <1>8, <2>5, <2>6 DEF InTurn
<1> QED
  BY <1>9, <1>10

(* A publish that begins to wait is the one the others are Debounce apart    *)
(* from.                                                                     *)
LEMMA BeginStep ==
  ASSUME HookTypes, HookTypes', InTurn, NEW final \in BOOLEAN, Begin(final)
  PROVE  InTurn'
<1> USE HookConstants DEF HookConstants
<1> DEFINE new == [final |-> final, wait |-> 0]
<1>1. hook' = hook /\ markAge' = markAge /\ starting[final] > 0
  BY DEF Begin
<1>2. starting' = [starting EXCEPT ![final] = @ - 1]
  BY DEF Begin
<1>3. waiting' = [waiting EXCEPT ![new] = @ + 1] \/ waiting' = waiting
  BY DEF Begin
<1>4. new \in Waits /\ new.final = final /\ new.wait = 0
  BY DEF Waits
<1>5. \A w \in Waits : w # new => waiting'[w] = waiting[w]
  BY <1>3 DEF HookTypes
<1>6. \A t \in Sources : Going(t)' = Going(t) /\ Starts(t)' = Starts(t)
  BY <1>1 DEF Going, Starts
<1>7. OneGoes'
  BY <1>6 DEF InTurn, OneGoes
<1>8. CASE final = TRUE
  <2>1. starting'[FALSE] = starting[FALSE]
    BY <1>2, <1>8 DEF HookTypes
  <2>2. Waiting' = Waiting /\ \A w \in Waiting : waiting'[w] = waiting[w] /\ w \in Waits
    BY <1>4, <1>5, <1>8 DEF Waiting
  <2>3. WaitsApart'
    BY <1>1, <2>2 DEF InTurn, WaitsApart
  <2>4. OneStarts' /\ MarkIsYoung' /\ NextIsApart'
    BY <1>1, <1>6, <2>1, <2>2 DEF InTurn, OneStarts, MarkIsYoung, NextIsApart
  <2> QED
    BY <1>7, <2>3, <2>4 DEF InTurn
<1>9. CASE final = FALSE
  <2>1. starting[FALSE] > 0
    BY <1>1, <1>9, Zenon
  <2>2. markAge = 0 /\ \A w \in Waiting : w.wait >= Debounce
    BY <2>1 DEF InTurn, MarkIsYoung, NextIsApart
  <2>3. starting'[FALSE] = 0
    <3> DEFINE n == starting[FALSE]
    <3>1. \A b \in BOOLEAN : starting[b] \in Nat
      BY DEF HookTypes
    <3>2. n \in Nat /\ n > 0 /\ n <= 1
      BY <2>1, <3>1 DEF InTurn, OneStarts
    <3>3. starting'[FALSE] = n - 1
      BY <1>2, <1>9 DEF HookTypes
    <3> HIDE DEF n
    <3>4. n - 1 = 0
      BY <3>2
    <3> QED
      BY <3>3, <3>4
  <2>4. ~(starting'[FALSE] > 0)
    BY <2>3
  <2>5. \A s \in Sources : ~Starts(s)
    <3>1. starting[FALSE] # 0
      <4>1. ~(0 > 0)
        OBVIOUS
      <4> QED
        BY <2>1, <4>1, Zenon
    <3> QED
      BY <3>1 DEF InTurn, OneStarts
  <2>6. OneStarts' /\ MarkIsYoung' /\ NextIsApart'
    BY <1>1, <1>6, <2>2, <2>3, <2>4, <2>5 DEF InTurn, OneStarts, MarkIsYoung, NextIsApart
  <2>7. waiting[new] = 0
    <3>1. new \notin Waiting
      BY <1>4, <2>2
    <3>2. waiting[new] \in Nat
      BY <1>4 DEF HookTypes
    <3> QED
      BY <1>4, <1>9, <3>1, <3>2 DEF Waiting
  <2>8. waiting'[new] \in {0, 1}
    BY <1>3, <1>4, <2>7 DEF HookTypes
  <2>9. Waiting' \subseteq Waiting \cup {new}
    BY <1>5 DEF Waiting
  <2>10. \A w \in Waiting' : waiting'[w] = 1 /\ markAge' <= w.wait
    <3>1. \A w \in Waiting' : w = new => waiting'[w] = 1 /\ markAge' <= w.wait
      BY <1>1, <1>4, <2>2, <2>8 DEF Waiting
    <3>2. \A w \in Waiting' : w # new => waiting'[w] = 1 /\ markAge' <= w.wait
      BY <1>1, <1>5, <2>9 DEF InTurn, WaitsApart, Waiting
    <3> QED
      BY <3>1, <3>2
  <2>11. \A v, w \in Waiting' : v # w => Apart(v.wait, w.wait)
    <3>1. \A w \in Waiting : Apart(new.wait, w.wait) /\ Apart(w.wait, new.wait)
      BY <1>4, <2>2 DEF Apart, Waiting, Waits
    <3>2. \A v, w \in Waiting : v # w => Apart(v.wait, w.wait)
      BY DEF InTurn, WaitsApart
    <3> QED
      BY <2>9, <3>1, <3>2
  <2>12. WaitsApart'
    BY <2>10, <2>11 DEF WaitsApart, Apart
  <2> QED
    BY <1>7, <2>6, <2>12 DEF InTurn
<1> QED
  BY <1>8, <1>9

LEMMA LeavesStep ==
  ASSUME HookTypes, HookTypes', InTurn, NEW w \in Waits, Leaves(w),
         UNCHANGED <<hook, markAge, starting>>
  PROVE  InTurn'
<1>1. \A v \in Waits : waiting'[v] <= waiting[v]
  <2>1. waiting' = [waiting EXCEPT ![w] = @ - 1]
    BY DEF Leaves
  <2>2. \A v \in Waits : waiting[v] \in Nat
    BY DEF HookTypes
  <2> QED
    BY <2>1, <2>2 DEF HookTypes
<1>2. Waiting' \subseteq Waiting /\ WaitsApart'
  BY <1>1, StillApart DEF InTurn
<1>3. \A t \in Sources : Going(t)' = Going(t) /\ Starts(t)' = Starts(t)
  BY DEF Going, Starts
<1> QED
  BY <1>2, <1>3 DEF InTurn, OneGoes, MarkIsYoung, OneStarts, NextIsApart

(* All waits grow by the same, and the mark ages no faster.                  *)
LEMMA TickStep ==
  ASSUME HookTypes, HookTypes', InTurn, Tick
  PROVE  InTurn'
<1> USE HookConstants DEF HookConstants
<1>1. hook' = hook /\ starting' = starting /\ (\A s \in Sources : hook[s].pc = "idle")
  BY DEF Tick, Hooking
<1>2. \A s \in Sources : ~Going(s)' /\ ~Starts(s)' /\ hook'[s].pc # "spawn"
  BY <1>1 DEF Going, Starts
<1>3. starting'[FALSE] = 0
  BY <1>1 DEF Tick
<1>4. ~(starting'[FALSE] > 0)
  BY <1>3
<1>5. OneGoes' /\ OneStarts' /\ MarkIsYoung' /\ NextIsApart'
  BY <1>2, <1>3, <1>4 DEF OneGoes, OneStarts, MarkIsYoung, NextIsApart
<1>6. \A w \in Waiting' : \E v \in Waiting : /\ v = [w EXCEPT !.wait = @ - 1]
                                             /\ v.wait + 1 = w.wait
                                             /\ waiting'[w] = waiting[v]
  <2> SUFFICES ASSUME NEW w \in Waiting'
               PROVE  \E v \in Waiting : /\ v = [w EXCEPT !.wait = @ - 1]
                                         /\ v.wait + 1 = w.wait
                                         /\ waiting'[w] = waiting[v]
    OBVIOUS
  <2> DEFINE v == [w EXCEPT !.wait = @ - 1]
  <2>1. w \in Waits /\ ~w.final /\ waiting'[w] > 0
    BY DEF Waiting
  <2>2. w.wait # 0 /\ waiting'[w] = waiting[v]
    BY <2>1 DEF Tick
  <2>3. v \in Waits /\ v.final = w.final /\ v.wait + 1 = w.wait
    BY <2>1, <2>2 DEF Waits
  <2>4. v \in Waiting
    BY <2>1, <2>2, <2>3 DEF Waiting
  <2> QED
    BY <2>2, <2>3, <2>4
<1>7. \A w \in Waiting' : waiting'[w] = 1 /\ markAge' <= w.wait
  <2>1. markAge' <= markAge + 1 /\ markAge \in Nat /\ markAge' \in Nat
    BY DEF Tick, Older, HookTypes, Never
  <2>2. \A v \in Waiting : waiting[v] = 1 /\ markAge <= v.wait /\ v.wait \in Nat
    BY DEF InTurn, WaitsApart, Waiting, Waits
  <2> QED
    BY <1>6, <2>1, <2>2
<1>8. ASSUME NEW w \in Waiting', NEW u \in Waiting', w # u
      PROVE  Apart(w.wait, u.wait)
  <2>1. PICK v \in Waiting : v = [w EXCEPT !.wait = @ - 1] /\ v.wait + 1 = w.wait
    BY <1>6
  <2>2. PICK x \in Waiting : x = [u EXCEPT !.wait = @ - 1] /\ x.wait + 1 = u.wait
    BY <1>6
  <2>3. v.wait \in Nat /\ x.wait \in Nat
    BY DEF Waiting, Waits
  <2>4. w.wait # u.wait
    BY <1>8 DEF Waiting, Waits
  <2>5. Apart(v.wait, x.wait)
    BY <2>1, <2>2, <2>3, <2>4 DEF InTurn, WaitsApart
  <2> QED
    BY <2>1, <2>2, <2>3, <2>5 DEF Apart
<1>9. WaitsApart'
  BY <1>7, <1>8 DEF WaitsApart, Apart
<1> QED
  BY <1>5, <1>9 DEF InTurn

(* The editor fires only when no hook is under way.                          *)
LEMMA FireStep ==
  ASSUME HookTypes, HookTypes', InTurn, NEW event \in Events, Fire(event),
         UNCHANGED <<markAge, starting, waiting>>
  PROVE  InTurn'
<1>1. \A s \in Sources : hook'[s].pc \in {"look", "idle"}
  BY DEF Fire, NoHook
<1>2. \A s \in Sources : ~Going(s)' /\ ~Starts(s)'
  BY <1>1 DEF Going, Starts
<1>3. Waiting' = Waiting /\ WaitsApart'
  BY DEF InTurn, WaitsApart, Waiting
<1>4. OneGoes' /\ OneStarts' /\ MarkIsYoung' /\ NextIsApart'
  BY <1>1, <1>2, <1>3 DEF InTurn, OneGoes, OneStarts, MarkIsYoung, NextIsApart, Going
<1> QED
  BY <1>3, <1>4 DEF InTurn

LEMMA UntouchedStep ==
  ASSUME InTurn, Untouched
  PROVE  InTurn'
<1>1. Waiting' = Waiting /\ \A s \in Sources : Going(s)' = Going(s) /\ Starts(s)' = Starts(s)
  BY DEF Untouched, Waiting, Going, Starts
<1> QED
  BY <1>1 DEF Untouched, InTurn, OneGoes, OneStarts, MarkIsYoung, WaitsApart, NextIsApart

(* The session, the upload and the history. *)
SessionTypes ==
    /\ plugin \in BOOLEAN /\ session \in {"running", "ended"}
    /\ length \in 0 .. MaxLength /\ published \in 0 .. length /\ sharing \in BOOLEAN
    /\ stateAge \in 0 .. Never
    /\ upload \in [on : BOOLEAN, to : 0 .. length]
    /\ troubles \in 0 .. MaxTroubles /\ mishaps \subseteq Mishaps

LEMMA SessionStep ==
  ASSUME SessionTypes, [Next]_vars
  PROVE  SessionTypes'
<1> USE HookConstants DEF HookConstants
<1>1. CASE Turn
  BY <1>1 DEF SessionTypes, Turn, Fire, Suffers, publishes, Mishaps, Never
<1>2. CASE EndSession
  BY <1>2 DEF SessionTypes, EndSession, Fire, Suffers, publishes, Mishaps, Never
<1>3. CASE KillSession
  BY <1>3 DEF SessionTypes, KillSession, Suffers, Trouble, publishes, Mishaps, Never
<1>4. ASSUME NEW s \in Sources, HookStep(s)
      PROVE  SessionTypes'
  BY <1>4 DEF SessionTypes, HookStep, Look, Mark, Spawn, Aside, publishes, Mishaps, Never
<1>5. ASSUME NEW final \in BOOLEAN, Begin(final)
      PROVE  SessionTypes'
  BY <1>5 DEF SessionTypes, Begin, Suffers, Aside, Mishaps, Never
<1>6. ASSUME NEW w \in Waits, TakeLock(w) \/ GiveUp(w)
      PROVE  SessionTypes'
  <2>1. CASE TakeLock(w)
    BY <2>1 DEF SessionTypes, TakeLock, Aside, Never
  <2>2. CASE GiveUp(w)
    BY <2>2 DEF SessionTypes, GiveUp, Suffers, Aside, Mishaps, Never
  <2> QED
    BY <1>6, <2>1, <2>2
<1>7. CASE Upload
  <2>1. published' \in 0 .. length /\ stateAge' \in 0 .. Never
    BY <1>7 DEF SessionTypes, Upload, Never
  <2> QED
    BY <1>7, <2>1 DEF SessionTypes, Upload, NoUpload, Never
<1>8. CASE Fail
  <2>1. upload' = NoUpload \/ upload' = upload
    BY <1>8 DEF Fail
  <2>2. UNCHANGED <<plugin, session, length, published, sharing, stateAge>>
    BY <1>8 DEF Fail, Aside
  <2>3. mishaps' \subseteq Mishaps /\ troubles' \in 0 .. MaxTroubles
    BY <1>8 DEF SessionTypes, Fail, Suffers, Trouble, Mishaps
  <2>4. upload' \in [on : BOOLEAN, to : 0 .. length]
    <3>1. NoUpload \in [on : BOOLEAN, to : 0 .. length]
      BY DEF SessionTypes, NoUpload
    <3> QED
      BY <2>1, <3>1 DEF SessionTypes
  <2> QED
    BY <2>2, <2>3, <2>4 DEF SessionTypes, Never
<1>9. CASE Tick
  BY <1>9 DEF SessionTypes, Tick, Aside, Older, Never
<1>10. CASE Toggle
  <2>1. sharing' \in BOOLEAN
    BY <1>10, Zenon DEF Toggle
  <2> QED
    BY <1>10, <2>1 DEF SessionTypes, Toggle, Trouble, publishes, Never
<1>11. CASE Wires \/ UNCHANGED vars
  BY <1>11 DEF SessionTypes, Wires, vars, hookVars, Never
<1> QED
  BY <1>1, <1>2, <1>3, <1>4, <1>5, <1>6, <1>7, <1>8, <1>9, <1>10, <1>11 DEF Next, PublishStep

(* The settings, the hooks, what waits and the upload stay of their kinds,   *)
(* and no upload goes further than the transcript does.                      *)
THEOREM TypeCorrect == Spec => []TypeOK
<1> DEFINE Types == SettingsTypeOK /\ HookTypes /\ SessionTypes
<1>1. Init => Types
  <2>1. Init => SettingsTypeOK /\ HookTypes
    BY SettingsStart, QueueInit DEF Init, QueueInv
  <2>2. Init => SessionTypes
    BY HookConstants DEF HookConstants, Init, SessionTypes, NoUpload, Never
  <2> QED
    BY <2>1, <2>2
<1>2. Types /\ [Next]_vars => Types'
  BY SettingsApart, SettingsStep, TypesStep, SessionStep
<1>3. Types => TypeOK
  BY DEF TypeOK, HookTypes, SessionTypes
<1> QED
  BY <1>1, <1>2, <1>3, PTL DEF Spec

-----------------------------------------------------------------------------
LEMMA QueueStep ==
  ASSUME QueueInv, [Next]_vars
  PROVE  QueueInv'
<1>1. HookTypes /\ HookTypes'
  BY TypesStep DEF QueueInv
<1>2. "overlap" \in mishaps => "overlap" \in mishaps'
  BY DEF Next, Turn, EndSession, KillSession, Fire, HookStep, Look, Mark, Spawn, PublishStep, Begin,
         TakeLock, GiveUp, Upload, Fail, Tick, Toggle, Wires, Suffers, vars, hookVars
<1>3. ASSUME "overlap" \notin mishaps'
      PROVE  InTurn'
  <2>1. InTurn
    BY <1>2, <1>3 DEF QueueInv
  <2>2. CASE Turn
    BY <1>1, <2>1, <2>2, FireStep DEF Turn, publishes, Events, HookEvents
  <2>3. CASE EndSession
    BY <1>1, <2>1, <2>3, FireStep DEF EndSession, publishes, Events, HookEvents
  <2>4. CASE KillSession \/ Upload \/ Toggle \/ Wires \/ UNCHANGED vars
    BY <2>1, <2>4, UntouchedStep
       DEF KillSession, Upload, Toggle, Wires, vars, hookVars, publishes, Untouched
  <2>5. ASSUME NEW s \in Sources, HookStep(s)
        PROVE  InTurn'
    BY <1>1, <1>3, <2>1, <2>5, LookStep, MarkStep, SpawnStep DEF HookStep
  <2>6. ASSUME NEW final \in BOOLEAN, Begin(final)
        PROVE  InTurn'
    BY <1>1, <2>1, <2>6, BeginStep
  <2>7. ASSUME NEW w \in Waits, TakeLock(w) \/ GiveUp(w)
        PROVE  InTurn'
    BY <1>1, <2>1, <2>7, LeavesStep DEF TakeLock, GiveUp
  <2>8. CASE Fail
    BY <1>1, <2>1, <2>8, LeavesStep, UntouchedStep DEF Fail, Untouched
  <2>9. CASE Tick
    BY <1>1, <2>1, <2>9, TickStep
  <2> QED
    BY <2>2, <2>3, <2>4, <2>5, <2>6, <2>7, <2>8, <2>9 DEF Next, PublishStep
<1> QED
  BY <1>1, <1>3 DEF QueueInv

(* The publishes that Stop starts and that wait behind an upload are at most *)
(* one for each Debounce in LockWait and the next (hook_entry.py:88), unless *)
(* two hooks looked at the mark before either had left it.                   *)
THEOREM NoPileUpAlways == Spec => []NoPileUp
<1>1. Init => QueueInv
  BY QueueInit
<1>2. QueueInv /\ [Next]_vars => QueueInv'
  BY QueueStep
<1>3. QueueInv => NoPileUp
  BY QueueIsShort DEF QueueInv, NoPileUp
<1> QED
  BY <1>1, <1>2, <1>3, PTL DEF Spec
=============================================================================
