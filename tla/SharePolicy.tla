----------------------------- MODULE SharePolicy -----------------------------
(***************************************************************************)
(* May a session be shared, and where would its bytes go?                  *)
(* ezchangelog/share.py (resolve and what it calls) and config.py          *)
(* (load_config), as operators on the files they read.                     *)
(*                                                                         *)
(* Directories are numbered from the session's own, 1, outwards.  A tree   *)
(* says what .ez/config.json each of them holds.  A config is as much of   *)
(* the document as decisions depend on, its share policy and its store; a  *)
(* fingerprint of the document is the document itself.                     *)
(***************************************************************************)
EXTENDS Integers, FiniteSets

CONSTANTS
    Depth,              \* directories from the session's to the root
    Stores,             \* places that bytes can go to
    DefaultStore,       \* DEFAULT_STORE_URL
    NoStore             \* "" for a store

ASSUME PolicyConstants ==
    /\ Depth \in Nat \ {0}
    /\ DefaultStore \in Stores
    /\ NoStore \notin Stores

Dirs == 1 .. Depth
Modes == {"always", "ask", "never"}             \* SHARE_MODES
Restriction == [always |-> 0, ask |-> 1, never |-> 2]

Config == [ez : BOOLEAN, share : Modes \cup {"unset"}, store : Stores \cup {NoStore}]

(* A directory without .ez; and what a missing, unreadable or malformed      *)
(* config.json in an .ez directory reads as.                                 *)
NoEz == [ez |-> FALSE, share |-> "unset", store |-> NoStore]
Empty == [NoEz EXCEPT !.ez = TRUE]

Tree == [Dirs -> Config]

-----------------------------------------------------------------------------
(* The policy that governs                                                  *)

(* policy_chain: the directories whose config declares a policy. *)
PolicyChain(tree) == {d \in Dirs : tree[d].share \in Modes}

(* A wrong version: ties go to the nearest. *)
TiesToNearest(tree) ==
    {d \in PolicyChain(tree) : \A e \in PolicyChain(tree) :
       \/ Restriction[tree[d].share] > Restriction[tree[e].share]
       \/ Restriction[tree[d].share] = Restriction[tree[e].share] /\ d <= e}

(* most_restrictive: the strictest policy of the chain, ties to the          *)
(* outermost.  (A set with at most one element.)                             *)
MostRestrictive(tree) ==
    {d \in PolicyChain(tree) : \A e \in PolicyChain(tree) :
       \/ Restriction[tree[d].share] > Restriction[tree[e].share]
       \/ Restriction[tree[d].share] = Restriction[tree[e].share] /\ d >= e}

(* effective_policy: the mode that governs, or "unset". *)
EffectiveMode(tree) ==
    IF MostRestrictive(tree) = {} THEN "unset"
    ELSE CHOOSE m \in Modes : \E d \in MostRestrictive(tree) : tree[d].share = m

(* find_repo: the nearest directory with an .ez.  (A repository that has only*)
(* a .git has no config to read.)                                            *)
FindRepo(tree) == {d \in Dirs : tree[d].ez /\ \A e \in Dirs : tree[e].ez => d <= e}
NearestConfig(tree) ==
    IF FindRepo(tree) = {} THEN NoEz ELSE tree[CHOOSE d \in FindRepo(tree) : TRUE]

-----------------------------------------------------------------------------
(* Acknowledgement                                                          *)

(* An acknowledgement file is absent, or names the text it accepted.  (One   *)
(* that a check cannot use counts as one for some other text.)               *)
NoAck == [ez |-> FALSE, share |-> "no ack", store |-> NoStore]
Ack == Config \cup {NoAck}

(* A wrong version of AckStatus, for which accepting a directory is enough. *)
AckStatusByPath(config, ack) ==
    IF config.share \notin Modes \/ ack = NoAck THEN "none" ELSE "valid"

(* ack_status of a repository whose config now reads as given. *)
AckStatus(config, ack) ==
    IF config.share \notin Modes \/ ack = NoAck THEN "none"
    ELSE IF ack = config THEN "valid" ELSE "stale"

-----------------------------------------------------------------------------
(* The decision                                                             *)

Markers == {"on", "off", "unset"}

Off(source) == [sharing |-> FALSE, source |-> source]
On(source) == [sharing |-> TRUE, source |-> source]
Decision == [sharing : BOOLEAN, source : {"session", "repo", "default"}]

(* _resolve: the marker unless the policy says never, then the policy, which *)
(* needs a valid acknowledgement to switch sharing on, then off.             *)
Resolve(marker, mode, status) ==
    IF marker = "on" THEN IF mode = "never" THEN Off("repo") ELSE On("session")
    ELSE IF marker = "off" THEN Off("session")
    ELSE IF mode = "always" THEN IF status = "valid" THEN On("repo") ELSE Off("repo")
    ELSE IF mode = "unset" THEN Off("default")
    ELSE Off("repo")

(* set_session: only turning on can be refused. *)
MaySetSession(on, tree) == on => EffectiveMode(tree) # "never"

(* _sync_refusal: what was decided stays decided, what nobody decided may be *)
(* shared by hand.                                                           *)
SyncRefused(decision, tree) ==
    /\ ~decision.sharing
    /\ \/ decision.source = "session"
       \/ EffectiveMode(tree) = "never"

-----------------------------------------------------------------------------
(* The destination                                                          *)

(* load_config: the environment's or the machine's store, else the nearest   *)
(* repository's, else the default one.                                       *)
LoadConfig(machine, tree) ==
    IF machine # NoStore THEN machine
    ELSE IF NearestConfig(tree).store # NoStore THEN NearestConfig(tree).store
    ELSE DefaultStore
=============================================================================
