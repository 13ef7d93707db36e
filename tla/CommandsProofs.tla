--------------------------- MODULE CommandsProofs ---------------------------
(***************************************************************************)
(* Proofs about the commands that Commands composes: the secrets of the    *)
(* user, the way from answers to a preservation plan, and grouping.  The   *)
(* last section carries these, and what CleanupPlanningProofs and          *)
(* CreatorCapabilityProofs prove, over to a behaviour of Commands.         *)
(***************************************************************************)
EXTENDS Commands, CreatorCapabilityProofs, CleanupPlanningProofs,
        FiniteSetTheorems, WellFoundedInduction, TLAPS

----------------------------------------------------------------------------
(* LocalSecrets, for any number of processes, leases and ticks: no two     *)
(* processes ever hold different keys, and a token that was cleared is not *)
(* handed out to a read that began after the clear.                        *)
(*                                                                         *)
(* The key file: whoever created it is alone to write it, and while it is  *)
(* empty nobody can hold a key.                                            *)

Places == {"none", "create", "created", "opened", "ready", "refused"}

KeyTyped ==
  /\ keyFile \in {"missing", "empty"} \cup Users
  /\ signing \in [Users -> Places]
  /\ holds \in [Users -> Users \cup {NoSecret}] /\ signed \subseteq Users

\* At most one process is between the creation and the write, and the file is empty.
OneWriter ==
  \A u \in Users : signing[u] = "created" =>
    /\ keyFile = "empty"
    /\ \A v \in Users : signing[v] = "created" => v = u

OpenedExists == \A u \in Users : signing[u] = "opened" => keyFile # "missing"

ReadyHolds == \A u \in Users : signing[u] = "ready" => holds[u] # NoSecret

KeyInv ==
  /\ KeyTyped /\ OneWriter /\ OpenedExists /\ ReadyHolds
  /\ KeysAgree

KeyStep ==
  \E u \in Users :
    \/ CreateKey(u) \/ WriteKey(u) \/ ReadKey(u) \/ Sign(u) \/ LeaveKey(u)
    \/ \E create \in BOOLEAN : OpenKey(u, create)

LeaseStep ==
  \/ Elapse
  \/ \E u \in Users :
       \/ LookUp(u) \/ CheckLease(u) \/ FindItem(u) \/ DeleteItem(u) \/ AddItem(u)
       \/ \E what \in {"read", "clear", "store"} : StartAsk(u, what)

\* The key and the token, interleaved freely: without the bound of SecretsNext.
SecretsSpec == SecretsInit /\ [][KeyStep \/ LeaseStep]_secretVars

\* The behaviours that TLC explores, each about the key or about the token, are some of these.
THEOREM RunsAreIncluded == SecretsInit /\ [][SecretsNext]_secretVars => SecretsSpec
  <1>1. [SecretsNext]_secretVars => [KeyStep \/ LeaseStep]_secretVars
    BY Zenon DEF SecretsNext, KeyStep, LeaseStep
  <1>2. QED
    BY <1>1, PTL DEF SecretsSpec

LEMMA KeyStepLeavesLease ==
  ASSUME KeyStep
  PROVE  UNCHANGED leaseState
  BY DEF KeyStep, CreateKey, WriteKey, ReadKey, Sign, LeaveKey, OpenKey, leaseState

LEMMA LeaseStepLeavesKey ==
  ASSUME LeaseStep
  PROVE  UNCHANGED keyState
  BY DEF LeaseStep, Elapse, LookUp, CheckLease, FindItem, DeleteItem, AddItem, StartAsk, keyState

LEMMA KeyInvInit ==
  ASSUME SecretsInit
  PROVE  KeyInv
  BY DEF SecretsInit, KeyInv, KeyTyped, OneWriter, OpenedExists, ReadyHolds, KeysAgree, Places

LEMMA KeyInvStutters ==
  ASSUME KeyInv, UNCHANGED keyState
  PROVE  KeyInv'
  BY DEF keyState, KeyInv, KeyTyped, OneWriter, OpenedExists, ReadyHolds, KeysAgree

\* While the file is missing or empty nobody holds a key and nothing was signed:
\* what makes the write of a new key harmless.
LEMMA NoKeyYet ==
  ASSUME KeyInv, keyFile \notin Users
  PROVE  /\ \A u \in Users : holds[u] = NoSecret /\ signing[u] # "ready"
         /\ signed = {}
  BY DEF KeyInv, KeyTyped, ReadyHolds, KeysAgree

LEMMA KeyInvNext ==
  ASSUME KeyInv, KeyStep
  PROVE  KeyInv'
  <1> USE SecretsAssumption
      DEF KeyInv, KeyTyped, OneWriter, OpenedExists, ReadyHolds, KeysAgree, Places, Goes, Takes
  <1>1. ASSUME NEW u \in Users, NEW create \in BOOLEAN, OpenKey(u, create) PROVE KeyInv'
    BY <1>1 DEF OpenKey
  <1>2. ASSUME NEW u \in Users, CreateKey(u) PROVE KeyInv'
    <2>1. CASE keyFile = "missing"
      <3>1. \A v \in Users : signing[v] \notin {"created", "opened", "ready"}
        BY <2>1, NoKeyYet
      <3>2. /\ keyFile' = "empty" /\ signing' = [signing EXCEPT ![u] = "created"]
            /\ UNCHANGED <<holds, signed>>
        BY <1>2, <2>1 DEF CreateKey
      <3>3. /\ signed = {} /\ \A v \in Users : holds[v] = NoSecret
        BY <2>1, NoKeyYet
      <3>4. QED
        BY <3>1, <3>2, <3>3
    <2>2. CASE keyFile # "missing"
      BY <1>2, <2>2 DEF CreateKey
    <2>3. QED
      BY <2>1, <2>2
  <1>3. ASSUME NEW u \in Users, WriteKey(u) PROVE KeyInv'
    <2>1. keyFile \notin Users
      BY <1>3 DEF WriteKey
    <2>2. QED
      BY <1>3, <2>1, NoKeyYet DEF WriteKey
  <1>4. ASSUME NEW u \in Users, ReadKey(u) PROVE KeyInv'
    BY <1>4 DEF ReadKey
  <1>5. ASSUME NEW u \in Users, Sign(u) PROVE KeyInv'
    BY <1>5 DEF Sign
  <1>6. ASSUME NEW u \in Users, LeaveKey(u) PROVE KeyInv'
    BY <1>6 DEF LeaveKey
  <1>7. QED
    BY <1>1, <1>2, <1>3, <1>4, <1>5, <1>6 DEF KeyStep

\* No two processes of the user ever hold different keys, and every receipt they
\* signed verifies with the key that lies in the file (_presence_key).
THEOREM KeysNeverDiffer == SecretsSpec => []KeysAgree
  <1>1. ASSUME KeyInv, [KeyStep \/ LeaseStep]_secretVars PROVE KeyInv'
    BY <1>1, KeyInvNext, LeaseStepLeavesKey, KeyInvStutters DEF secretVars
  <1>2. KeyInv => KeysAgree
    BY DEF KeyInv
  <1>3. QED
    BY KeyInvInit, <1>1, <1>2, PTL DEF SecretsSpec

----------------------------------------------------------------------------
(* The token.  A clear that succeeded left the keychain without any lease  *)
(* that was stored before it began, and what a read found carries over.    *)

Leases == [lease : Nat, expires : Nat]

Asks == [does : {"none", "read", "clear", "store"},
         at : {"none", "look", "check", "find", "delete", "add"},
         issued : Nat, item : Leases \cup {NoSecret}, floor : Nat, newest : Nat]

LeaseTyped ==
  /\ clock \in Nat /\ stored \in Nat /\ revoked \in 0 .. stored
  /\ keychain \in Leases \cup {NoSecret}
  /\ asks \in [Users -> Asks]

\* The item in the keychain is newer than every clear that succeeded.
ItemIsNewer ==
  keychain # NoSecret => keychain.lease > revoked /\ keychain.lease <= stored

\* What a command noted when it began is not ahead of the leases and clears there were.
NotesAreOld ==
  \A u \in Users : asks[u].floor <= revoked /\ asks[u].newest <= stored

\* What a read found is newer than every clear that succeeded before it began.
FoundIsNewer ==
  \A u \in Users : asks[u].at = "check" =>
    asks[u].item \in Leases /\ asks[u].item.lease > asks[u].floor

LeaseInv == LeaseTyped /\ ItemIsNewer /\ NotesAreOld /\ FoundIsNewer /\ OnlyLiveTokens

LEMMA LeaseInvInit ==
  ASSUME SecretsInit
  PROVE  LeaseInv
  BY DEF SecretsInit, Idling, LeaseInv, LeaseTyped, Asks, ItemIsNewer, NotesAreOld,
         FoundIsNewer, OnlyLiveTokens

LEMMA LeaseInvStutters ==
  ASSUME LeaseInv, UNCHANGED leaseState
  PROVE  LeaseInv'
  BY DEF leaseState, LeaseInv, LeaseTyped, ItemIsNewer, NotesAreOld, FoundIsNewer, OnlyLiveTokens

\* A clear that succeeded raises the mark to the newest lease there was when it began,
\* and harms nothing when the keychain is empty after it.
LEMMA ClearingIsSafe ==
  ASSUME LeaseInv, NEW u \in Users, Cleared(u), keychain' = NoSecret,
         UNCHANGED <<clock, stored, handed>>
  PROVE  LeaseInv'
  <1> USE DEF LeaseInv, LeaseTyped
  <1>1. asks[u] \in Asks /\ asks[u].newest \in 0 .. stored
    BY DEF NotesAreOld, Asks
  <1>2. revoked' \in revoked .. stored
    BY <1>1 DEF Cleared
  <1>3. PICK record \in Asks : /\ record.at # "check" /\ record.floor <= revoked
                               /\ record.newest <= stored
                               /\ asks' = [asks EXCEPT ![u] = record]
    <2>1. CASE asks[u].does = "store"
      <3>1. [asks[u] EXCEPT !.at = "add"] \in Asks
        BY <1>1 DEF Asks
      <3>2. QED
        BY <1>1, <2>1, <3>1 DEF Cleared, Ask, NotesAreOld, Asks
    <2>2. CASE asks[u].does # "store"
      <3>1. /\ Idling \in Asks /\ Idling.at # "check"
            /\ Idling.floor <= revoked /\ Idling.newest <= stored
        BY DEF Idling, Asks
      <3>2. asks' = [asks EXCEPT ![u] = Idling]
        BY <2>2 DEF Cleared, Ask
      <3>3. QED
        BY <3>1, <3>2
    <2>3. QED
      BY <2>1, <2>2
  <1>4. LeaseTyped' /\ ItemIsNewer'
    BY <1>2, <1>3 DEF ItemIsNewer
  <1>5. NotesAreOld'
    BY <1>1, <1>2, <1>3 DEF NotesAreOld, Asks
  <1>6. FoundIsNewer' /\ OnlyLiveTokens'
    BY <1>3 DEF FoundIsNewer, OnlyLiveTokens
  <1>7. QED
    BY <1>4, <1>5, <1>6

LEMMA LeaseInvNext ==
  ASSUME LeaseInv, LeaseStep
  PROVE  LeaseInv'
  <1> USE SecretsAssumption
      DEF LeaseInv, LeaseTyped, ItemIsNewer, NotesAreOld, FoundIsNewer, OnlyLiveTokens, Ask
  <1>1. CASE Elapse
    BY <1>1 DEF Elapse
  <1>2. ASSUME NEW u \in Users, NEW what \in {"read", "clear", "store"},
               StartAsk(u, what)
        PROVE  LeaseInv'
    BY <1>2 DEF StartAsk, Asks
  <1>3. ASSUME NEW u \in Users, LookUp(u) PROVE LeaseInv'
    <2>1. CASE keychain = NoSecret
      BY <1>3, <2>1 DEF LookUp, Idling, Asks
    <2>2. CASE keychain # NoSecret
      <3> DEFINE found == [asks[u] EXCEPT !.at = "check", !.item = keychain]
      <3>1. /\ found \in Asks /\ found.floor = asks[u].floor
            /\ found.newest = asks[u].newest /\ found.item = keychain
        BY DEF Asks
      <3>2. /\ asks' = [asks EXCEPT ![u] = found]
            /\ UNCHANGED <<keychain, clock, stored, handed, revoked>>
        BY <1>3, <2>2 DEF LookUp
      <3>3. keychain \in Leases /\ keychain.lease > asks[u].floor
        BY <2>2 DEF Leases, Asks
      <3> HIDE DEF found
      <3>4. QED
        BY <2>2, <3>1, <3>2, <3>3
    <2>3. QED
      BY <2>1, <2>2
  <1>4. ASSUME NEW u \in Users, CheckLease(u) PROVE LeaseInv'
    <2>1. CASE Live(asks[u].item)
      BY <1>4, <2>1 DEF CheckLease, Live, Idling, Asks, Leases
    <2>2. CASE ~Live(asks[u].item)
      BY <1>4, <2>2 DEF CheckLease, Asks
    <2>3. QED
      BY <2>1, <2>2
  <1>5. ASSUME NEW u \in Users, FindItem(u) PROVE LeaseInv'
    <2>1. CASE keychain = NoSecret
      BY <1>5, <2>1, ClearingIsSafe DEF FindItem
    <2>2. CASE keychain # NoSecret
      <3> DEFINE found == [asks[u] EXCEPT !.at = "delete", !.item = keychain]
      <3>1. /\ found \in Asks /\ found.at = "delete"
            /\ found.floor = asks[u].floor /\ found.newest = asks[u].newest
        BY DEF Asks
      <3>2. /\ asks' = [asks EXCEPT ![u] = found]
            /\ UNCHANGED <<keychain, clock, stored, handed, revoked>>
        BY <1>5, <2>2 DEF FindItem
      <3> HIDE DEF found
      <3>3. QED
        BY <3>1, <3>2
    <2>3. QED
      BY <2>1, <2>2
  <1>6. ASSUME NEW u \in Users, DeleteItem(u) PROVE LeaseInv'
    <2>1. CASE keychain' = NoSecret /\ Cleared(u)
      BY <1>6, <2>1, ClearingIsSafe DEF DeleteItem
    <2>2. CASE UNCHANGED <<keychain, revoked>> /\ Ask(u, Idling)
      BY <1>6, <2>2 DEF DeleteItem, Idling, Asks
    <2>3. QED
      BY <1>6, <2>1, <2>2 DEF DeleteItem
  <1>7. ASSUME NEW u \in Users, AddItem(u) PROVE LeaseInv'
    BY <1>7 DEF AddItem, Idling, Asks, Leases
  <1>8. QED
    BY <1>1, <1>2, <1>3, <1>4, <1>5, <1>6, <1>7 DEF LeaseStep

\* A token is handed out only while its lease runs, and never one that a clear had
\* removed for its caller before the read began (KeychainLease).
THEOREM TokensLive == SecretsSpec => []OnlyLiveTokens
  <1>1. ASSUME LeaseInv, [KeyStep \/ LeaseStep]_secretVars PROVE LeaseInv'
    BY <1>1, LeaseInvNext, KeyStepLeavesLease, LeaseInvStutters DEF secretVars
  <1>2. LeaseInv => OnlyLiveTokens
    BY DEF LeaseInv
  <1>3. QED
    BY LeaseInvInit, <1>1, <1>2, PTL DEF SecretsSpec

\* The bounds of the model hold on the way.
LEMMA LeaseIsBounded ==
  ASSUME clock \in 0 .. MaxClock, stored \in 0 .. MaxLeases, KeyStep \/ LeaseStep
  PROVE  clock' \in 0 .. MaxClock /\ stored' \in 0 .. MaxLeases
  <1> USE SecretsAssumption
  <1>1. CASE KeyStep
    BY <1>1, KeyStepLeavesLease DEF leaseState
  <1>2. CASE LeaseStep
    <2>1. \/ clock' = clock + 1 /\ clock < MaxClock /\ stored' = stored
          \/ clock' = clock /\ stored' = stored
          \/ clock' = clock /\ stored' = stored + 1 /\ stored < MaxLeases
      BY <1>2 DEF LeaseStep, Elapse, LookUp, CheckLease, FindItem, DeleteItem, AddItem, StartAsk
    <2>2. QED
      BY <2>1
  <1>3. QED
    BY <1>1, <1>2

\* The types of the key file and of the lease.
THEOREM SecretsTypeCorrect == SecretsSpec => []SecretsTypeOK
  <1> DEFINE Bounded == clock \in 0 .. MaxClock /\ stored \in 0 .. MaxLeases
             Inv     == KeyInv /\ LeaseInv /\ Bounded
  <1>1. SecretsInit => Inv
    BY KeyInvInit, LeaseInvInit, SecretsAssumption DEF SecretsInit
  <1>2. ASSUME Inv, [KeyStep \/ LeaseStep]_secretVars PROVE Inv'
    <2>1. KeyInv'
      BY <1>2, KeyInvNext, LeaseStepLeavesKey, KeyInvStutters DEF secretVars
    <2>2. LeaseInv'
      BY <1>2, LeaseInvNext, KeyStepLeavesLease, LeaseInvStutters DEF secretVars
    <2>3. Bounded'
      BY <1>2, LeaseIsBounded DEF secretVars, leaseState
    <2>4. QED
      BY <2>1, <2>2, <2>3
  <1>3. Inv => SecretsTypeOK
    BY DEF KeyInv, KeyTyped, Places, LeaseInv, LeaseTyped, ItemIsNewer, Leases, Asks, SecretsTypeOK
  <1>4. QED
    BY <1>1, <1>2, <1>3, PTL DEF SecretsSpec

----------------------------------------------------------------------------
(* ContributionGroups, for any units, edges and limits.                    *)

GroupsSpec == GroupsInit /\ [][GroupsNext]_groupVars

EdgeRecords == [source : Nat, target : Nat, kind : Kinds]

\* Every set of natural numbers that is not empty has a least one.
LEMMA LeastOf ==
  ASSUME NEW T \in SUBSET Nat, T # {}
  PROVE  \E n \in T : \A m \in T : n <= m
  <1> DEFINE Lower == OpToRel(<, Nat)
  <1>1. IsWellFoundedOn(Lower, Nat)
    BY NatLessThanWellFounded
  <1>2. \A m, n \in Nat : m < n => <<m, n>> \in Lower
    BY DEF OpToRel
  <1> HIDE DEF Lower
  <1>3. PICK n \in T : \A m \in T : ~ (<<m, n>> \in Lower)
    BY <1>1, WFMin
  <1>4. ASSUME NEW m \in T
        PROVE  n <= m
    <2>1. m \in Nat /\ n \in Nat
      OBVIOUS
    <2>2. ~ (m < n)
      BY <1>2, <1>3, <2>1, Zenon
    <2>3. QED
      BY <2>1, <2>2
  <1>5. QED
    BY <1>4

LEMMA PrioritiesTellApart ==
  ASSUME NEW k \in Kinds, NEW l \in Kinds
  PROVE  Priority(k) \in Nat /\ (Priority(k) = Priority(l) => k = l)
  BY DEF Priority, Kinds

\* The order of the edges is total: as long as some are left, there is a strongest.
LEMMA StrongestIsPending ==
  ASSUME pending \subseteq EdgeRecords, pending # {}
  PROVE  Strongest \in pending
  <1> DEFINE Ranks   == {Priority(f.kind) : f \in pending}
  <1>1. PICK e1 \in pending : \A f \in pending : Priority(e1.kind) <= Priority(f.kind)
    <2>1. Ranks \subseteq Nat /\ Ranks # {}
      BY PrioritiesTellApart DEF EdgeRecords
    <2>2. PICK n \in Ranks : \A m \in Ranks : n <= m
      BY <2>1, LeastOf
    <2>3. QED
      BY <2>2
  <1> DEFINE First   == {f \in pending : Priority(f.kind) = Priority(e1.kind)}
             Sources == {f.source : f \in First}
  <1>2. PICK e2 \in First : \A f \in First : e2.source <= f.source
    <2>1. Sources \subseteq Nat /\ Sources # {}
      BY DEF EdgeRecords
    <2>2. PICK n \in Sources : \A m \in Sources : n <= m
      BY <2>1, LeastOf
    <2>3. QED
      BY <2>2
  <1> DEFINE Second  == {f \in First : f.source = e2.source}
             Targets == {f.target : f \in Second}
  <1>3. PICK e \in Second : \A f \in Second : e.target <= f.target
    <2>1. Targets \subseteq Nat /\ Targets # {}
      BY DEF EdgeRecords
    <2>2. PICK n \in Targets : \A m \in Targets : n <= m
      BY <2>1, LeastOf
    <2>3. QED
      BY <2>2
  <1>4. ASSUME NEW f \in pending \ {e}
        PROVE  Before(e, f)
    <2>1. /\ e \in EdgeRecords /\ f \in EdgeRecords /\ e \in First
          /\ Priority(e.kind) \in Nat /\ Priority(f.kind) \in Nat
          /\ Priority(e.kind) <= Priority(f.kind)
      BY <1>1, PrioritiesTellApart DEF EdgeRecords
    <2>2. CASE Priority(e.kind) < Priority(f.kind)
      BY <2>2 DEF Before
    <2>3. CASE f \in First /\ e.source < f.source
      BY <2>3 DEF Before
    <2>4. CASE f \in Second
      <3>1. e.kind = f.kind /\ e.source = f.source /\ e.target <= f.target
        BY <1>3, <2>1, <2>4, PrioritiesTellApart DEF EdgeRecords
      <3>2. e.target # f.target
        BY <2>1, <3>1 DEF EdgeRecords
      <3>3. QED
        BY <2>1, <2>4, <3>1, <3>2 DEF Before, EdgeRecords
    <2>5. QED
      BY <1>1, <1>2, <2>1, <2>2, <2>3, <2>4 DEF EdgeRecords
  <1>5. QED
    BY <1>4 DEF Strongest

\* What holds of an edge that has been placed: it widened the groups it touches, and
\* all of them show it or none.
PlacedTruly(e) ==
  /\ \A r \in Affected(e) : e.target \in DestinationUnits => e.target \in reached[r]
  /\ \/ \A r \in Affected(e) : e \in shown[r]
     \/ \A r \in Affected(e) : e \notin shown[r] /\ e \in omitted[r]

ForestInv ==
  /\ stage \in {"none", "merge", "place", "done"}
  /\ pending \subseteq known /\ known \subseteq EdgeRecords
  /\ maxUnits \in Nat \ {0} /\ maxEdges \in Nat \ {0}
  /\ stage # "none" =>
       /\ rootOf \in [Groupable -> Groupable]
       /\ \A r \in Groupable : Cardinality(Members(r)) <= maxUnits

ListsInv ==
  stage \in {"place", "done"} =>
    /\ DOMAIN shown = GroupRoots /\ DOMAIN omitted = GroupRoots
    /\ reached \in [GroupRoots -> SUBSET DestinationUnits]
    /\ \A r \in GroupRoots :
         /\ IsFiniteSet(shown[r]) /\ Cardinality(shown[r]) <= maxEdges
         /\ shown[r] \subseteq known \ pending
         /\ \A e \in shown[r] : r \in Affected(e)
    /\ \A e \in known \ pending : PlacedTruly(e)

GroupsInv ==
  /\ ForestInv /\ ListsInv
  /\ groupsFile # NoGroups => stage = "done"
  /\ CompleteIsClosed

LEMMA KnownAreEdges ==
  ASSUME NEW edges \in SUBSET InputEdges, NEW names \in [Groupable -> SUBSET Symbols]
  PROVE  Discovered(names) \cup Considered(edges) \subseteq EdgeRecords
  <1>1. Groupable \subseteq Nat /\ InputEdges \subseteq EdgeRecords
    BY GroupsAssumption DEF Groupable, EdgeRecords
  <1>2. ASSUME NEW units \in SUBSET Groupable, NEW k \in Kinds
        PROVE  Chain(units, k) \subseteq EdgeRecords
    BY <1>1 DEF Chain, EdgeRecords
  <1>3. {"same_branch", "branch_family", "symbol"} \subseteq Kinds
    BY DEF Kinds
  <1>4. Discovered(names) \subseteq EdgeRecords
    <2>1. \A b : Chain({u \in Groupable : BranchOf[u] = b}, "same_branch") \subseteq EdgeRecords
      BY <1>2, <1>3
    <2>2. \A f : Chain({u \in Groupable : FamilyOf[BranchOf[u]] = f}, "branch_family")
                   \subseteq EdgeRecords
      BY <1>2, <1>3
    <2>3. \A s : Chain({u \in Groupable : s \in names[u]}, "symbol") \subseteq EdgeRecords
      BY <1>2, <1>3
    <2>4. QED
      BY <2>1, <2>2, <2>3 DEF Discovered
  <1>5. QED
    BY <1>1, <1>4 DEF Considered

LEMMA StartGroupsKeeps ==
  ASSUME GroupsInv, StartGroups
  PROVE  GroupsInv'
  <1> USE DEF StartGroups
  <1>1. known' \subseteq EdgeRecords /\ pending' = known'
    BY KnownAreEdges
  <1>2. maxUnits' \in Nat \ {0} /\ maxEdges' \in Nat \ {0}
    BY GroupsAssumption
  <1>3. ASSUME NEW r \in Groupable
        PROVE  Cardinality(Members(r))' <= maxUnits'
    <2>1. Members(r)' = {r}
      BY DEF Members
    <2>2. Cardinality({r}) = 1
      BY FS_Singleton
    <2>3. QED
      BY <1>2, <2>1, <2>2
  <1>4. ForestInv'
    BY <1>1, <1>2, <1>3 DEF ForestInv
  <1>5. QED
    BY <1>4 DEF GroupsInv, ListsInv, CompleteIsClosed

\* A merge makes one group of two, and no group too large.
LEMMA MergeEdgeKeeps ==
  ASSUME GroupsInv, MergeEdge
  PROVE  GroupsInv'
  <1> DEFINE e     == Strongest
             near  == rootOf[e.source]
             far   == rootOf[e.target]
             both  == Members(near) \cup Members(far)
             winner == IF near < far THEN near ELSE far
             merged == [u \in Groupable |->
                         IF rootOf[u] # near /\ rootOf[u] # far THEN rootOf[u] ELSE winner]
             joins  == /\ {e.source, e.target} \subseteq Groupable /\ near # far
                       /\ Cardinality(both) <= maxUnits
  <1>1. /\ stage = "merge" /\ stage' = stage /\ groupsFile = NoGroups
        /\ pending' \subseteq pending
        /\ UNCHANGED <<maxUnits, maxEdges, known, groupsFile>>
        /\ rootOf \in [Groupable -> Groupable]
        /\ \A r \in Groupable : Cardinality(Members(r)) <= maxUnits
        /\ maxUnits \in Nat
    BY DEF MergeEdge, GroupsInv, ForestInv
  <1>2. rootOf' = IF joins THEN merged ELSE rootOf
    BY DEF MergeEdge
  <1>3. ASSUME joins
        PROVE  /\ rootOf' \in [Groupable -> Groupable]
               /\ \A r \in Groupable : Cardinality(Members(r)') <= maxUnits
    <2>1. near \in Groupable /\ far \in Groupable /\ winner \in {near, far}
      BY <1>1, <1>3
    <2> HIDE DEF winner
    <2>2. rootOf' \in [Groupable -> Groupable]
      BY <1>1, <1>2, <1>3, <2>1
    <2>3. ASSUME NEW r \in Groupable
          PROVE  Members(r)' \in {Members(r), both, {}}
      <3>1. \A u \in Groupable : rootOf'[u] = IF rootOf[u] # near /\ rootOf[u] # far
                                            THEN rootOf[u] ELSE winner
        BY <1>2, <1>3
      <3>2. CASE r = winner
        BY <2>1, <3>1, <3>2 DEF Members
      <3>3. CASE r # winner /\ r \in {near, far}
        BY <3>1, <3>3 DEF Members
      <3>4. CASE r \notin {near, far}
        BY <2>1, <3>1, <3>4 DEF Members
      <3>5. QED
        BY <3>2, <3>3, <3>4
    <2>4. Cardinality(both) <= maxUnits /\ Cardinality({}) <= maxUnits
      BY <1>1, <1>3, FS_EmptySet
    <2>5. QED
      BY <1>1, <2>2, <2>3, <2>4
  <1>4. ASSUME ~joins
        PROVE  /\ rootOf' \in [Groupable -> Groupable]
               /\ \A r \in Groupable : Cardinality(Members(r)') <= maxUnits
    BY <1>1, <1>2, <1>4 DEF Members
  <1> HIDE DEF joins
  <1>5. ForestInv'
    <2>1. /\ rootOf' \in [Groupable -> Groupable]
          /\ \A r \in Groupable : Cardinality(Members(r)') <= maxUnits
      BY <1>3, <1>4
    <2>2. QED
      BY <1>1, <2>1 DEF GroupsInv, ForestInv
  <1>6. QED
    BY <1>1, <1>5 DEF GroupsInv, ListsInv, CompleteIsClosed

LEMMA PartitionKeeps ==
  ASSUME GroupsInv, Partition
  PROVE  GroupsInv'
  <1> USE DEF Partition
  <1>1. \A r : Members(r)' = Members(r)
    BY DEF Members
  <1>2. ForestInv'
    BY <1>1 DEF GroupsInv, ForestInv
  <1>3. GroupRoots' = GroupRoots
    BY DEF GroupRoots
  <1>4. ListsInv'
    <2>1. \A r : Members(r) \subseteq SourceUnits
      BY DEF Members, Groupable
    <2>2. reached' \in [GroupRoots -> SUBSET DestinationUnits]
      BY <2>1, GroupsAssumption
    <2>3. IsFiniteSet({}) /\ Cardinality({}) <= maxEdges
      BY FS_EmptySet DEF GroupsInv, ForestInv
    <2>4. QED
      BY <1>3, <2>2, <2>3 DEF ListsInv, GroupsInv, ForestInv
  <1>5. QED
    BY <1>2, <1>4 DEF GroupsInv, CompleteIsClosed

\* An edge goes to every group it touches, within the limit of each, or to none.
LEMMA PlaceEdgeKeeps ==
  ASSUME GroupsInv, PlaceEdge
  PROVE  GroupsInv'
  <1> DEFINE e    == Strongest
             full == \E r \in Affected(e) : Cardinality(shown[r]) >= maxEdges
             Put(lists) == [r \in GroupRoots |-> IF r \in Affected(e) THEN lists[r] \cup {e}
                                                 ELSE lists[r]]
             more(r) == reached[r] \cup (IF r \in Affected(e)
                                         THEN {e.target} \cap DestinationUnits ELSE {})
  <1>1. /\ stage = "place" /\ pending' = pending \ {e}
        /\ shown' = IF full THEN shown ELSE Put(shown)
        /\ omitted' = IF full THEN Put(omitted) ELSE omitted
        /\ reached' = [r \in GroupRoots |-> more(r)]
        /\ UNCHANGED <<stage, maxUnits, maxEdges, known, rootOf, groupsFile>>
    BY DEF PlaceEdge
  <1>2. e \in pending /\ e \in known /\ pending \subseteq known /\ known \subseteq EdgeRecords
    BY StrongestIsPending DEF PlaceEdge, GroupsInv, ForestInv
  <1>3. /\ DOMAIN shown = GroupRoots /\ DOMAIN omitted = GroupRoots
        /\ reached \in [GroupRoots -> SUBSET DestinationUnits]
        /\ maxEdges \in Nat
        /\ \A r \in GroupRoots : /\ IsFiniteSet(shown[r]) /\ Cardinality(shown[r]) <= maxEdges
                                 /\ shown[r] \subseteq known \ pending
                                 /\ \A f \in shown[r] : r \in Affected(f)
        /\ \A f \in known \ pending : PlacedTruly(f)
    BY <1>1 DEF GroupsInv, ListsInv, ForestInv
  <1> HIDE DEF e, full, Put
  <1>4. ForestInv'
    <2>1. \A r : Members(r)' = Members(r)
      BY <1>1 DEF Members
    <2>2. QED
      BY <1>1, <1>2, <2>1 DEF GroupsInv, ForestInv
  <1>5. GroupRoots' = GroupRoots /\ \A f : Affected(f)' = Affected(f)
    BY <1>1 DEF GroupRoots, Affected
  <1>6. \A f : Affected(f) \subseteq GroupRoots
    BY DEF Affected, GroupRoots
  <1>7. reached' \in [GroupRoots -> SUBSET DestinationUnits]
    BY <1>1, <1>3
  <1>8. DOMAIN shown' = GroupRoots /\ DOMAIN omitted' = GroupRoots
    BY <1>1, <1>3 DEF Put
  <1>9. ASSUME NEW r \in GroupRoots
        PROVE  /\ \A f \in shown'[r] : r \in Affected(f)
               /\ IsFiniteSet(shown'[r]) /\ Cardinality(shown'[r]) <= maxEdges
               /\ shown'[r] \subseteq known \ pending'
    <2>1. CASE shown'[r] = shown[r]
      BY <1>1, <1>3, <2>1
    <2>2. CASE ~full /\ r \in Affected(e) /\ shown'[r] = shown[r] \cup {e}
      <3>1. IsFiniteSet(shown[r]) /\ Cardinality(shown[r]) \in Nat
        BY <1>3, FS_CardinalityType
      <3>2. Cardinality(shown[r]) < maxEdges
        BY <1>3, <2>2, <3>1 DEF full
      <3>3. IsFiniteSet(shown'[r]) /\ Cardinality(shown'[r]) <= Cardinality(shown[r]) + 1
        <4>1. IsFiniteSet(shown[r] \cup {e})
          BY <3>1, FS_AddElement
        <4>2. Cardinality(shown[r] \cup {e}) =
                IF e \in shown[r] THEN Cardinality(shown[r]) ELSE Cardinality(shown[r]) + 1
          BY <3>1, FS_AddElement
        <4>3. QED
          BY <2>2, <3>1, <4>1, <4>2
      <3>4. Cardinality(shown'[r]) \in Nat
        BY <3>3, FS_CardinalityType
      <3>5. Cardinality(shown'[r]) <= maxEdges
        BY <1>3, <3>1, <3>2, <3>3, <3>4
      <3>6. shown'[r] \subseteq known \ pending'
        BY <1>1, <1>2, <1>3, <2>2
      <3>7. QED
        BY <1>3, <2>2, <3>3, <3>5, <3>6
    <2>3. QED
      BY <1>1, <2>1, <2>2 DEF Put
  <1>10. ASSUME NEW f \in known \ pending'
         PROVE  PlacedTruly(f)'
    <2>1. \A r \in Affected(f) : f.target \in DestinationUnits => f.target \in reached'[r]
      <3>1. CASE f = e
        BY <1>1, <1>6, <3>1
      <3>2. CASE f # e
        <4>1. PlacedTruly(f)
          BY <1>1, <1>3, <3>2
        <4>2. QED
          BY <1>1, <1>6, <4>1 DEF PlacedTruly
      <3>3. QED
        BY <3>1, <3>2
    <2>2. \/ \A r \in Affected(f) : f \in shown'[r]
          \/ \A r \in Affected(f) : f \notin shown'[r] /\ f \in omitted'[r]
      <3>1. CASE f = e
        <4>1. \A r \in GroupRoots : e \notin shown[r]
          BY <1>2, <1>3
        <4>2. CASE full
          BY <1>1, <1>6, <3>1, <4>1, <4>2 DEF Put
        <4>3. CASE ~full
          BY <1>1, <1>6, <3>1, <4>3 DEF Put
        <4>4. QED
          BY <4>2, <4>3
      <3>2. CASE f # e
        <4>1. PlacedTruly(f)
          BY <1>1, <1>3, <3>2
        <4>2. \A r \in GroupRoots : /\ f \in shown'[r] <=> f \in shown[r]
                                    /\ f \in omitted[r] => f \in omitted'[r]
          BY <1>1, <3>2 DEF Put
        <4>3. QED
          BY <1>6, <4>1, <4>2 DEF PlacedTruly
      <3>3. QED
        BY <3>1, <3>2
    <2>3. QED
      BY <1>5, <2>1, <2>2 DEF PlacedTruly
  <1>11. ListsInv'
    BY <1>1, <1>5, <1>7, <1>8, <1>9, <1>10 DEF ListsInv
  <1>12. QED
    BY <1>1, <1>4, <1>11 DEF GroupsInv, CompleteIsClosed

\* What is written when every edge has been placed.
LEMMA WriteGroupsKeeps ==
  ASSUME GroupsInv, WriteGroups
  PROVE  GroupsInv'
  <1>1. /\ stage = "place" /\ stage' = "done" /\ pending = {}
        /\ UNCHANGED <<maxUnits, maxEdges, known, pending, rootOf, shown, omitted, reached>>
    BY DEF WriteGroups
  <1>2. ForestInv' /\ ListsInv'
    <2>1. /\ GroupRoots' = GroupRoots
          /\ \A f : Affected(f)' = Affected(f)
          /\ \A r : Members(r)' = Members(r)
      BY <1>1 DEF GroupRoots, Affected, Members
    <2>2. \A f : PlacedTruly(f)' <=> PlacedTruly(f)
      BY <1>1, <2>1 DEF PlacedTruly
    <2>3. QED
      BY <1>1, <2>1, <2>2 DEF GroupsInv, ForestInv, ListsInv
  <1>3. /\ DOMAIN groupsFile' = GroupRoots
        /\ \A r \in GroupRoots :
             /\ groupsFile'[r].units = Members(r)
             /\ groupsFile'[r].destinations = reached[r]
             /\ groupsFile'[r].edges = shown[r]
             /\ groupsFile'[r].complete = (Limitations(r) = {})
    BY DEF WriteGroups
  <1>4. ASSUME NEW f \in known, NEW r \in GroupRoots,
               {f.source, f.target} \cap Members(r) # {}
        PROVE  r \in Affected(f) /\ PlacedTruly(f)
    BY <1>1, <1>4 DEF Affected, Members, GroupsInv, ListsInv
  <1>5. ASSUME NEW r \in GroupRoots, Limitations(r) = {}, NEW f \in Required(known),
               {f.source, f.target} \cap Members(r) # {}
        PROVE  /\ f \in shown[r] /\ f.source \in Members(r)
               /\ f.target \in Members(r) \cup reached[r]
    <2>1. f \in known /\ f.kind \notin CandidateKinds
      BY DEF Required
    <2>2. r \in Affected(f) /\ PlacedTruly(f)
      BY <1>4, <1>5, <2>1
    <2>3. /\ Required(Boundary(r, shown[r] \cup omitted[r])) = {}
          /\ Required(omitted[r]) = {}
      BY <1>5 DEF Limitations
    <2>4. f \in shown[r]
      BY <2>1, <2>2, <2>3 DEF PlacedTruly, Required
    <2>5. Inside(r, f)
      BY <2>1, <2>3, <2>4 DEF Required, Boundary
    <2>6. QED
      BY <2>2, <2>4, <2>5 DEF Inside, PlacedTruly
  <1>6. ASSUME NEW r \in GroupRoots
        PROVE  Cardinality(Members(r)) <= maxUnits /\ Cardinality(shown[r]) <= maxEdges
    BY <1>1 DEF GroupsInv, ForestInv, ListsInv, GroupRoots
  <1>7. ASSUME NEW r \in GroupRoots, NEW q \in GroupRoots \ {r}, NEW f \in shown[r],
               {f.source, f.target} \cap Members(q) # {}
        PROVE  f \in shown[q]
    <2>1. f \in known
      BY <1>1 DEF GroupsInv, ListsInv
    <2>2. q \in Affected(f) /\ PlacedTruly(f)
      BY <1>4, <1>7, <2>1
    <2>3. r \in Affected(f)
      BY <1>1 DEF GroupsInv, ListsInv
    <2>4. QED
      BY <2>2, <2>3 DEF PlacedTruly
  <1>8. CompleteIsClosed'
    <2>1. Required(known)' = Required(known)
      BY <1>1 DEF Required
    <2>2. SUFFICES ASSUME NEW r \in GroupRoots
                   PROVE  LET group == groupsFile'[r] IN
                          /\ group.complete =>
                               \A e \in Required(known) :
                                 {e.source, e.target} \cap group.units # {} =>
                                   /\ e \in group.edges /\ e.source \in group.units
                                   /\ e.target \in group.units \cup group.destinations
                          /\ Cardinality(group.units) <= maxUnits
                          /\ Cardinality(group.edges) <= maxEdges
                          /\ \A q \in GroupRoots \ {r} : \A e \in group.edges :
                               {e.source, e.target} \cap groupsFile'[q].units # {} =>
                                 e \in groupsFile'[q].edges
      BY <1>1, <1>3, <2>1, Zenon DEF CompleteIsClosed
    <2> DEFINE group == groupsFile'[r]
    <2>3. /\ group.units = Members(r) /\ group.destinations = reached[r]
          /\ group.edges = shown[r] /\ group.complete = (Limitations(r) = {})
          /\ \A q \in GroupRoots : /\ groupsFile'[q].units = Members(q)
                                  /\ groupsFile'[q].edges = shown[q]
      BY <1>3, Zenon
    <2> HIDE DEF group
    <2>4. ASSUME group.complete, NEW f \in Required(known),
                 {f.source, f.target} \cap group.units # {}
          PROVE  /\ f \in group.edges /\ f.source \in group.units
                 /\ f.target \in group.units \cup group.destinations
      BY <1>5, <2>3, <2>4
    <2>5. ASSUME NEW q \in GroupRoots \ {r}, NEW f \in group.edges,
                 {f.source, f.target} \cap groupsFile'[q].units # {}
          PROVE  f \in groupsFile'[q].edges
      BY <1>7, <2>3, <2>5
    <2>6. Cardinality(group.units) <= maxUnits /\ Cardinality(group.edges) <= maxEdges
      BY <1>6, <2>3
    <2>7. QED
      BY <2>4, <2>5, <2>6 DEF group
  <1>9. QED
    BY <1>1, <1>2, <1>8 DEF GroupsInv

LEMMA GroupsInvInit == GroupsInit => GroupsInv
  BY DEF GroupsInit, GroupsInv, ForestInv, ListsInv, CompleteIsClosed

LEMMA GroupsStutter == ASSUME GroupsInv, UNCHANGED groupVars PROVE GroupsInv'
  <1> USE DEF groupVars
  <1>1. /\ GroupRoots' = GroupRoots
        /\ \A f : Affected(f)' = Affected(f)
        /\ \A r : Members(r)' = Members(r)
        /\ Required(known)' = Required(known)
    BY DEF GroupRoots, Affected, Members, Required
  <1>2. \A f : PlacedTruly(f)' <=> PlacedTruly(f)
    BY <1>1 DEF PlacedTruly
  <1>3. ForestInv' /\ ListsInv'
    BY <1>1, <1>2 DEF GroupsInv, ForestInv, ListsInv
  <1>4. CompleteIsClosed'
    BY <1>1 DEF GroupsInv, CompleteIsClosed
  <1>5. QED
    BY <1>3, <1>4 DEF GroupsInv

LEMMA GroupsInvNext == GroupsInv /\ [GroupsNext]_groupVars => GroupsInv'
  BY StartGroupsKeeps, MergeEdgeKeeps, PartitionKeeps, PlaceEdgeKeeps, WriteGroupsKeeps,
     GroupsStutter DEF GroupsNext

LEMMA GroupsInvAlways == GroupsSpec => []GroupsInv
  BY GroupsInvInit, GroupsInvNext, PTL DEF GroupsSpec

\* A group that calls its context complete shows every required edge of its units, for
\* any units, edges and limits (build_groups).
THEOREM GroupsAreClosed == GroupsSpec => []CompleteIsClosed
  <1>1. GroupsInv => CompleteIsClosed
    BY DEF GroupsInv
  <1>2. QED
    BY <1>1, GroupsInvAlways, PTL

\* The forest and the lists keep their types.
THEOREM GroupsTypeCorrect == GroupsSpec => []GroupsTypeOK
  <1>1. GroupsInv => GroupsTypeOK
    BY DEF GroupsInv, ForestInv, ListsInv, GroupsTypeOK
  <1>2. QED
    BY <1>1, GroupsInvAlways, PTL

----------------------------------------------------------------------------
(* PresenceEvidence, for any units, requests, judgements and collections.  *)

EvidenceSpec == EvidenceInit /\ [][EvidenceNext]_evidenceVars

\* An answer artifact holds judgements about the units bound to its requests.
TrueAnswers(a) ==
  /\ DOMAIN a.given \subseteq Requests
  /\ \A r \in DOMAIN a.given : \A u \in Bound[r] : a.given[r][u] \in Judgements

\* A presence result is what reconcile_presence makes of its answers.
TruePresence(p) ==
  /\ TrueAnswers(p.from) /\ p.origin = p.from.origin /\ DOMAIN p.units = Units
  /\ \A u \in Units : p.units[u] = Row(p.from, u)

LEMMA JudgementFields ==
  ASSUME NEW j \in Judgements
  PROVE  /\ j.suff \in {"yes", "no", "unsure"} /\ j.delta \in {"yes", "no", "unsure"}
         /\ j.edge \in {"yes", "no", "unsure"} /\ j.contextSuff \in {"yes", "no", "unsure"}
         /\ j.presence \in {"PRESENT", "PARTIAL", "ABSENT", "UNKNOWN"}
         /\ j.comparison \in BOOLEAN /\ j.context \in {"complete", "incomplete", "unknown"}
  BY EvidenceAssumption

LEMMA ObservationsAreJudgements ==
  ASSUME NEW a, TrueAnswers(a), NEW u
  PROVE  Observations(a, u) \subseteq Judgements
  BY DEF TrueAnswers, Observations

LEMMA FewAreFinite ==
  /\ IsFiniteSet({"yes", "no", "unsure"}) /\ IsFiniteSet({"yes", "no"})
  /\ IsFiniteSet({"PRESENT", "PARTIAL", "ABSENT", "UNKNOWN"})
  /\ Cardinality({"yes", "no"}) = 2
  <1>1. IsFiniteSet({"yes"}) /\ Cardinality({"yes"}) = 1
    BY FS_Singleton
  <1>2. /\ IsFiniteSet({"yes"} \cup {"no"})
        /\ Cardinality({"yes"} \cup {"no"}) = 2
    BY <1>1, FS_AddElement
  <1>3. {"yes"} \cup {"no"} = {"yes", "no"}
    OBVIOUS
  <1>4. IsFiniteSet({"yes", "no"} \cup {"unsure"})
    BY <1>2, <1>3, FS_AddElement
  <1>5. {"yes", "no"} \cup {"unsure"} = {"yes", "no", "unsure"}
    OBVIOUS
  <1>6. IsFiniteSet({"PRESENT"})
    BY FS_Singleton
  <1>7. IsFiniteSet({"PRESENT"} \cup {"PARTIAL"})
    BY <1>6, FS_AddElement
  <1>8. IsFiniteSet(({"PRESENT"} \cup {"PARTIAL"}) \cup {"ABSENT"})
    BY <1>7, FS_AddElement
  <1>9. IsFiniteSet((({"PRESENT"} \cup {"PARTIAL"}) \cup {"ABSENT"}) \cup {"UNKNOWN"})
    BY <1>8, FS_AddElement
  <1>10. (({"PRESENT"} \cup {"PARTIAL"}) \cup {"ABSENT"}) \cup {"UNKNOWN"}
           = {"PRESENT", "PARTIAL", "ABSENT", "UNKNOWN"}
    OBVIOUS
  <1>11. QED
    BY <1>2, <1>3, <1>4, <1>5, <1>9, <1>10

\* The one value of a field that all observations agree on, if it is not the default.
LEMMA SoleIsShared ==
  ASSUME NEW S, IsFiniteSet(S), NEW other, Sole(S, other) # other
  PROVE  S = {Sole(S, other)}
  <1>1. Cardinality(S) = 1 /\ Sole(S, other) = CHOOSE v \in S : TRUE
    BY DEF Sole
  <1>2. PICK x : S = {x}
    BY <1>1, FS_Singleton
  <1>3. QED
    BY <1>1, <1>2

\* What a row's verdict says of the observations behind it.
LEMMA DecidedRow ==
  ASSUME NEW a, TrueAnswers(a), NEW u, Row(a, u).verdict # "UNRESOLVED"
  PROVE  LET r == Row(a, u).row
             heard == Observations(a, u)
         IN /\ heard # {} /\ r.sufficient /\ r.comparison
            /\ r.context = "complete" /\ r.contextSuff = "yes"
            /\ r.presence # "UNKNOWN" /\ r.delta \in {"yes", "no"}
            /\ \A j \in heard : /\ j.suff = "yes" /\ j.comparison /\ j.context = "complete"
                                /\ j.presence = r.presence /\ j.delta = r.delta
            /\ \A i, j \in heard : {i.edge, j.edge} # {"yes", "no"}
            /\ Row(a, u).verdict \in {"USABLE_WORK_REMAINS", "LIKELY_PRESERVED"}
            /\ Row(a, u).verdict = "USABLE_WORK_REMAINS" =>
                 r.delta = "yes" /\ r.presence \in {"PARTIAL", "ABSENT"}
            /\ Row(a, u).verdict = "LIKELY_PRESERVED" =>
                 r.delta = "no" /\ r.presence = "PRESENT"
  <1> DEFINE heard   == Observations(a, u)
             context == Context(heard)
             suff    == Sole(Values(heard, "contextSuff"), "unsure")
             r       == Row(a, u).row
             found   == Row(a, u).verdict
  <1>1. /\ r.sufficient = (Values(heard, "suff") = {"yes"})
        /\ r.presence = Sole(Values(heard, "presence"), "UNKNOWN")
        /\ r.delta = IF context = "complete" /\ suff = "yes"
                     THEN Sole(Values(heard, "delta"), "unsure") ELSE "unsure"
        /\ r.comparison = (Values(heard, "comparison") = {TRUE})
        /\ r.context = context /\ r.contextSuff = suff
        /\ found = Verdict(r, Contradiction(heard))
    BY DEF Row
  <1>2. heard \subseteq Judgements
    BY ObservationsAreJudgements
  <1> HIDE DEF r, found, heard, context, suff
  <1>3. /\ ~Contradiction(heard) /\ r.sufficient /\ r.comparison
        /\ r.context = "complete" /\ r.contextSuff = "yes"
        /\ r.presence # "UNKNOWN" /\ r.delta # "unsure"
        /\ found \in {"USABLE_WORK_REMAINS", "LIKELY_PRESERVED"}
        /\ found = "USABLE_WORK_REMAINS" => r.delta = "yes" /\ r.presence \in {"PARTIAL", "ABSENT"}
        /\ found = "LIKELY_PRESERVED" => r.delta = "no" /\ r.presence = "PRESENT"
    BY <1>1 DEF Verdict, found
  <1>4. \A j \in heard : j.suff = "yes"
    BY <1>1, <1>3 DEF Values
  <1>5. heard # {}
    BY <1>1, <1>3 DEF Values
  <1>6. \A j \in heard : j.comparison
    <2>1. Values(heard, "comparison") = {TRUE}
      BY <1>1, <1>3
    <2>2. SUFFICES ASSUME NEW j \in heard PROVE j.comparison
      OBVIOUS
    <2>3. j["comparison"] \in Values(heard, "comparison")
      BY Zenon DEF Values
    <2>4. j["comparison"] = TRUE
      BY <2>1, <2>3, Zenon
    <2>5. QED
      BY <2>4
  <1>7. \A j \in heard : j.context = "complete"
    BY <1>1, <1>3 DEF Context, Values, context
  <1>8. \A j \in heard : j.presence = r.presence
    <2>1. Values(heard, "presence") \subseteq {"PRESENT", "PARTIAL", "ABSENT", "UNKNOWN"}
      BY <1>2, JudgementFields DEF Values
    <2>2. IsFiniteSet(Values(heard, "presence"))
      BY <2>1, FewAreFinite, FS_Subset
    <2>3. Values(heard, "presence") = {r.presence}
      BY <1>1, <1>3, <2>2, SoleIsShared
    <2>4. QED
      BY <2>3 DEF Values
  <1>9. \A j \in heard : j.delta = r.delta
    <2>1. Values(heard, "delta") \subseteq {"yes", "no", "unsure"}
      BY <1>2, JudgementFields DEF Values
    <2>2. IsFiniteSet(Values(heard, "delta"))
      BY <2>1, FewAreFinite, FS_Subset
    <2>3. r.delta = Sole(Values(heard, "delta"), "unsure")
      BY <1>1, <1>3
    <2>4. Values(heard, "delta") = {r.delta}
      BY <1>3, <2>2, <2>3, SoleIsShared
    <2>5. QED
      BY <2>4 DEF Values
  <1>10. r.delta \in {"yes", "no"}
    BY <1>3
  <1>11. ASSUME NEW i \in heard, NEW j \in heard, {i.edge, j.edge} = {"yes", "no"}
         PROVE  FALSE
    <2> DEFINE edges == Values(heard, "edge") \ {"unsure"}
    <2>1. edges \subseteq {"yes", "no", "unsure"} /\ {"yes", "no"} \subseteq edges
      BY <1>2, <1>11, JudgementFields DEF Values
    <2>2. IsFiniteSet(edges)
      BY <2>1, FewAreFinite, FS_Subset
    <2>3. 2 <= Cardinality(edges) /\ Cardinality(edges) \in Nat
      BY <2>1, <2>2, FewAreFinite, FS_Subset, FS_CardinalityType
    <2>4. Disagree(heard, "edge", "unsure")
      BY <2>3 DEF Disagree
    <2>5. QED
      BY <1>3, <2>4 DEF Contradiction
  <1>12. QED
    BY <1>3, <1>4, <1>5, <1>6, <1>7, <1>8, <1>9, <1>10, <1>11 DEF r, heard, found

\* A document of a reviewer that was approved: if it decides to integrate into main,
\* what the reviewer had in front of them is recorded in e.
Weighed(decision, e) ==
  decision.disposition = "INTEGRATE" /\ decision.destination = "main" =>
    decision.provenance \in e

\* A ledger is what build_outcomes makes of a presence result, a review and a receipt.
TrueOutcomes(o, e) ==
  LET p == o.provenance.presence IN
  /\ p # NoFile => TruePresence(p)
  /\ o.reviews = Reviews(p) /\ o.tasks \subseteq Judged(p, "USABLE_WORK_REMAINS")
  /\ o.status = ReviewStatus(o.decision, o.provenance)
  /\ o.approved = "verified" => o.decision # NoFile /\ Weighed(o.decision, e)

EvidenceInv ==
  /\ answered # NoFile => TrueAnswers(answered)
  /\ presence # NoFile => TruePresence(presence)
  /\ outcomes # NoFile => TrueOutcomes(outcomes, endorsed)
  /\ approval # NoFile => Weighed(approval, endorsed)
  /\ ReadyIsEarned

\* The reader of a presence result accepts what reconcile_presence writes.
LEMMA TrueIsValid ==
  ASSUME NEW p, TruePresence(p)
  PROVE  ValidPresence(p)
  <1> SUFFICES ASSUME NEW u \in Units, p.units[u].routed
               PROVE  p.origin = "jev" /\ Justified(p.units[u])
    BY DEF ValidPresence, TruePresence
  <1>1. TrueAnswers(p.from) /\ p.units[u] = Row(p.from, u) /\ p.origin = p.from.origin
    BY DEF TruePresence
  <1>2. Row(p.from, u).routed = Routeable(p.from.origin, Row(p.from, u).verdict)
    BY DEF Row
  <1>3. p.from.origin = "jev" /\ Row(p.from, u).verdict # "UNRESOLVED"
    BY <1>1, <1>2 DEF Routeable
  <1>4. Justified(Row(p.from, u))
    BY <1>1, <1>3, DecidedRow DEF Justified
  <1>5. QED
    BY <1>1, <1>3, <1>4

\* A unit judged to hold usable work was judged so by every answer of the executor.
LEMMA JudgedByAll ==
  ASSUME NEW p, p # NoFile => TruePresence(p),
         NEW u \in Judged(p, "USABLE_WORK_REMAINS")
  PROVE  /\ p # NoFile /\ p.origin = "jev" /\ Observations(p.from, u) # {}
         /\ \A j \in Observations(p.from, u) :
              j.suff = "yes" /\ j.delta = "yes" /\ j.presence \in {"PARTIAL", "ABSENT"}
  <1>1. /\ u \in Units /\ Reviews(p)[u].routed
        /\ Reviews(p)[u].verdict = "USABLE_WORK_REMAINS"
    BY DEF Judged
  <1>2. p # NoFile
    BY <1>1 DEF Reviews, Unanswered
  <1>3. /\ TrueAnswers(p.from) /\ p.units[u] = Row(p.from, u)
        /\ p.units[u].routed /\ p.units[u].verdict = "USABLE_WORK_REMAINS"
    BY <1>1, <1>2 DEF TruePresence, Reviews
  <1>4. p.origin = "jev"
    BY <1>1, <1>2, <1>3, TrueIsValid DEF ValidPresence, TruePresence
  <1>5. Row(p.from, u).verdict = "USABLE_WORK_REMAINS"
    BY <1>3
  <1>6. QED
    BY <1>2, <1>3, <1>4, <1>5, DecidedRow

\* The planner accepts what build_outcomes writes.
LEMMA TrueIsValidOutcomes ==
  ASSUME NEW o, NEW e, TrueOutcomes(o, e)
  PROVE  ValidOutcomes(o)
  <1> DEFINE p == o.provenance.presence
  <1>1. /\ p # NoFile => TruePresence(p) /\ ValidPresence(p)
        /\ o.reviews = Reviews(p) /\ o.tasks \subseteq Judged(p, "USABLE_WORK_REMAINS")
        /\ o.status = ReviewStatus(o.decision, o.provenance)
        /\ o.approved = "verified" => o.decision # NoFile
    BY TrueIsValid DEF TrueOutcomes
  <1>2. ASSUME NEW u \in Units, o.reviews[u].routed
        PROVE  p # NoFile /\ p.origin = "jev" /\ Justified(o.reviews[u])
    <2>1. p # NoFile
      BY <1>1, <1>2 DEF Reviews, Unanswered
    <2>2. o.reviews[u] = p.units[u]
      BY <1>1, <2>1 DEF Reviews
    <2>3. QED
      BY <1>1, <1>2, <2>1, <2>2 DEF ValidPresence, TruePresence
  <1>3. \A u \in o.tasks : /\ o.reviews[u].routed
                           /\ o.reviews[u].verdict = "USABLE_WORK_REMAINS"
    BY <1>1 DEF Judged
  <1>4. o.status = "current" => o.decision # NoFile /\ o.decision.provenance = o.provenance
    BY <1>1 DEF ReviewStatus, SameEvidence
  <1>5. QED
    BY <1>1, <1>2, <1>3, <1>4 DEF ValidOutcomes

LEMMA EvidenceStarts == EvidenceInit => EvidenceInv
  BY DEF EvidenceInit, EvidenceInv, ReadyIsEarned

\* A plan is ready only for what the reviewer saw.
LEMMA PlansAreEarned ==
  ASSUME EvidenceInv, BuildPreservationPlan
  PROVE  ReadyIsEarned'
  <1>1. /\ outcomes # NoFile /\ ValidOutcomes(outcomes) /\ endorsed' = endorsed
        /\ actions' = [outcomes |-> outcomes,
                       state |-> [u \in outcomes.tasks |-> ActionState(outcomes)]]
    BY DEF BuildPreservationPlan
  <1>2. TrueOutcomes(outcomes, endorsed)
    BY <1>1 DEF EvidenceInv
  <1> DEFINE o == outcomes
             p == o.provenance.presence
  <1>3. /\ actions'.outcomes = o /\ DOMAIN actions'.state = o.tasks
        /\ \A u \in o.tasks : actions'.state[u] = ActionState(o)
    BY <1>1
  <1>4. SUFFICES ASSUME NEW u \in o.tasks, ActionState(o) = "READY"
                 PROVE  /\ o.provenance \in endorsed
                        /\ p # NoFile /\ p.origin = "jev"
                        /\ \A j \in Observations(p.from, u) :
                             j.suff = "yes" /\ j.delta = "yes" /\ j.presence \in {"PARTIAL", "ABSENT"}
                        /\ Observations(p.from, u) # {}
    BY <1>1, <1>3 DEF ReadyIsEarned
  <1>5. Selected(o) /\ o.decision.destination = "main" /\ o.approved = "verified"
    BY <1>4 DEF ActionState
  <1>6. o.decision.provenance = o.provenance
    BY <1>1, <1>5 DEF Selected, ValidOutcomes
  <1>7. o.provenance \in endorsed
    BY <1>2, <1>5, <1>6 DEF TrueOutcomes, Weighed, Selected
  <1>8. (p # NoFile => TruePresence(p)) /\ u \in Judged(p, "USABLE_WORK_REMAINS")
    BY <1>2, <1>4 DEF TrueOutcomes
  <1>9. QED
    BY <1>7, <1>8, JudgedByAll

\* A step that changes no document of the invariant.
LEMMA EvidenceStutters ==
  ASSUME EvidenceInv, UNCHANGED <<answered, presence, outcomes, approval, endorsed, actions>>
  PROVE  EvidenceInv'
  <1>1. ReadyIsEarned'
    BY DEF EvidenceInv, ReadyIsEarned
  <1>2. QED
    BY <1>1 DEF EvidenceInv

LEMMA AnswersAreTrue ==
  ASSUME EvidenceInv, NEW origin \in Origins, AnswerRequests(origin)
  PROVE  EvidenceInv'
  <1>0. PICK R \in SUBSET Requests : \E given \in [R -> [Units -> Judgements]] :
          answered' = [origin |-> origin, pins |-> pins,
                       given |-> [r \in R |-> [u \in Bound[r] |-> given[r][u]]]]
    BY DEF AnswerRequests
  <1>1. PICK given \in [R -> [Units -> Judgements]] :
          answered' = [origin |-> origin, pins |-> pins,
                       given |-> [r \in R |-> [u \in Bound[r] |-> given[r][u]]]]
    BY <1>0
  <1>2. \A r \in R : Bound[r] \subseteq Units
    BY EvidenceAssumption
  <1>3. TrueAnswers(answered')
    BY <1>1, <1>2 DEF TrueAnswers
  <1>4. UNCHANGED <<presence, outcomes, approval, endorsed, actions>>
    BY DEF AnswerRequests
  <1>5. ReadyIsEarned'
    BY <1>4 DEF EvidenceInv, ReadyIsEarned
  <1>6. QED
    BY <1>3, <1>4, <1>5 DEF EvidenceInv

LEMMA PresenceIsTrue ==
  ASSUME EvidenceInv, ReconcilePresence
  PROVE  EvidenceInv'
  <1>1. TruePresence(presence')
    BY DEF ReconcilePresence, EvidenceInv, TruePresence
  <1>2. UNCHANGED <<answered, outcomes, approval, endorsed, actions>>
    BY DEF ReconcilePresence
  <1>3. ReadyIsEarned'
    BY <1>2 DEF EvidenceInv, ReadyIsEarned
  <1>4. QED
    BY <1>1, <1>2, <1>3 DEF EvidenceInv

LEMMA OutcomesAreTrue ==
  ASSUME EvidenceInv, NEW p \in {NoFile, presence}, NEW d \in {NoFile, review},
         NEW a \in {NoFile, approval}, BuildOutcomes(p, d, a)
  PROVE  EvidenceInv'
  <1>1. /\ outcomes' = [provenance |-> Provenance(p), reviews |-> Reviews(p),
                        disposition |-> Disposition(p), tasks |-> Tasks(p),
                        decision |-> d, status |-> ReviewStatus(d, Provenance(p)),
                        approved |-> ApprovalStatus(d, a)]
        /\ a # NoFile => d # NoFile /\ a = d
    BY DEF BuildOutcomes, Approves
  <1>2. outcomes'.provenance.presence = p
    BY <1>1 DEF Provenance
  <1>3. p # NoFile => TruePresence(p)
    BY DEF EvidenceInv
  <1>4. Tasks(p) \subseteq Judged(p, "USABLE_WORK_REMAINS")
    BY DEF Tasks
  <1>5. ApprovalStatus(d, a) = "verified" => d # NoFile /\ Weighed(d, endorsed)
    BY <1>1 DEF ApprovalStatus, EvidenceInv
  <1>6. TrueOutcomes(outcomes', endorsed)
    BY <1>1, <1>2, <1>3, <1>4, <1>5 DEF TrueOutcomes
  <1>7. UNCHANGED <<answered, presence, approval, endorsed, actions>>
    BY DEF BuildOutcomes
  <1>8. ReadyIsEarned'
    BY <1>7 DEF EvidenceInv, ReadyIsEarned
  <1>9. QED
    BY <1>6, <1>7, <1>8 DEF EvidenceInv

\* An approval only adds to what was endorsed.
LEMMA ApprovalsAreWeighed ==
  ASSUME EvidenceInv, ApproveOutcomeReview
  PROVE  EvidenceInv'
  <1>1. /\ approval' = review /\ endorsed \subseteq endorsed'
        /\ Weighed(review, endorsed')
        /\ UNCHANGED <<answered, presence, outcomes, actions>>
    BY DEF ApproveOutcomeReview, Weighed
  <1>2. ASSUME outcomes # NoFile
        PROVE  TrueOutcomes(outcomes, endorsed')
    BY <1>1, <1>2 DEF EvidenceInv, TrueOutcomes, Weighed
  <1>3. ReadyIsEarned'
    BY <1>1 DEF EvidenceInv, ReadyIsEarned
  <1>4. QED
    BY <1>1, <1>2, <1>3 DEF EvidenceInv

LEMMA EvidenceStep ==
  EvidenceInv /\ [EvidenceNext]_evidenceVars => EvidenceInv'
  <1> SUFFICES ASSUME EvidenceInv, [EvidenceNext]_evidenceVars
               PROVE  EvidenceInv'
    OBVIOUS
  <1>1. CASE Recollect
    BY <1>1, EvidenceStutters DEF Recollect
  <1>2. CASE ReconcilePresence
    BY <1>2, PresenceIsTrue
  <1>3. CASE LegacyReview
    BY <1>3, EvidenceStutters DEF LegacyReview
  <1>4. CASE ApproveOutcomeReview
    BY <1>4, ApprovalsAreWeighed
  <1>5. CASE BuildPreservationPlan
    <2>1. UNCHANGED <<answered, presence, outcomes, approval, endorsed>>
      BY <1>5 DEF BuildPreservationPlan
    <2>2. QED
      BY <1>5, <2>1, PlansAreEarned DEF EvidenceInv
  <1>6. ASSUME NEW origin \in Origins, AnswerRequests(origin)
        PROVE  EvidenceInv'
    BY <1>6, AnswersAreTrue
  <1>7. ASSUME NEW p \in {NoFile, presence}, NEW d \in {NoFile, review},
               NEW a \in {NoFile, approval}, BuildOutcomes(p, d, a)
        PROVE  EvidenceInv'
    BY <1>7, OutcomesAreTrue
  <1>8. ASSUME NEW d, NEW destination, ExportReview(d, destination)
        PROVE  EvidenceInv'
    BY <1>8, EvidenceStutters DEF ExportReview
  <1>9. CASE UNCHANGED evidenceVars
    BY <1>9, EvidenceStutters DEF evidenceVars
  <1>10. QED
    BY <1>1, <1>2, <1>3, <1>4, <1>5, <1>6, <1>7, <1>8, <1>9 DEF EvidenceNext

LEMMA EvidenceInvAlways == EvidenceSpec => []EvidenceInv
  BY EvidenceStarts, EvidenceStep, PTL DEF EvidenceSpec

LEMMA EvidenceSays ==
  EvidenceInv => DecidedIsUnanimous /\ StagesAgree /\ ReadyIsEarned
  <1> SUFFICES ASSUME EvidenceInv
               PROVE  DecidedIsUnanimous /\ StagesAgree /\ ReadyIsEarned
    OBVIOUS
  <1>1. ASSUME presence # NoFile, NEW u \in Units, presence.units[u].verdict # "UNRESOLVED"
        PROVE  LET heard == Observations(presence.from, u) IN
               /\ heard # {}
               /\ \A i, j \in heard : /\ i.presence = j.presence /\ i.delta = j.delta
                                      /\ {i.edge, j.edge} # {"yes", "no"}
               /\ \A i \in heard : i.suff = "yes" /\ i.comparison /\ i.context = "complete"
    <2>1. TrueAnswers(presence.from) /\ Row(presence.from, u).verdict # "UNRESOLVED"
      BY <1>1 DEF EvidenceInv, TruePresence
    <2>2. QED
      BY <2>1, DecidedRow
  <1>2. DecidedIsUnanimous
    BY <1>1 DEF DecidedIsUnanimous
  <1>3. StagesAgree
    BY TrueIsValid, TrueIsValidOutcomes DEF EvidenceInv, StagesAgree
  <1>4. QED
    BY <1>2, <1>3 DEF EvidenceInv

\* Whatever the answers, a row that decides rests on observations that agree with one
\* another (reconcile_presence).
THEOREM DecisionsAreUnanimous == EvidenceSpec => []DecidedIsUnanimous
  BY EvidenceInvAlways, EvidenceSays, PTL

\* No stage of presence, outcomes and preservation refuses what the one before it wrote.
THEOREM StagesAlwaysAgree == EvidenceSpec => []StagesAgree
  BY EvidenceInvAlways, EvidenceSays, PTL

\* A unit is ready for implementation only on the executor's own answers and with a
\* person's approval of exactly this evidence (build_preservation_plan).
THEOREM ReadinessIsEarned == EvidenceSpec => []ReadyIsEarned
  BY EvidenceInvAlways, EvidenceSays, PTL

----------------------------------------------------------------------------
(* Commands.  Every step of a composed behaviour is a step of one part and *)
(* leaves the others as they are, so what is proved of a part holds here.  *)

LEMMA CommandsStart ==
  CommandsInit =>
    PlanningInit /\ CapabilityInit /\ EvidenceInit /\ SecretsInit /\ GroupsInit
  BY DEF CommandsInit

LEMMA PartsStep ==
  ASSUME [CommandsNext]_commandVars
  PROVE  /\ [PlanningNext]_planningVars /\ [CapabilityNext]_capabilityVars
         /\ [EvidenceNext]_evidenceVars /\ [SecretsNext]_secretVars
         /\ [GroupsNext]_groupVars
  BY DEF CommandsNext, Dispatch, commandVars

\* A behaviour of the composition is one of every part.
THEOREM PartsAreImplemented ==
  CommandsSpec =>
    PlanningSpec /\ CapabilitySpec /\ EvidenceSpec /\ SecretsSpec /\ GroupsSpec
  <1>1. CommandsSpec => SecretsInit /\ [][SecretsNext]_secretVars
    BY CommandsStart, PartsStep, PTL DEF CommandsSpec
  <1>2. CommandsSpec => PlanningSpec /\ CapabilitySpec /\ EvidenceSpec /\ GroupsSpec
    BY CommandsStart, PartsStep, PTL
    DEF CommandsSpec, PlanningSpec, CapabilitySpec, EvidenceSpec, GroupsSpec
  <1>3. QED
    BY <1>1, <1>2, RunsAreIncluded, PTL

\* The state of every command stays well typed.
THEOREM CommandsTypeCorrect == CommandsSpec => []CommandsTypeOK
  <1>1. PlanningTypeOK /\ CapabilityTypeOK /\ SecretsTypeOK /\ GroupsTypeOK => CommandsTypeOK
    BY DEF CommandsTypeOK
  <1>2. QED
    BY <1>1, PartsAreImplemented, PlanningTypeCorrect, CapabilityTypeCorrect,
       SecretsTypeCorrect, GroupsTypeCorrect, PTL

\* What the parts promise, the composition keeps: the invariants of the Commands run.
THEOREM CommandsAreSafe ==
  CommandsSpec =>
    /\ []CandidatesAreExpendable /\ []CandidatesLayStill /\ []VerdictsAgree
    /\ []SnapshotIsWhole
    /\ []NoStaleReceipt /\ []NoRestartUnseen /\ []WaitCrossesNoRestart
    /\ []DecidedIsUnanimous /\ []StagesAgree /\ []ReadyIsEarned
    /\ []KeysAgree /\ []OnlyLiveTokens /\ []CompleteIsClosed
  <1>1. PlanningSpec => /\ []CandidatesAreExpendable /\ []CandidatesLayStill
                        /\ []VerdictsAgree /\ []SnapshotIsWhole
    BY PlansAreExpendable, PlansLayStill, VerdictsAlwaysAgree, SnapshotsAreWhole, PTL
  <1>2. CapabilitySpec => []NoStaleReceipt /\ []NoRestartUnseen /\ []WaitCrossesNoRestart
    BY NeverStale, RestartsAreSeen, WaitMeetsOneProcess, PTL
  <1>3. EvidenceSpec => []DecidedIsUnanimous /\ []StagesAgree /\ []ReadyIsEarned
    BY DecisionsAreUnanimous, StagesAlwaysAgree, ReadinessIsEarned, PTL
  <1>4. QED
    BY <1>1, <1>2, <1>3, PartsAreImplemented, KeysNeverDiffer, TokensLive,
       GroupsAreClosed, PTL
============================================================================
