----------------------- MODULE CleanupPlanningProofs -----------------------
(***************************************************************************)
(* Proofs about CleanupPlanning and the observations it rests on, for any  *)
(* commit graph (also where branches were merged into each other, and      *)
(* whichever best common ancestor git prints there), any branches and any  *)
(* interference: the tools never contradict each other, a snapshot is      *)
(* whole, and a planned branch can go without loss.                        *)
(***************************************************************************)
EXTENDS CleanupPlanning, TLAPS

PlanningSpec == PlanningInit /\ [][PlanningNext]_planningVars

----------------------------------------------------------------------------
(* The commit graph. *)

\* The merge base git prints of two commits, whatever objects are left.
Base(a, b) == IF Best(a, b) # {} THEN Printed[a][b] ELSE NoTip

LEMMA BaseIsBest ==
  ASSUME NEW a \in Commits, NEW b \in Commits, Base(a, b) # NoTip
  PROVE  Base(a, b) \in Best(a, b)
  BY RepositoryAssumption DEF Base

\* A common ancestor that no other one descends from.
LEMMA BestIsCommon ==
  ASSUME NEW a \in Commits, NEW b \in Commits, NEW c \in Best(a, b)
  PROVE  /\ c \in History[a] \cap History[b] /\ c \in Commits
         /\ \A d \in History[a] \cap History[b] : c \in History[d] => d = c
  BY RepositoryAssumption DEF Best

\* git may print another one when the arguments are swapped, but then there is one.
LEMMA BestIsSymmetric ==
  ASSUME NEW a \in Commits, NEW b \in Commits
  PROVE  /\ Best(a, b) = Best(b, a)
         /\ Base(a, b) # NoTip <=> Best(a, b) # {}
         /\ Base(a, b) # NoTip <=> Base(b, a) # NoTip
  <1>1. Best(a, b) = Best(b, a)
    BY DEF Best
  <1>2. Best(a, b) # {} => Base(a, b) # NoTip
    <2>1. Best(a, b) # {} => Base(a, b) \in Best(a, b)
      BY RepositoryAssumption DEF Base
    <2>2. Best(a, b) \subseteq Commits /\ NoTip \notin Commits
      BY BestIsCommon, RepositoryAssumption
    <2>3. QED
      BY <2>1, <2>2
  <1>3. Best(b, a) # {} => Base(b, a) # NoTip
    <2>1. Best(b, a) # {} => Base(b, a) \in Best(b, a)
      BY RepositoryAssumption DEF Base
    <2>2. Best(b, a) \subseteq Commits /\ NoTip \notin Commits
      BY BestIsCommon, RepositoryAssumption
    <2>3. QED
      BY <2>1, <2>2
  <1>4. /\ Best(a, b) = {} => Base(a, b) = NoTip
        /\ Best(b, a) = {} => Base(b, a) = NoTip
    BY DEF Base
  <1>5. QED
    BY <1>1, <1>2, <1>3, <1>4

\* The base of an ancestor and its descendant is the ancestor.
LEMMA BaseOfAncestor ==
  ASSUME NEW a \in Commits, NEW b \in Commits, a \in History[b], Base(a, b) # NoTip
  PROVE  Base(a, b) = a
  <1>1. a \in History[a] \cap History[b]
    BY RepositoryAssumption
  <1>2. Base(a, b) \in Best(a, b)
    BY BaseIsBest
  <1>3. QED
    BY <1>1, <1>2, BestIsCommon

\* merge_base answers with the base while both commits are there.
LEMMA MergeBaseIsBase ==
  ASSUME objects \subseteq Commits, NEW a, NEW b
  PROVE  /\ MergeBase(a, b) = IF Has(a) /\ Has(b) THEN Base(a, b) ELSE NoTip
         /\ Has(a) => a \in Commits
         /\ Has(b) => b \in Commits
  BY DEF MergeBase, Base, Has

\* Whatever the tip changed since the base lies at the destination.
Contained(tip, dest) == SameAt(ChangedPaths(Base(tip, dest), tip), tip, dest)

LEMMA AncestorIsContained ==
  ASSUME NEW a \in Commits, NEW b \in Commits, IsAncestor(a, b), Base(a, b) # NoTip
  PROVE  Contained(a, b)
  BY BaseOfAncestor DEF IsAncestor, Contained, SameAt, ChangedPaths

LEMMA SameTreeIsContained ==
  ASSUME NEW a \in Commits, NEW b \in Commits, Tree[a] = Tree[b]
  PROVE  Contained(a, b)
  BY DEF Contained, SameAt, ChangedPaths

----------------------------------------------------------------------------
(* The repository. *)

LEMMA RepositoryBounds ==
  /\ Main \in Branches /\ MaxTime \in Nat /\ MaxEvents \in Nat
  /\ NoTip \notin Commits /\ NoTip \notin Branches /\ NoLog \notin Int
  BY RepositoryAssumption

RepositoryInv == RepositoryTypeOK /\ stirred \subseteq Branches /\ refs[Main] # NoTip

LEMMA OthersKeepRepository ==
  ASSUME RepositoryInv, Others
  PROVE  RepositoryInv'
  <1> USE RepositoryBounds DEF RepositoryInv, RepositoryTypeOK, Event, Tips, Times
  <1>1. ASSUME NEW b \in Branches, NEW c \in MovedTo, MoveRef(b, c), stirred' = stirred \cup {b}
        PROVE  RepositoryInv'
    BY <1>1 DEF MoveRef
  <1>2. ASSUME NEW b \in Branches, DeleteRef(b), stirred' = stirred \cup {b}
        PROVE  RepositoryInv'
    BY <1>2 DEF DeleteRef
  <1>3. ASSUME NEW b \in Branches, CheckOut(b), UNCHANGED stirred PROVE RepositoryInv'
    BY <1>3 DEF CheckOut
  <1>4. ASSUME NEW b \in Branches, Stash(b), UNCHANGED stirred PROVE RepositoryInv'
    BY <1>4 DEF Stash
  <1>5. CASE Prune /\ UNCHANGED stirred
    BY <1>5 DEF Prune
  <1>6. CASE Tick /\ UNCHANGED stirred
    BY <1>6 DEF Tick
  <1>7. QED
    BY <1>1, <1>2, <1>3, <1>4, <1>5, <1>6 DEF Others

\* A branch whose ref moved after the time of a cutoff shows it, or has no reflog.
StirredSince(limit) ==
  /\ limit \in Int /\ limit + Recent <= now
  /\ \A b \in stirred : reflog[b] = NoLog \/ reflog[b] >= limit + Recent

LEMMA OthersKeepStirred ==
  ASSUME RepositoryInv, Others, NEW limit, StirredSince(limit)
  PROVE  StirredSince(limit)'
  <1> USE ObservationAssumption, RepositoryBounds
      DEF RepositoryInv, RepositoryTypeOK, Times, StirredSince
  <1>1. ASSUME NEW b \in Branches, NEW c \in MovedTo, MoveRef(b, c), stirred' = stirred \cup {b}
        PROVE  StirredSince(limit)'
    BY <1>1 DEF MoveRef
  <1>2. ASSUME NEW b \in Branches, DeleteRef(b), stirred' = stirred \cup {b}
        PROVE  StirredSince(limit)'
    BY <1>2 DEF DeleteRef
  <1>3. ASSUME NEW b \in Branches, CheckOut(b) \/ Stash(b), UNCHANGED stirred
        PROVE  StirredSince(limit)'
    BY <1>3 DEF CheckOut, Stash
  <1>4. CASE (Prune \/ Tick) /\ UNCHANGED stirred
    BY <1>4 DEF Prune, Tick
  <1>5. QED
    BY <1>1, <1>2, <1>3, <1>4 DEF Others

----------------------------------------------------------------------------
(* The inductive invariant: what the tools have found is true of the       *)
(* commits they looked at, whatever the refs do meanwhile.                 *)

\* A listing of the inventory records commits and how they lie to the main branch.
TrueListing(list) ==
  /\ DOMAIN list \subseteq Branches /\ Main \in DOMAIN list
  /\ \A b \in DOMAIN list :
       /\ list[b].tip \in Commits
       /\ list[b].base \in {NoTip, Base(list[Main].tip, list[b].tip)}
       /\ list[b].merged => IsAncestor(list[b].tip, list[Main].tip)

Settles(list, b, kept) ==
  LET tip  == list[b].tip
      dest == list[Main].tip
  IN Base(tip, dest) # NoTip /\ (Contained(tip, dest) <=> kept)

\* A verdict of coverage.
TrueCover(list, b, found) ==
  /\ found \in Verdicts
  /\ b # Main => /\ found = "EXACT" => Settles(list, b, TRUE)
                 /\ found = "DISTINCT" => Settles(list, b, FALSE)

\* A row of equivalence.
TrueEqual(list, b, row) ==
  LET tip  == list[b].tip
      dest == list[Main].tip
  IN b # Main =>
       /\ row.at = Main => \/ tip = dest \/ IsAncestor(tip, dest)
                           \/ Tree[tip] = Tree[dest] \/ Settles(list, b, TRUE)
       /\ row.verdict = "UNIQUE_WORK_REMAINS" =>
            Settles(list, b, FALSE) /\ ~IsAncestor(tip, dest)

\* A branch of the snapshot.
TrueCapture(list, b, row) ==
  /\ row = [tip |-> row.tip, base |-> row.base, eligible |-> row.eligible]
  /\ row.tip = list[b].tip
  /\ row.base \in {NoTip, Base(row.tip, list[Main].tip), Base(list[Main].tip, row.tip)}
  /\ row.eligible => row.base # NoTip

TrueSnapshot(list, s) ==
  /\ DOMAIN s.branches = DOMAIN list \ {Main}
  /\ s.main = list[Main].tip
  /\ s.pins = {s.main} \cup {s.branches[b].tip : b \in DOMAIN s.branches}
                \cup ({s.branches[b].base : b \in DOMAIN s.branches} \ {NoTip})
  /\ s.store = UNION {History[c] : c \in s.pins}
  /\ \A b \in DOMAIN s.branches : TrueCapture(list, b, s.branches[b])

ToolInv ==
  /\ tool \in {"none", "inventory", "coverage", "equivalence", "snapshot",
               "exported", "failed", "plan", "planning"}
  /\ todo \subseteq Branches /\ DOMAIN rows \subseteq Branches
  /\ live \in [Branches -> Tips]
  /\ held \subseteq Branches

\* Which artifact a tool needs, and which one it makes.
OrderInv ==
  /\ inventory = NoArtifact =>
       coverage = NoArtifact /\ equivalence = NoArtifact /\ snapshot = NoArtifact
  /\ coverage = NoArtifact => plan = NoArtifact
  /\ tool = "inventory" => inventory = NoArtifact /\ todo = {}
  /\ tool \in {"coverage", "equivalence", "snapshot", "exported", "failed"} =>
       inventory # NoArtifact
  /\ tool = "coverage" => coverage = NoArtifact
  /\ tool \in {"plan", "planning"} => coverage # NoArtifact

InventoryInv ==
  /\ tool = "inventory" /\ rows # <<>> => TrueListing(rows)
  /\ inventory # NoArtifact => TrueListing(inventory.branches)

CoverageInv ==
  /\ tool = "coverage" =>
       /\ StirredSince(cutoff)
       /\ todo \cup DOMAIN rows = DOMAIN inventory.branches
       /\ \A b \in DOMAIN rows : TrueCover(inventory.branches, b, rows[b])
  /\ coverage # NoArtifact =>
       /\ StirredSince(coverage.cutoff)
       /\ DOMAIN coverage.tip = DOMAIN inventory.branches
       /\ coverage.verdict \in [DOMAIN inventory.branches -> Verdicts]
       /\ \A b \in DOMAIN inventory.branches :
            TrueCover(inventory.branches, b, coverage.verdict[b])

EquivalenceInv ==
  /\ tool = "equivalence" =>
       /\ todo \cup DOMAIN rows = DOMAIN inventory.branches
       /\ \A b \in DOMAIN rows : TrueEqual(inventory.branches, b, rows[b])
  /\ equivalence # NoArtifact =>
       \A b \in DOMAIN inventory.branches :
         TrueEqual(inventory.branches, b, equivalence[b])

SnapshotInv ==
  /\ tool \in {"snapshot", "exported", "failed"} =>
       /\ todo \cup DOMAIN rows = DOMAIN inventory.branches \ {Main}
       /\ \A b \in DOMAIN rows : TrueCapture(inventory.branches, b, rows[b])
  /\ tool = "exported" => todo = {}
  /\ snapshot # NoArtifact => TrueSnapshot(inventory.branches, snapshot)

PlanInv ==
  /\ tool \in {"plan", "planning"} =>
       /\ todo \cup DOMAIN rows \subseteq DOMAIN coverage.tip \ {Main}
       /\ \A b \in DOMAIN rows : rows[b].eligible => live[b] # NoTip /\ ~rows[b].stirred
  /\ plan # NoArtifact => plan.candidates \subseteq DOMAIN coverage.tip \ {Main}
  /\ CandidatesAreExpendable
  /\ CandidatesLayStill

PlanningInv ==
  /\ RepositoryInv /\ ToolInv /\ OrderInv /\ InventoryInv
  /\ CoverageInv /\ EquivalenceInv /\ SnapshotInv /\ PlanInv

----------------------------------------------------------------------------
(* Others leave the tools alone. *)

LEMMA OthersKeepInv ==
  ASSUME PlanningInv, Others, UNCHANGED <<scratch, artifacts, planning>>
  PROVE  PlanningInv'
  <1> USE DEF scratch, artifacts, planning
  <1>1. RepositoryInv'
    BY OthersKeepRepository DEF PlanningInv
  <1>2. ToolInv' /\ OrderInv' /\ InventoryInv'
    BY DEF PlanningInv, ToolInv, OrderInv, InventoryInv
  <1>3. EquivalenceInv' /\ SnapshotInv'
    BY DEF PlanningInv, EquivalenceInv, SnapshotInv
  <1>4. PlanInv'
    BY DEF PlanningInv, PlanInv, CandidatesAreExpendable, CandidatesLayStill
  <1>5. ASSUME NEW limit, StirredSince(limit)
        PROVE  StirredSince(limit)'
    BY <1>5, OthersKeepStirred DEF PlanningInv
  <1>6. ASSUME tool = "coverage"
        PROVE  StirredSince(cutoff)'
    <2>1. PICK limit : limit = cutoff
      OBVIOUS
    <2>2. StirredSince(limit)
      BY <1>6, <2>1 DEF PlanningInv, CoverageInv
    <2>3. QED
      BY <1>5, <2>1, <2>2 DEF StirredSince
  <1>7. ASSUME coverage # NoArtifact
        PROVE  StirredSince(coverage.cutoff)'
    <2>1. PICK limit : limit = coverage.cutoff
      OBVIOUS
    <2>2. StirredSince(limit)
      BY <1>7, <2>1 DEF PlanningInv, CoverageInv
    <2>3. QED
      BY <1>5, <2>1, <2>2 DEF StirredSince
  <1>8. CoverageInv'
    BY <1>6, <1>7 DEF PlanningInv, CoverageInv
  <1>9. QED
    BY <1>1, <1>2, <1>3, <1>4, <1>8 DEF PlanningInv

----------------------------------------------------------------------------
(* The tools. *)

\* What a tool leaves alone: an artifact is true for as long as it is there.
LEMMA RepositoryStands ==
  ASSUME RepositoryInv, UNCHANGED <<repository, stirred>>
  PROVE  RepositoryInv' /\ \A limit : StirredSince(limit) => StirredSince(limit)'
  BY DEF RepositoryInv, RepositoryTypeOK, repository, StirredSince

LEMMA ListedIsCommit ==
  ASSUME InventoryInv, inventory # NoArtifact
  PROVE  /\ DOMAIN inventory.branches \subseteq Branches /\ Main \in DOMAIN inventory.branches
         /\ RecordedMain \in Commits
         /\ \A b \in DOMAIN inventory.branches : Recorded(b) \in Commits
  BY DEF InventoryInv, TrueListing, Recorded, RecordedMain

LEMMA InventoryKeepsInv ==
  ASSUME PlanningInv, StartInventory \/ ReadBranches \/ FinishInventory, UNCHANGED planning
  PROVE  PlanningInv'
  <1> USE DEF PlanningInv, artifacts, planning
  <1>0. RepositoryInv' /\ \A limit : StirredSince(limit) => StirredSince(limit)'
    BY RepositoryStands DEF StartInventory, ReadBranches, FinishInventory
  <1>1. CASE StartInventory
    <2> USE <1>1 DEF StartInventory, Begin, Idle
    <2>1. ToolInv'
      BY DEF ToolInv, RepositoryInv, RepositoryTypeOK
    <2>2. OrderInv' /\ InventoryInv' /\ CoverageInv' /\ EquivalenceInv' /\ SnapshotInv'
      BY DEF OrderInv, InventoryInv, CoverageInv, EquivalenceInv, SnapshotInv
    <2>3. PlanInv'
      BY DEF PlanInv, CandidatesAreExpendable, CandidatesLayStill
    <2>4. QED
      BY <1>0, <2>1, <2>2, <2>3
  <1>2. CASE ReadBranches
    <2> USE <1>2 DEF ReadBranches
    <2>1. TrueListing(rows')
      <3> DEFINE Row(b) == BranchRecord(b)
      <3>1. Main \in Names(refs) /\ Names(refs) \subseteq Branches
        BY RepositoryBounds DEF Names, RepositoryInv
      <3>2. ASSUME NEW b \in Names(refs)
            PROVE  /\ Row(b).tip = refs[b]
                   /\ Row(b).tip \in Commits
                   /\ Row(b).base \in {NoTip, Base(refs[Main], refs[b])}
                   /\ Row(b).merged => IsAncestor(refs[b], refs[Main])
        <4>1. refs[b] \in Commits /\ refs[Main] \in Commits
          BY <3>1, <3>2 DEF Names, RepositoryInv, RepositoryTypeOK, Tips
        <4>2. Row(b).base = MergeBase(refs[Main], refs[b])
          BY DEF BranchRecord
        <4>3. MergeBase(refs[Main], refs[b]) \in {NoTip, Base(refs[Main], refs[b])}
          BY <4>1, MergeBaseIsBase DEF RepositoryInv, RepositoryTypeOK
        <4>4. QED
          BY <4>1, <4>2, <4>3 DEF BranchRecord
      <3> HIDE DEF Row
      <3>3. rows' = [b \in Names(refs) |-> Row(b)]
        BY DEF Row
      <3>4. QED
        BY <3>1, <3>2, <3>3 DEF TrueListing
    <2>2. ToolInv'
      BY <2>1 DEF ToolInv, TrueListing
    <2>3. OrderInv' /\ InventoryInv' /\ CoverageInv' /\ EquivalenceInv' /\ SnapshotInv'
      BY <2>1 DEF OrderInv, InventoryInv, CoverageInv, EquivalenceInv, SnapshotInv
    <2>4. PlanInv'
      BY DEF PlanInv, CandidatesAreExpendable, CandidatesLayStill
    <2>5. QED
      BY <1>0, <2>2, <2>3, <2>4
  <1>3. CASE FinishInventory
    <2> USE <1>3 DEF FinishInventory, End
    <2>1. ToolInv'
      BY RepositoryBounds DEF ToolInv, Tips
    <2>2. OrderInv' /\ InventoryInv' /\ CoverageInv' /\ EquivalenceInv' /\ SnapshotInv'
      BY DEF OrderInv, InventoryInv, CoverageInv, EquivalenceInv, SnapshotInv
    <2>3. PlanInv'
      BY DEF PlanInv, OrderInv, CandidatesAreExpendable, CandidatesLayStill
    <2>4. QED
      BY <1>0, <2>1, <2>2, <2>3
  <1>4. QED
    BY <1>1, <1>2, <1>3

\* A verdict of coverage is about the recorded tips, whatever the refs are now.
LEMMA VerdictIsTrue ==
  ASSUME RepositoryInv, InventoryInv, inventory # NoArtifact,
         NEW b \in DOMAIN inventory.branches
  PROVE  TrueCover(inventory.branches, b, CoverageVerdict(b))
  <1> DEFINE tip  == Recorded(b)
             dest == RecordedMain
  <1>1. tip \in Commits /\ dest \in Commits
    BY ListedIsCommit
  <1>2. MergeBase(tip, dest) # NoTip => MergeBase(tip, dest) = Base(tip, dest)
    BY MergeBaseIsBase DEF RepositoryInv, RepositoryTypeOK
  <1>3. /\ Exactness(tip) \in Verdicts
        /\ Exactness(tip) = "EXACT" => Settles(inventory.branches, b, TRUE)
        /\ Exactness(tip) = "DISTINCT" => Settles(inventory.branches, b, FALSE)
    BY <1>2 DEF Exactness, Verdicts, Settles, Contained, Recorded, RecordedMain
  <1>4. QED
    BY <1>3 DEF CoverageVerdict, TrueCover, Verdicts

LEMMA CoverageKeepsInv ==
  ASSUME PlanningInv, UNCHANGED planning,
         StartCoverage \/ FinishCoverage \/ \E b \in Branches : CoverBranch(b)
  PROVE  PlanningInv'
  <1> USE DEF PlanningInv, artifacts, planning
  <1>1. CASE StartCoverage
    <2> USE <1>1 DEF StartCoverage, Begin, Idle, Complete
    <2>1. RepositoryInv' /\ ToolInv'
      BY ListedIsCommit DEF ToolInv, RepositoryInv, RepositoryTypeOK, repository
    <2>2. StirredSince(cutoff)'
      BY ObservationAssumption, RepositoryBounds
         DEF StirredSince, RepositoryInv, RepositoryTypeOK, repository
    <2>3. OrderInv' /\ InventoryInv' /\ CoverageInv' /\ EquivalenceInv' /\ SnapshotInv'
      BY <2>2 DEF OrderInv, InventoryInv, CoverageInv, EquivalenceInv, SnapshotInv
    <2>4. PlanInv'
      BY DEF PlanInv, CandidatesAreExpendable, CandidatesLayStill
    <2>5. QED
      BY <2>1, <2>3, <2>4
  <1>2. ASSUME NEW b \in Branches, CoverBranch(b)
        PROVE  PlanningInv'
    <2> USE <1>2 DEF CoverBranch, Look
    <2>0. RepositoryInv' /\ \A limit : StirredSince(limit) => StirredSince(limit)'
      BY RepositoryStands
    <2>1. ToolInv'
      BY DEF ToolInv
    <2>2. inventory # NoArtifact /\ b \in DOMAIN inventory.branches
      BY DEF OrderInv, CoverageInv
    <2>3. TrueCover(inventory.branches, b, CoverageVerdict(b))
      BY <2>2, VerdictIsTrue
    <2>4. CoverageInv'
      <3>1. StirredSince(cutoff)'
        BY DEF CoverageInv, StirredSince, repository
      <3>2. coverage = NoArtifact /\ DOMAIN rows' = DOMAIN rows \cup {b}
        BY DEF OrderInv
      <3>3. \A x \in DOMAIN rows' : rows'[x] = IF x = b THEN CoverageVerdict(b) ELSE rows[x]
        OBVIOUS
      <3>4. todo' \cup DOMAIN rows' = DOMAIN inventory.branches
        BY <3>2 DEF CoverageInv
      <3>5. \A x \in DOMAIN rows' : TrueCover(inventory.branches, x, rows'[x])
        BY <2>3, <3>2, <3>3 DEF CoverageInv
      <3>6. QED
        BY <3>1, <3>2, <3>4, <3>5 DEF CoverageInv
    <2>5. OrderInv' /\ InventoryInv' /\ EquivalenceInv' /\ SnapshotInv'
      BY DEF OrderInv, InventoryInv, EquivalenceInv, SnapshotInv
    <2>6. PlanInv'
      BY DEF PlanInv, CandidatesAreExpendable, CandidatesLayStill
    <2>7. QED
      BY <2>0, <2>1, <2>4, <2>5, <2>6
  <1>3. CASE FinishCoverage
    <2> USE <1>3 DEF FinishCoverage, End
    <2>0. RepositoryInv' /\ \A limit : StirredSince(limit) => StirredSince(limit)'
      BY RepositoryStands
    <2>1. ToolInv'
      BY RepositoryBounds DEF ToolInv, Tips
    <2>2. DOMAIN rows = DOMAIN inventory.branches /\ StirredSince(cutoff)
      BY DEF CoverageInv
    <2>3. /\ coverage'.cutoff = cutoff
          /\ DOMAIN coverage'.tip = DOMAIN rows
          /\ DOMAIN coverage'.verdict = DOMAIN rows
          /\ \A b \in DOMAIN rows : coverage'.verdict[b] \in {"UNKNOWN", rows[b]}
      OBVIOUS
    <2>4. \A b \in DOMAIN rows :
            /\ TrueCover(inventory.branches, b, coverage'.verdict[b])
            /\ coverage'.verdict[b] \in Verdicts
      BY <2>3 DEF CoverageInv, TrueCover, Verdicts
    <2>5. CoverageInv'
      <3>1. coverage'.verdict \in [DOMAIN rows -> Verdicts]
        BY <2>4
      <3>2. StirredSince(coverage.cutoff)'
        BY <2>2, <2>3 DEF StirredSince, repository
      <3>3. QED
        BY <2>2, <2>3, <2>4, <3>1, <3>2 DEF CoverageInv
    <2>6. OrderInv' /\ InventoryInv' /\ EquivalenceInv' /\ SnapshotInv'
      BY DEF OrderInv, InventoryInv, EquivalenceInv, SnapshotInv
    <2>7. PlanInv'
      BY DEF PlanInv, OrderInv, CandidatesAreExpendable, CandidatesLayStill
    <2>8. QED
      BY <2>0, <2>1, <2>5, <2>6, <2>7
  <1>4. QED
    BY <1>1, <1>2, <1>3

LEMMA ProvedIsTrue ==
  ASSUME RepositoryInv, NEW tip \in Commits, NEW dest \in Commits
  PROVE  /\ ProvedAt(tip, dest) =>
              \/ tip = dest \/ IsAncestor(tip, dest) \/ Tree[tip] = Tree[dest]
              \/ Base(tip, dest) # NoTip /\ Contained(tip, dest)
         /\ ~ProvedAt(tip, dest) /\ MergeBase(tip, dest) # NoTip =>
              Base(tip, dest) # NoTip /\ ~Contained(tip, dest) /\ ~IsAncestor(tip, dest)
  <1>1. MergeBase(tip, dest) # NoTip =>
          MergeBase(tip, dest) = Base(tip, dest) /\ Has(tip) /\ Has(dest)
    BY MergeBaseIsBase DEF RepositoryInv, RepositoryTypeOK
  <1>2. QED
    BY <1>1 DEF ProvedAt, Contained

\* A row of equivalence is about the recorded tips too.
LEMMA RowIsTrue ==
  ASSUME RepositoryInv, InventoryInv, inventory # NoArtifact,
         NEW b \in DOMAIN inventory.branches
  PROVE  TrueEqual(inventory.branches, b, EquivalenceRow(b))
  <1> DEFINE tip    == Recorded(b)
             dest   == RecordedMain
             row    == EquivalenceRow(b)
             proofs == {d \in Destinations \ {b} : ProvedAt(tip, Recorded(d))}
  <1>1. tip \in Commits /\ dest \in Commits
    BY ListedIsCommit
  <1>2. SUFFICES ASSUME b # Main
                 PROVE  /\ row.at = Main => ProvedAt(tip, dest)
                        /\ row.verdict = "UNIQUE_WORK_REMAINS" =>
                             ~ProvedAt(tip, dest) /\ MergeBase(tip, dest) # NoTip
    <2>1. /\ tip = inventory.branches[b].tip
          /\ dest = inventory.branches[Main].tip
      BY DEF Recorded, RecordedMain
    <2>2. QED
      BY <1>1, <2>1, ProvedIsTrue DEF TrueEqual, Settles
  <1>3. CASE row = Unproven
    BY <1>3, RepositoryBounds DEF Unproven
  <1>4. CASE /\ Main \in Destinations /\ proofs # {}
             /\ row = [verdict |-> "ALREADY_PRESERVED",
                       at |-> IF Main \in proofs THEN Main ELSE CHOOSE d \in proofs : TRUE]
    <2>1. row.at \in proofs /\ row.verdict = "ALREADY_PRESERVED"
      BY <1>4
    <2>2. Main \in proofs => ProvedAt(tip, dest)
      BY DEF RecordedMain
    <2>3. QED
      BY <2>1, <2>2
  <1>5. CASE /\ Main \in Destinations /\ proofs = {}
             /\ \A d \in Destinations \ {b} : MergeBase(tip, Recorded(d)) # NoTip
             /\ row = [verdict |-> "UNIQUE_WORK_REMAINS", at |-> NoTip]
    BY <1>2, <1>5, RepositoryBounds DEF RecordedMain
  <1>6. QED
    BY <1>2, <1>3, <1>4, <1>5 DEF EquivalenceRow

LEMMA EquivalenceKeepsInv ==
  ASSUME PlanningInv, UNCHANGED planning,
         StartEquivalence \/ FinishEquivalence \/ \E b \in Branches : CompareBranch(b)
  PROVE  PlanningInv'
  <1> USE DEF PlanningInv, artifacts, planning
  <1>0. RepositoryInv' /\ \A limit : StirredSince(limit) => StirredSince(limit)'
    BY RepositoryStands DEF StartEquivalence, FinishEquivalence, CompareBranch
  <1>1. CASE StartEquivalence
    <2> USE <1>1 DEF StartEquivalence, Begin, Idle
    <2>1. ToolInv'
      BY ListedIsCommit DEF ToolInv, RepositoryInv, RepositoryTypeOK
    <2>2. OrderInv' /\ InventoryInv' /\ CoverageInv' /\ EquivalenceInv' /\ SnapshotInv'
      BY <1>0 DEF OrderInv, InventoryInv, CoverageInv, EquivalenceInv, SnapshotInv
    <2>3. PlanInv'
      BY DEF PlanInv, CandidatesAreExpendable, CandidatesLayStill
    <2>4. QED
      BY <1>0, <2>1, <2>2, <2>3
  <1>2. ASSUME NEW b \in Branches, CompareBranch(b)
        PROVE  PlanningInv'
    <2> USE <1>2 DEF CompareBranch, Look
    <2>1. ToolInv'
      BY DEF ToolInv
    <2>2. inventory # NoArtifact /\ b \in DOMAIN inventory.branches
      BY DEF OrderInv, EquivalenceInv
    <2>3. TrueEqual(inventory.branches, b, EquivalenceRow(b))
      BY <2>2, RowIsTrue
    <2>4. EquivalenceInv'
      <3>1. DOMAIN rows' = DOMAIN rows \cup {b}
        OBVIOUS
      <3>2. \A x \in DOMAIN rows' : rows'[x] = IF x = b THEN EquivalenceRow(b) ELSE rows[x]
        OBVIOUS
      <3>3. todo' \cup DOMAIN rows' = DOMAIN inventory.branches
        BY <3>1 DEF EquivalenceInv
      <3>4. \A x \in DOMAIN rows' : TrueEqual(inventory.branches, x, rows'[x])
        BY <2>3, <3>1, <3>2 DEF EquivalenceInv
      <3>5. QED
        BY <3>3, <3>4 DEF EquivalenceInv
    <2>5. OrderInv' /\ InventoryInv' /\ SnapshotInv'
      BY DEF OrderInv, InventoryInv, SnapshotInv
    <2>6. CoverageInv'
      BY <1>0 DEF CoverageInv
    <2>7. PlanInv'
      BY DEF PlanInv, CandidatesAreExpendable, CandidatesLayStill
    <2>8. QED
      BY <1>0, <2>1, <2>4, <2>5, <2>6, <2>7
  <1>3. CASE FinishEquivalence
    <2> USE <1>3 DEF FinishEquivalence, End
    <2>1. ToolInv'
      BY RepositoryBounds DEF ToolInv, Tips
    <2>2. DOMAIN rows = DOMAIN inventory.branches
      BY DEF EquivalenceInv
    <2>3. \A b \in DOMAIN rows : TrueEqual(inventory.branches, b, equivalence'[b])
      <3>1. SUFFICES ASSUME NEW b \in DOMAIN rows
                     PROVE  TrueEqual(inventory.branches, b, equivalence'[b])
        OBVIOUS
      <3>2. equivalence'[b] \in {Unproven, rows[b]}
        OBVIOUS
      <3>3. TrueEqual(inventory.branches, b, Unproven)
        BY RepositoryBounds DEF TrueEqual, Unproven
      <3>4. QED
        BY <3>2, <3>3 DEF EquivalenceInv
    <2>4. EquivalenceInv'
      BY <2>2, <2>3 DEF EquivalenceInv
    <2>5. OrderInv' /\ InventoryInv' /\ SnapshotInv'
      BY DEF OrderInv, InventoryInv, SnapshotInv
    <2>6. CoverageInv'
      BY <1>0 DEF CoverageInv
    <2>7. PlanInv'
      BY DEF PlanInv, CandidatesAreExpendable, CandidatesLayStill
    <2>8. QED
      BY <1>0, <2>1, <2>4, <2>5, <2>6, <2>7
  <1>4. QED
    BY <1>1, <1>2, <1>3

LEMMA CaptureIsTrue ==
  ASSUME RepositoryInv, InventoryInv, inventory # NoArtifact,
         NEW b \in DOMAIN inventory.branches
  PROVE  SnapshotBase(b) \in {NoTip, Base(Recorded(b), RecordedMain),
                              Base(RecordedMain, Recorded(b))}
  BY MergeBaseIsBase
     DEF SnapshotBase, InventoryInv, TrueListing, Recorded, RecordedMain,
         RepositoryInv, RepositoryTypeOK

LEMMA SnapshotKeepsInv ==
  ASSUME PlanningInv, UNCHANGED planning,
         \/ StartSnapshot \/ ExportPins \/ FinishSnapshot \/ SnapshotFails
         \/ \E b \in Branches : CaptureBranch(b)
  PROVE  PlanningInv'
  <1> USE DEF PlanningInv, artifacts, planning
  <1>0. RepositoryInv' /\ \A limit : StirredSince(limit) => StirredSince(limit)'
    BY RepositoryStands
       DEF StartSnapshot, ExportPins, FinishSnapshot, SnapshotFails, CaptureBranch
  <1>1. CASE StartSnapshot
    <2> USE <1>1 DEF StartSnapshot, Begin, Idle, Complete
    <2>1. ToolInv'
      BY ListedIsCommit DEF ToolInv, RepositoryInv, RepositoryTypeOK
    <2>2. OrderInv' /\ InventoryInv' /\ CoverageInv' /\ EquivalenceInv' /\ SnapshotInv'
      BY <1>0 DEF OrderInv, InventoryInv, CoverageInv, EquivalenceInv, SnapshotInv
    <2>3. PlanInv'
      BY DEF PlanInv, CandidatesAreExpendable, CandidatesLayStill
    <2>4. QED
      BY <1>0, <2>1, <2>2, <2>3
  <1>2. ASSUME NEW b \in Branches, CaptureBranch(b)
        PROVE  PlanningInv'
    <2> DEFINE row == rows'[b]
    <2> USE <1>2 DEF CaptureBranch, Look
    <2>1. ToolInv'
      BY DEF ToolInv
    <2>2. inventory # NoArtifact /\ b \in DOMAIN inventory.branches
      BY DEF OrderInv, SnapshotInv
    <2>3. TrueCapture(inventory.branches, b, row)
      <3>1. /\ row = [tip |-> row.tip, base |-> row.base, eligible |-> row.eligible]
            /\ row.tip = Recorded(b)
            /\ row.base = SnapshotBase(b)
            /\ row.eligible => row.base # NoTip
        OBVIOUS
      <3>2. SnapshotBase(b) \in {NoTip, Base(Recorded(b), RecordedMain),
                                 Base(RecordedMain, Recorded(b))}
        BY <2>2, CaptureIsTrue
      <3>3. QED
        BY <3>1, <3>2 DEF TrueCapture, Recorded, RecordedMain
    <2>4. SnapshotInv'
      <3>1. DOMAIN rows' = DOMAIN rows \cup {b}
        OBVIOUS
      <3>2. \A x \in DOMAIN rows' \ {b} : rows'[x] = rows[x]
        OBVIOUS
      <3>3. todo' \cup DOMAIN rows' = DOMAIN inventory.branches \ {Main}
        BY <3>1 DEF SnapshotInv
      <3>4. \A x \in DOMAIN rows' : TrueCapture(inventory.branches, x, rows'[x])
        BY <2>3, <3>1, <3>2 DEF SnapshotInv
      <3>5. QED
        BY <3>3, <3>4 DEF SnapshotInv
    <2>5. OrderInv' /\ InventoryInv' /\ EquivalenceInv'
      BY DEF OrderInv, InventoryInv, EquivalenceInv
    <2>6. CoverageInv'
      BY <1>0 DEF CoverageInv
    <2>7. PlanInv'
      BY DEF PlanInv, CandidatesAreExpendable, CandidatesLayStill
    <2>8. QED
      BY <1>0, <2>1, <2>4, <2>5, <2>6, <2>7
  <1>3. CASE ExportPins
    <2> USE <1>3 DEF ExportPins
    <2>1. ToolInv' /\ OrderInv' /\ InventoryInv' /\ EquivalenceInv' /\ SnapshotInv'
      BY DEF ToolInv, OrderInv, InventoryInv, EquivalenceInv, SnapshotInv
    <2>2. CoverageInv'
      BY <1>0 DEF CoverageInv
    <2>3. PlanInv'
      BY DEF PlanInv, CandidatesAreExpendable, CandidatesLayStill
    <2>4. QED
      BY <1>0, <2>1, <2>2, <2>3
  <1>4. CASE FinishSnapshot
    <2> USE <1>4 DEF FinishSnapshot, End
    <2>1. ToolInv'
      BY RepositoryBounds DEF ToolInv, Tips
    <2>2. DOMAIN rows = DOMAIN inventory.branches \ {Main}
      BY DEF SnapshotInv
    <2>3. /\ snapshot'.main = RecordedMain
          /\ snapshot'.pins = Pins
          /\ snapshot'.store = UNION {History[c] : c \in Pins}
          /\ DOMAIN snapshot'.branches = DOMAIN rows
      OBVIOUS
    <2>4. ASSUME NEW b \in DOMAIN rows
          PROVE  /\ TrueCapture(inventory.branches, b, snapshot'.branches[b])
                 /\ snapshot'.branches[b].tip = rows[b].tip
                 /\ snapshot'.branches[b].base = rows[b].base
      <3>1. snapshot'.branches[b] = [rows[b] EXCEPT !.eligible = @ /\ refs[b] = live[b]]
        BY <2>4
      <3>2. rows[b] = [tip |-> rows[b].tip, base |-> rows[b].base, eligible |-> rows[b].eligible]
        BY <2>4 DEF SnapshotInv, TrueCapture
      <3>3. snapshot'.branches[b] = [tip |-> rows[b].tip, base |-> rows[b].base,
                                     eligible |-> rows[b].eligible /\ refs[b] = live[b]]
        BY <3>1, <3>2
      <3>4. QED
        BY <2>4, <3>3 DEF SnapshotInv, TrueCapture
    <2>5. snapshot'.pins = {snapshot'.main}
            \cup {snapshot'.branches[b].tip : b \in DOMAIN snapshot'.branches}
            \cup ({snapshot'.branches[b].base : b \in DOMAIN snapshot'.branches} \ {NoTip})
      BY <2>3, <2>4 DEF Pins
    <2>6. SnapshotInv'
      BY <2>2, <2>3, <2>4, <2>5 DEF SnapshotInv, TrueSnapshot, RecordedMain, Recorded
    <2>7. OrderInv' /\ InventoryInv' /\ EquivalenceInv'
      BY DEF OrderInv, InventoryInv, EquivalenceInv
    <2>8. CoverageInv'
      BY <1>0 DEF CoverageInv
    <2>9. PlanInv'
      BY DEF PlanInv, CandidatesAreExpendable, CandidatesLayStill
    <2>10. QED
      BY <1>0, <2>1, <2>6, <2>7, <2>8, <2>9
  <1>5. CASE SnapshotFails
    <2> USE <1>5 DEF SnapshotFails, End
    <2>1. ToolInv'
      BY RepositoryBounds DEF ToolInv, Tips
    <2>2. OrderInv' /\ InventoryInv' /\ EquivalenceInv' /\ SnapshotInv'
      BY DEF OrderInv, InventoryInv, EquivalenceInv, SnapshotInv
    <2>3. CoverageInv'
      BY <1>0 DEF CoverageInv
    <2>4. PlanInv'
      BY DEF PlanInv, CandidatesAreExpendable, CandidatesLayStill
    <2>5. QED
      BY <1>0, <2>1, <2>2, <2>3, <2>4
  <1>6. QED
    BY <1>1, <1>2, <1>3, <1>4, <1>5

----------------------------------------------------------------------------
(* The planner. *)

\* A branch whose activity is older than the cutoff of coverage did not move since.
LEMMA QuietIsStill ==
  ASSUME RepositoryInv, CoverageInv, coverage # NoArtifact, NEW b \in Branches, Quiet(b)
  PROVE  live[b] # NoTip /\ b \notin stirred
  <1>1. reflog[b] \in Int /\ reflog[b] < coverage.cutoff
    BY RepositoryBounds DEF Quiet, Activity, RepositoryInv, RepositoryTypeOK, Times
  <1>2. StirredSince(coverage.cutoff)
    BY DEF CoverageInv
  <1>3. QED
    BY <1>1, <1>2, ObservationAssumption, RepositoryBounds DEF Quiet, StirredSince

\* What the planner proves of a branch's content holds of the commits for good.
LEMMA ReproofIsTrue ==
  ASSUME RepositoryInv, NEW tip, NEW dest, ContentReproof(tip, dest)
  PROVE  /\ tip \in Commits
         /\ \E base \in History[tip] \cap History[dest] : \A p \in Paths :
              Tree[tip][p] \in {Tree[base][p], Tree[dest][p]}
  <1> DEFINE base == Base(tip, dest)
  <1>1. /\ tip \in Commits /\ dest \in Commits
        /\ base # NoTip /\ MergeBase(tip, dest) = base
    BY MergeBaseIsBase DEF ContentReproof, RepositoryInv, RepositoryTypeOK
  <1>2. base \in History[tip] \cap History[dest]
    BY <1>1, BaseIsBest, BestIsCommon
  <1>3. ASSUME NEW p \in Paths
        PROVE  Tree[tip][p] \in {Tree[base][p], Tree[dest][p]}
    BY <1>1 DEF ContentReproof, SameAt, ChangedPaths
  <1>4. QED
    BY <1>1, <1>2, <1>3

\* A bundle of every ref holds the history of each commit it reaches.
LEMMA ReachableIsClosed ==
  ASSUME RepositoryInv, NEW c \in Reachable(refs)
  PROVE  History[c] \subseteq Reachable(refs)
  <1>1. PICK b \in Branches : refs[b] # NoTip /\ c \in History[refs[b]]
    BY DEF Reachable
  <1>2. refs[b] \in Commits
    BY <1>1 DEF RepositoryInv, RepositoryTypeOK, Tips
  <1>3. History[c] \subseteq History[refs[b]]
    BY <1>1, <1>2, RepositoryAssumption
  <1>4. QED
    BY <1>1, <1>3 DEF Reachable

LEMMA PlannerKeepsInv ==
  ASSUME PlanningInv, Planner
  PROVE  PlanningInv'
  <1> USE DEF PlanningInv, artifacts, planning
  <1>0. RepositoryInv' /\ \A limit : StirredSince(limit) => StirredSince(limit)'
    BY RepositoryStands DEF Planner, StartPlan, ListHolds, ConsiderBranch, BundlePlan
  <1>1. CASE StartPlan
    <2> USE <1>1 DEF StartPlan, Begin, Idle
    <2>1. DOMAIN coverage.tip \subseteq Branches
      BY ListedIsCommit DEF OrderInv, CoverageInv
    <2>2. ToolInv'
      BY <2>1 DEF ToolInv, RepositoryInv, RepositoryTypeOK
    <2>3. OrderInv' /\ InventoryInv' /\ CoverageInv' /\ EquivalenceInv' /\ SnapshotInv'
      BY <1>0 DEF OrderInv, InventoryInv, CoverageInv, EquivalenceInv, SnapshotInv
    <2>4. PlanInv'
      BY DEF PlanInv, CandidatesAreExpendable, CandidatesLayStill
    <2>5. QED
      BY <1>0, <2>2, <2>3, <2>4
  <1>2. CASE ListHolds
    <2> USE <1>2 DEF ListHolds
    <2>1. ToolInv'
      BY DEF ToolInv, Worktrees, LinkedStashes, RepositoryInv, RepositoryTypeOK
    <2>2. OrderInv' /\ InventoryInv' /\ CoverageInv' /\ EquivalenceInv' /\ SnapshotInv'
      BY <1>0 DEF OrderInv, InventoryInv, CoverageInv, EquivalenceInv, SnapshotInv
    <2>3. PlanInv'
      BY DEF PlanInv, CandidatesAreExpendable, CandidatesLayStill
    <2>4. QED
      BY <1>0, <2>1, <2>2, <2>3
  <1>3. ASSUME NEW b \in Branches, ConsiderBranch(b)
        PROVE  PlanningInv'
    <2> USE <1>3 DEF ConsiderBranch, Look
    <2>1. ToolInv'
      BY DEF ToolInv
    <2>2. OrderInv' /\ InventoryInv' /\ CoverageInv' /\ EquivalenceInv' /\ SnapshotInv'
      BY <1>0 DEF OrderInv, InventoryInv, CoverageInv, EquivalenceInv, SnapshotInv
    <2>3. rows'[b].eligible => live[b] # NoTip /\ ~rows'[b].stirred
      <3>1. rows'[b].eligible = CandidateReason(b) /\ rows'[b].stirred = (b \in stirred)
        OBVIOUS
      <3>2. QED
        BY <3>1, QuietIsStill DEF CandidateReason, OrderInv
    <2>4. PlanInv'
      <3>1. DOMAIN rows' = DOMAIN rows \cup {b}
        OBVIOUS
      <3>2. \A x \in DOMAIN rows' \ {b} : rows'[x] = rows[x]
        OBVIOUS
      <3>3. todo' \cup DOMAIN rows' \subseteq DOMAIN coverage.tip \ {Main}
        BY <3>1 DEF PlanInv
      <3>4. QED
        BY <2>3, <3>1, <3>2, <3>3
           DEF PlanInv, CandidatesAreExpendable, CandidatesLayStill
    <2>5. QED
      BY <1>0, <2>1, <2>2, <2>4
  <1>4. CASE BundlePlan
    <2> USE <1>4 DEF BundlePlan, End
    <2>1. ToolInv'
      BY RepositoryBounds DEF ToolInv, Tips
    <2>2. OrderInv' /\ InventoryInv' /\ CoverageInv' /\ EquivalenceInv' /\ SnapshotInv'
      BY <1>0 DEF OrderInv, InventoryInv, CoverageInv, EquivalenceInv, SnapshotInv
    <2>3. PICK S \in Selections :
            plan' = IF Restorable({live[b] : b \in S \cup {Main}}, Reachable(refs))
                    THEN [candidates |-> S,
                          tip |-> [b \in S |-> live[b]],
                          stirred |-> {b \in S : rows[b].stirred},
                          main |-> live[Main],
                          bundle |-> Reachable(refs)]
                    ELSE NoArtifact
      BY Zenon
    <2>4. \A b \in S : /\ b \in DOMAIN rows /\ rows[b].eligible
                       /\ ContentReproof(live[b], live[Main])
      BY DEF Selections, Eligible
    <2>5. ASSUME plan' = NoArtifact PROVE PlanInv'
      BY <2>5 DEF PlanInv, CandidatesAreExpendable, CandidatesLayStill
    <2>6. ASSUME plan' # NoArtifact PROVE PlanInv'
      <3>1. /\ plan'.candidates = S /\ plan'.main = live[Main]
            /\ plan'.stirred = {b \in S : rows[b].stirred}
            /\ plan'.bundle = Reachable(refs)
            /\ \A b \in S : plan'.tip[b] = live[b] /\ live[b] \in Reachable(refs)
        BY <2>3, <2>6 DEF Restorable
      <3>2. S \subseteq DOMAIN coverage.tip \ {Main} /\ \A b \in S : ~rows[b].stirred
        BY <2>4 DEF PlanInv
      <3>3. ASSUME NEW b \in S
            PROVE  /\ History[live[b]] \subseteq Reachable(refs)
                   /\ \E base \in History[live[b]] \cap History[live[Main]] :
                        \A p \in Paths :
                          Tree[live[b]][p] \in {Tree[base][p], Tree[live[Main]][p]}
        BY <2>4, <3>1, ReproofIsTrue, ReachableIsClosed
      <3>4. CandidatesAreExpendable' /\ CandidatesLayStill'
        BY <3>1, <3>2, <3>3 DEF CandidatesAreExpendable, CandidatesLayStill
      <3>5. QED
        BY <3>1, <3>2, <3>4 DEF PlanInv
    <2>7. QED
      BY <1>0, <2>1, <2>2, <2>5, <2>6
  <1>5. QED
    BY <1>1, <1>2, <1>3, <1>4 DEF Planner

----------------------------------------------------------------------------

LEMMA PlanningInvInit == PlanningInit => PlanningInv
  <1>1. SUFFICES ASSUME PlanningInit PROVE PlanningInv
    OBVIOUS
  <1> USE <1>1 DEF PlanningInit
  <1>2. refs \in [Branches -> Tips] /\ refs[Main] # NoTip
    BY RepositoryAssumption DEF Tips
  <1>3. RepositoryInv
    BY <1>2, RepositoryBounds, ObservationAssumption, PlanningAssumption
       DEF RepositoryInv, RepositoryTypeOK, Times
  <1>4. ToolInv
    BY RepositoryBounds DEF ToolInv, Tips
  <1>5. OrderInv /\ InventoryInv /\ CoverageInv /\ EquivalenceInv /\ SnapshotInv
    BY DEF OrderInv, InventoryInv, CoverageInv, EquivalenceInv, SnapshotInv
  <1>6. PlanInv
    BY DEF PlanInv, CandidatesAreExpendable, CandidatesLayStill
  <1>7. QED
    BY <1>3, <1>4, <1>5, <1>6 DEF PlanningInv

LEMMA PlanningStutters == ASSUME PlanningInv, UNCHANGED planningVars PROVE PlanningInv'
  <1> USE DEF planningVars, repository, scratch, artifacts, planning
  <1>1. RepositoryInv' /\ ToolInv' /\ OrderInv' /\ InventoryInv'
    BY DEF PlanningInv, RepositoryInv, RepositoryTypeOK, ToolInv, OrderInv, InventoryInv
  <1>2. CoverageInv'
    BY DEF PlanningInv, CoverageInv, StirredSince
  <1>3. EquivalenceInv' /\ SnapshotInv'
    BY DEF PlanningInv, EquivalenceInv, SnapshotInv
  <1>4. PlanInv'
    BY DEF PlanningInv, PlanInv, CandidatesAreExpendable, CandidatesLayStill
  <1>5. QED
    BY <1>1, <1>2, <1>3, <1>4 DEF PlanningInv

LEMMA PlanningInvNext == PlanningInv /\ [PlanningNext]_planningVars => PlanningInv'
  <1>1. SUFFICES ASSUME PlanningInv, [PlanningNext]_planningVars PROVE PlanningInv'
    OBVIOUS
  <1>2. CASE Others /\ UNCHANGED <<scratch, artifacts, planning>>
    BY <1>1, <1>2, OthersKeepInv
  <1>3. CASE Tools /\ UNCHANGED planning
    BY <1>1, <1>3, InventoryKeepsInv, CoverageKeepsInv, EquivalenceKeepsInv,
       SnapshotKeepsInv DEF Tools
  <1>4. CASE Planner
    BY <1>1, <1>4, PlannerKeepsInv
  <1>5. CASE UNCHANGED planningVars
    BY <1>1, <1>5, PlanningStutters
  <1>6. QED
    BY <1>1, <1>2, <1>3, <1>4, <1>5 DEF PlanningNext

\* The invariant holds whatever others do to the repository between two reads
\* (inventory.py, coverage.py, equivalence.py, snapshot.py, cleanup.py).
THEOREM PlanningInvAlways == PlanningSpec => []PlanningInv
  BY PlanningInvInit, PlanningInvNext, PTL DEF PlanningSpec

\* Coverage, equivalence and the decisions agree with the commits, so with each other.
LEMMA InvGivesAgreement == PlanningInv => VerdictsAgree
  <1>1. SUFFICES ASSUME PlanningInv, inventory # NoArtifact,
                        NEW b \in DOMAIN inventory.branches \ {Main}
                 PROVE  LET covered == IF coverage = NoArtifact THEN "UNKNOWN"
                                       ELSE coverage.verdict[b]
                            equal   == IF equivalence = NoArtifact THEN Unproven
                                       ELSE equivalence[b]
                        IN /\ covered = "DISTINCT" => equal.at # Main
                           /\ equal.verdict = "UNIQUE_WORK_REMAINS" => covered # "EXACT"
                           /\ Decision(b) = "CLEANUP_CANDIDATE" =>
                                covered # "DISTINCT" /\ equal.verdict # "UNIQUE_WORK_REMAINS"
    BY DEF VerdictsAgree
  <1> DEFINE list    == inventory.branches
             tip     == list[b].tip
             dest    == list[Main].tip
             covered == IF coverage = NoArtifact THEN "UNKNOWN" ELSE coverage.verdict[b]
             equal   == IF equivalence = NoArtifact THEN Unproven ELSE equivalence[b]
  <1>2. /\ tip \in Commits /\ dest \in Commits
        /\ list[b].merged => IsAncestor(tip, dest)
    BY <1>1 DEF PlanningInv, InventoryInv, TrueListing
  <1>3. /\ covered = "EXACT" => Settles(list, b, TRUE)
        /\ covered = "DISTINCT" => Settles(list, b, FALSE)
    BY <1>1 DEF PlanningInv, CoverageInv, TrueCover
  <1>4. TrueEqual(list, b, equal)
    <2>1. CASE equivalence = NoArtifact
      BY <2>1, RepositoryBounds DEF TrueEqual, Unproven
    <2>2. CASE equivalence # NoArtifact
      BY <1>1, <2>2 DEF PlanningInv, EquivalenceInv
    <2>3. QED
      BY <2>1, <2>2
  <1>5. Settles(list, b, FALSE) =>
          ~IsAncestor(tip, dest) /\ tip # dest /\ Tree[tip] # Tree[dest]
            /\ ~Settles(list, b, TRUE)
    BY <1>2, AncestorIsContained, SameTreeIsContained DEF Settles
  <1>6. Decision(b) = "CLEANUP_CANDIDATE" => IsAncestor(tip, dest)
    BY <1>2 DEF Decision
  <1>7. QED
    BY <1>1, <1>3, <1>4, <1>5, <1>6 DEF TrueEqual

LEMMA InvGivesWholeSnapshot == PlanningInv => SnapshotIsWhole
  <1>1. SUFFICES ASSUME PlanningInv, snapshot # NoArtifact PROVE SnapshotIsWhole
    BY DEF SnapshotIsWhole
  <1> DEFINE list == inventory.branches
             kept == snapshot.branches
  <1>2. inventory # NoArtifact /\ TrueSnapshot(list, snapshot)
    BY <1>1 DEF PlanningInv, OrderInv, SnapshotInv
  <1>3. /\ list[Main].tip \in Commits
        /\ \A b \in DOMAIN list : list[b].tip \in Commits
    BY <1>1, <1>2, ListedIsCommit DEF PlanningInv, Recorded, RecordedMain
  <1>4. ASSUME NEW b \in DOMAIN kept
        PROVE  /\ kept[b].tip = list[b].tip /\ b \in DOMAIN list
               /\ kept[b].tip \in snapshot.pins
               /\ kept[b].base # NoTip => kept[b].base \in snapshot.pins
               /\ kept[b].base \in {NoTip, Base(kept[b].tip, list[Main].tip),
                                     Base(list[Main].tip, kept[b].tip)}
               /\ kept[b].eligible => kept[b].base # NoTip
    BY <1>2, <1>4 DEF TrueSnapshot, TrueCapture
  <1>5. snapshot.pins \subseteq Commits
    <2>1. SUFFICES ASSUME NEW c \in snapshot.pins PROVE c \in Commits
      OBVIOUS
    <2>2. CASE c = snapshot.main
      BY <1>2, <1>3, <2>2 DEF TrueSnapshot
    <2>3. ASSUME NEW b \in DOMAIN kept, c = kept[b].tip PROVE c \in Commits
      BY <1>3, <1>4, <2>3
    <2>4. ASSUME NEW b \in DOMAIN kept, c = kept[b].base, c # NoTip PROVE c \in Commits
      <3> DEFINE tip == kept[b].tip
                 dest == list[Main].tip
      <3>1. c \in {Base(tip, dest), Base(dest, tip)} /\ tip \in Commits /\ dest \in Commits
        BY <1>3, <1>4, <2>4
      <3>2. c \in Best(tip, dest) \cup Best(dest, tip)
        BY <2>4, <3>1, BaseIsBest
      <3>3. QED
        BY <3>1, <3>2, BestIsCommon
    <2>5. QED
      BY <1>2, <2>1, <2>2, <2>3, <2>4 DEF TrueSnapshot
  <1>6. snapshot.pins \subseteq snapshot.store
    <2>1. ASSUME NEW c \in snapshot.pins PROVE c \in History[c]
      BY <1>5, RepositoryAssumption
    <2>2. QED
      BY <1>2, <2>1 DEF TrueSnapshot
  <1>7. LoadSnapshot(snapshot)
    BY <1>2, <1>4, <1>6 DEF LoadSnapshot, TrueSnapshot
  <1>8. \A b \in DOMAIN list : History[Recorded(b)] \subseteq snapshot.store
    <2>1. \A b \in DOMAIN list : list[b].tip \in snapshot.pins
      BY <1>2, <1>4 DEF TrueSnapshot
    <2>2. QED
      BY <1>2, <2>1 DEF TrueSnapshot, Recorded
  <1>9. ASSUME NEW b \in DOMAIN kept, kept[b].eligible
        PROVE  \/ MergeBase(kept[b].tip, snapshot.main) # NoTip
               \/ ~(Has(kept[b].tip) /\ Has(snapshot.main))
    <2>1. Base(kept[b].tip, snapshot.main) # NoTip
      <3> DEFINE tip == kept[b].tip
                 dest == list[Main].tip
      <3>1. Base(tip, dest) # NoTip \/ Base(dest, tip) # NoTip
        BY <1>4, <1>9
      <3>2. tip \in Commits /\ dest \in Commits /\ snapshot.main = dest
        BY <1>2, <1>3, <1>4 DEF TrueSnapshot
      <3>3. QED
        BY <3>1, <3>2, BestIsSymmetric
    <2>2. QED
      BY <1>1, <2>1, MergeBaseIsBase DEF PlanningInv, RepositoryInv, RepositoryTypeOK
  <1>10. QED
    BY <1>7, <1>8, <1>9 DEF SnapshotIsWhole

\* Every variable keeps its type (GitRepository, Observation, CleanupPlanning).
THEOREM PlanningTypeCorrect == PlanningSpec => []PlanningTypeOK
  <1>1. PlanningInv => PlanningTypeOK
    BY DEF PlanningInv, PlanningTypeOK, RepositoryInv, ToolInv, InventoryInv, TrueListing,
           OrderInv, CoverageInv, PlanInv
  <1>2. QED
    BY <1>1, PlanningInvAlways, PTL

\* What a plan lists can be deleted without loss, in every repository: the recorded main
\* holds what the branch changed and the bundle its history (build_cleanup_plan).
THEOREM PlansAreExpendable == PlanningSpec => []CandidatesAreExpendable
  <1>1. PlanningInv => CandidatesAreExpendable
    BY DEF PlanningInv, PlanInv
  <1>2. QED
    BY <1>1, PlanningInvAlways, PTL

\* A planned branch did not move after coverage read it (coverage.py, cleanup.py).
THEOREM PlansLayStill == PlanningSpec => []CandidatesLayStill
  <1>1. PlanningInv => CandidatesLayStill
    BY DEF PlanningInv, PlanInv
  <1>2. QED
    BY <1>1, PlanningInvAlways, PTL

\* The three judgements of what main holds never contradict each other.
THEOREM VerdictsAlwaysAgree == PlanningSpec => []VerdictsAgree
  BY InvGivesAgreement, PlanningInvAlways, PTL

\* A written snapshot loads and holds every recorded history (write_snapshot).
THEOREM SnapshotsAreWhole == PlanningSpec => []SnapshotIsWhole
  BY InvGivesWholeSnapshot, PlanningInvAlways, PTL
============================================================================
