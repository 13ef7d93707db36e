-------------------------- MODULE CleanupPlanning --------------------------
(***************************************************************************)
(* build_cleanup_plan (cleanup.py): a coverage artifact of some earlier    *)
(* time becomes at most MaxBranches deletions and a recovery bundle, while *)
(* refs, worktrees and stashes go on changing.                             *)
(***************************************************************************)
EXTENDS Observation

CONSTANT MaxBranches    \* max_branches of a plan

ASSUME PlanningAssumption == MaxBranches \in Nat \ {0} /\ Recent < MaxTime

VARIABLES
  held,      \* branches of the planner's worktree and stash listing
  plan

planning == <<held, plan>>
planningVars == <<repository, scratch, artifacts, stirred, planning>>

\* Refs, then worktrees and stashes: two listings, with others in between.
StartPlan ==
  /\ coverage # NoArtifact /\ plan = NoArtifact
  /\ Begin("plan", DOMAIN coverage.tip \ {Main}, now - Recent)
  /\ UNCHANGED <<artifacts, stirred, planning, repository>>

Worktrees == {b \in Branches : worktree[b] # "none"}

\* The pattern is lower case, and a stash that was given a message starts with "On": it
\* holds no branch.
LinkedStashes == {s.branch : s \in {x \in stashed : x.subject = "WIP on"}}

ListHolds ==
  /\ tool = "plan"
  /\ tool' = "planning"
  /\ held' = Worktrees \cup LinkedStashes
  /\ UNCHANGED <<todo, live, cutoff, rows, artifacts, stirred, plan, repository>>

\* Mutant: the planner trusts the activity that coverage saw.
Bug_OldActivity(b) == live[b] # NoTip /\ Activity(b) # NoLog

\* The newest activity, compared with the cutoff of coverage and with the clock.
Quiet(b) ==
  /\ live[b] # NoTip /\ Activity(b) # NoLog
  /\ Activity(b) < coverage.cutoff
  /\ Activity(b) < now - Recent

LiveAt(b) == live[b] = coverage.tip[b]

CandidateReason(b) ==
  /\ coverage.verdict[b] = "EXACT"
  /\ b \notin held
  /\ Quiet(b)
  /\ LiveAt(b)

\* Mutant: the planner trusts the content that coverage compared.
Bug_TrustCoverage(tip, dest) == MergeBase(tip, dest) # NoTip

\* The content is proved again, against the main branch as it is now.
ContentReproof(tip, dest) ==
  LET base == MergeBase(tip, dest)
  IN base # NoTip /\ SameAt(ChangedPaths(base, tip), tip, dest)

ConsiderBranch(b) ==
  /\ Look("planning", b, [activity |-> Activity(b), stirred |-> b \in stirred,
                          eligible |-> CandidateReason(b)])
  /\ UNCHANGED <<artifacts, stirred, planning, repository>>

Eligible == {b \in DOMAIN rows : rows[b].eligible /\ ContentReproof(live[b], live[Main])}

\* The oldest first, names break ties.
Selections ==
  {S \in SUBSET Eligible :
     /\ Cardinality(S) <= MaxBranches
     /\ Cardinality(S) < MaxBranches => S = Eligible
     /\ \A b \in S, c \in Eligible \ S : rows[b].activity <= rows[c].activity}

\* bundle create --all, verify, and a restore of every planned tip.
Restorable(tips, bundle) == tips \subseteq bundle

BundlePlan ==
  /\ End("planning")
  /\ \E S \in Selections :
       plan' = IF Restorable({live[b] : b \in S \cup {Main}}, Reachable(refs))
               THEN [candidates |-> S,
                     tip |-> [b \in S |-> live[b]],
                     stirred |-> {b \in S : rows[b].stirred},
                     main |-> live[Main],
                     bundle |-> Reachable(refs)]
               ELSE NoArtifact
  /\ held' = {}
  /\ UNCHANGED <<artifacts, stirred, repository>>

----------------------------------------------------------------------------
PlanningInit ==
  /\ refs \in FirstRefs
  /\ reflog = [b \in Branches |-> IF refs[b] = NoTip THEN NoLog ELSE 0]
  /\ worktree = [b \in Branches |-> IF b = Main THEN "clean" ELSE "none"]
  /\ stashed = {}
  /\ objects = Commits
  /\ now = Recent + 1 /\ events = 0
  /\ tool = "none" /\ todo = {} /\ live = [b \in Branches |-> NoTip]
  /\ cutoff = 0 /\ rows = <<>>
  /\ inventory = NoArtifact /\ coverage = NoArtifact
  /\ equivalence = NoArtifact /\ snapshot = NoArtifact
  /\ stirred = {} /\ held = {} /\ plan = NoArtifact

Others ==
  \/ \E b \in Branches, c \in MovedTo :
       MoveRef(b, c) /\ stirred' = stirred \cup {b}
  \/ \E b \in Branches : DeleteRef(b) /\ stirred' = stirred \cup {b}
  \/ \E b \in Branches : (CheckOut(b) \/ Stash(b)) /\ UNCHANGED stirred
  \/ (Prune \/ Tick) /\ UNCHANGED stirred

Tools ==
  \/ StartInventory \/ ReadBranches \/ FinishInventory
  \/ StartCoverage \/ FinishCoverage \/ \E b \in Branches : CoverBranch(b)
  \/ StartEquivalence \/ FinishEquivalence \/ \E b \in Branches : CompareBranch(b)
  \/ StartSnapshot \/ ExportPins \/ FinishSnapshot \/ SnapshotFails
  \/ \E b \in Branches : CaptureBranch(b)

Planner ==
  \/ StartPlan \/ ListHolds \/ BundlePlan
  \/ \E b \in Branches : ConsiderBranch(b)

PlanningNext ==
  \/ Others /\ UNCHANGED <<scratch, artifacts, planning>>
  \/ Tools /\ UNCHANGED planning
  \/ Planner

----------------------------------------------------------------------------
Verdicts == {"EXACT", "DISTINCT", "UNKNOWN"}

\* Types of the repository, the running tool and the artifacts.
PlanningTypeOK ==
  /\ RepositoryTypeOK
  /\ tool \in {"none", "inventory", "coverage", "equivalence", "snapshot",
               "exported", "failed", "plan", "planning"}
  /\ todo \subseteq Branches /\ stirred \subseteq Branches
  /\ held \subseteq Branches
  /\ live \in [Branches -> Tips]
  /\ DOMAIN rows \subseteq Branches
  /\ inventory # NoArtifact => Main \in DOMAIN inventory.branches
  /\ coverage # NoArtifact =>
       coverage.verdict \in [DOMAIN inventory.branches -> Verdicts]
  /\ plan # NoArtifact => plan.candidates \subseteq DOMAIN coverage.tip \ {Main}

\* A plan's candidate can go without loss: main holds whatever the branch changed,
\* and the bundle holds its whole history (build_cleanup_plan).
CandidatesAreExpendable ==
  plan # NoArtifact =>
    \A b \in plan.candidates :
      LET tip == plan.tip[b] IN
      /\ b # Main /\ History[tip] \subseteq plan.bundle
      /\ \E base \in History[tip] \cap History[plan.main] : \A p \in Paths :
           Tree[tip][p] \in {Tree[base][p], Tree[plan.main][p]}

\* No candidate's ref moved between the first read of coverage and the planner's
\* look at its activity, also not there and back again (coverage.py:85).
CandidatesLayStill == plan # NoArtifact => plan.stirred = {}

\* Coverage, equivalence and decisions, three algorithms over one inventory, never
\* contradict each other about what main holds.
VerdictsAgree ==
  \A b \in IF inventory = NoArtifact THEN {} ELSE DOMAIN inventory.branches \ {Main} :
    LET covered == IF coverage = NoArtifact THEN "UNKNOWN" ELSE coverage.verdict[b]
        equal   == IF equivalence = NoArtifact THEN Unproven ELSE equivalence[b]
    IN /\ covered = "DISTINCT" => equal.at # Main
       /\ equal.verdict = "UNIQUE_WORK_REMAINS" => covered # "EXACT"
       /\ Decision(b) = "CLEANUP_CANDIDATE" =>
            covered # "DISTINCT" /\ equal.verdict # "UNIQUE_WORK_REMAINS"

\* A snapshot that was written loads, holds the history of every recorded branch,
\* and from the store alone the contribution of an eligible one can be computed.
SnapshotIsWhole ==
  snapshot # NoArtifact =>
    /\ LoadSnapshot(snapshot)
    /\ \A b \in DOMAIN inventory.branches : History[Recorded(b)] \subseteq snapshot.store
    /\ \A b \in DOMAIN snapshot.branches : snapshot.branches[b].eligible =>
         MergeBase(snapshot.branches[b].tip, snapshot.main) # NoTip
           \/ ~(Has(snapshot.branches[b].tip) /\ Has(snapshot.main))
============================================================================
