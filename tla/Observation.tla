---------------------------- MODULE Observation ----------------------------
(***************************************************************************)
(* The read-only tools of jg: inventory.py, coverage.py, equivalence.py,   *)
(* decisions.py and snapshot.py.  A run reads the repository in several    *)
(* commands, one step each where others can interfere, and writes one      *)
(* artifact at the end; one tool runs at a time, the repository goes on.   *)
(***************************************************************************)
EXTENDS GitRepository

CONSTANTS
  Recent,        \* recent_hours of coverage, snapshot and plan, in ticks
  Approved,      \* branches approved as destinations of equivalence
  MaxTools,      \* bound on the artifacts of a behaviour
  NoArtifact

ASSUME ObservationAssumption ==
  Recent \in Nat \ {0} /\ MaxTools \in Nat /\ Approved \subseteq Branches \ {Main}

VARIABLES
  tool,          \* the running tool
  todo,          \* branches it has not looked at
  live,          \* the refs of its first read
  cutoff,        \* its activity cutoff
  rows,          \* what it found about each branch
  inventory, coverage, equivalence, snapshot,
  stirred        \* history: branches whose ref moved since coverage began

scratch   == <<tool, todo, live, cutoff, rows>>
artifacts == <<inventory, coverage, equivalence, snapshot>>

Names(f) == {b \in Branches : f[b] # NoTip}

\* Latest reflog entry; commits are never newer than the ref that got them.
Activity(b) == reflog[b]

Made == {i \in 1 .. 4 : <<inventory, coverage, equivalence, snapshot>>[i] # NoArtifact}
Idle == tool = "none" /\ Cardinality(Made) < MaxTools

Begin(name, names, limit) ==
  /\ Idle
  /\ tool' = name
  /\ todo' = names
  /\ live' = refs
  /\ cutoff' = limit
  /\ rows' = <<>>

\* A row is found by the commands run for one branch, in the order of the listing.
Look(name, b, row) ==
  /\ tool = name /\ todo # {} /\ b = CHOOSE x \in todo : TRUE
  /\ todo' = todo \ {b}
  /\ rows' = [x \in DOMAIN rows \cup {b} |-> IF x = b THEN row ELSE rows[x]]
  /\ UNCHANGED <<tool, live, cutoff>>

End(name) ==
  /\ tool = name /\ todo = {}
  /\ tool' = "none"
  /\ live' = [b \in Branches |-> NoTip]
  /\ cutoff' = 0
  /\ rows' = <<>>
  /\ UNCHANGED todo

----------------------------------------------------------------------------
(* build_inventory: every ref before, the branches, every ref after. *)

StartInventory ==
  /\ inventory = NoArtifact
  /\ Begin("inventory", {}, 0)
  /\ UNCHANGED <<artifacts, stirred, repository>>

BranchRecord(b) ==
  LET tip  == refs[b]
      base == MergeBase(refs[Main], tip)
  IN [tip      |-> tip,
      base     |-> base,
      unique   |-> IF base = NoTip THEN History[tip] ELSE History[tip] \ History[base],
      merged   |-> IsAncestor(tip, refs[Main]),
      occupied |-> worktree[b]]

\* Mutant: the listing leaves the default branch out.
Bug_SkipDefault ==
  /\ tool = "inventory" /\ rows = <<>>
  /\ rows' = [b \in Names(refs) \ {Main} |-> BranchRecord(b)]
  /\ UNCHANGED <<tool, todo, live, cutoff, artifacts, stirred, repository>>

\* The branches and the worktrees as listed, with their status; the second listing
\* does not ask for the status again, and the two of the stashes come last.
ReadBranches ==
  /\ tool = "inventory" /\ rows = <<>>
  /\ rows' = [b \in Names(refs) |-> BranchRecord(b)]
  /\ UNCHANGED <<tool, todo, live, cutoff, artifacts, stirred, repository>>

FinishInventory ==
  /\ rows # <<>>
  /\ End("inventory")
  /\ inventory' = [branches |-> rows, refs |-> live,
                   complete |-> /\ live = refs
                                /\ \A b \in DOMAIN rows :
                                     (rows[b].occupied = "none") <=> (worktree[b] = "none")]
  /\ UNCHANGED <<coverage, equivalence, snapshot, stirred, repository>>

Recorded(b) == inventory.branches[b].tip
RecordedMain == Recorded(Main)

Complete == inventory # NoArtifact /\ inventory.complete

----------------------------------------------------------------------------
(* build_coverage: byte-level coverage of each branch by the pinned main. *)

StartCoverage ==
  /\ Complete /\ coverage = NoArtifact
  /\ Begin("coverage", DOMAIN inventory.branches, now - Recent)
  /\ stirred' = {}
  /\ UNCHANGED <<artifacts, repository>>

Exactness(tip) ==
  LET base == MergeBase(tip, RecordedMain)
  IN IF base = NoTip THEN "UNKNOWN"
     ELSE IF SameAt(ChangedPaths(base, tip), tip, RecordedMain)
          THEN "EXACT" ELSE "DISTINCT"

CoverageVerdict(b) ==
  CASE b = Main -> "EXACT"
    [] b # Main /\ (live[b] # Recorded(b) \/ live[Main] # RecordedMain) -> "UNKNOWN"
    [] OTHER -> IF Activity(b) = NoLog THEN "UNKNOWN"
                ELSE IF Activity(b) >= cutoff THEN "UNKNOWN" ELSE Exactness(Recorded(b))

CoverBranch(b) ==
  /\ Look("coverage", b, CoverageVerdict(b))
  /\ UNCHANGED <<artifacts, stirred, repository>>

FinishCoverage ==
  /\ End("coverage")
  /\ coverage' = [cutoff |-> cutoff,
                  tip |-> [b \in DOMAIN rows |-> Recorded(b)],
                  verdict |-> [b \in DOMAIN rows |->
                    IF refs[b] # Recorded(b) \/ refs[Main] # RecordedMain
                    THEN "UNKNOWN" ELSE rows[b]]]
  /\ UNCHANGED <<inventory, equivalence, snapshot, stirred, repository>>

----------------------------------------------------------------------------
(* build_equivalence: exact comparison with main and approved branches. *)

StartEquivalence ==
  /\ inventory # NoArtifact /\ equivalence = NoArtifact
  /\ Main \in DOMAIN inventory.branches /\ Approved \subseteq DOMAIN inventory.branches
  /\ \E limit \in {NoLog, now - Recent} :      \* --ignore-recent-hours is optional
       Begin("equivalence", DOMAIN inventory.branches, limit)
  /\ UNCHANGED <<artifacts, stirred, repository>>

Held(b) == inventory.branches[b].occupied = "dirty"

OutOfScope(b) ==
  /\ cutoff # NoLog /\ b # Main
  /\ \/ Held(b)
     \/ Activity(b) = NoLog
     \/ Activity(b) # NoLog /\ Activity(b) >= cutoff

Destinations == {d \in {Main} \cup Approved : live[d] = Recorded(d)}

\* Mutant: the arguments of is_ancestor swapped.
Bug_Descendant(tip, dest) == tip = dest \/ IsAncestor(dest, tip)

\* Identical tip, ancestor, identical tree, no net change, changed paths identical.
ProvedAt(tip, dest) ==
  \/ tip = dest
  \/ /\ Has(tip) /\ Has(dest)
     /\ \/ IsAncestor(tip, dest)
        \/ Tree[tip] = Tree[dest]
        \/ LET base == MergeBase(tip, dest)
           IN base # NoTip /\ SameAt(ChangedPaths(base, tip), tip, dest)

Unproven == [verdict |-> "UNPROVEN", at |-> NoTip]

EquivalenceRow(b) ==
  LET tip    == Recorded(b)
      proofs == {d \in Destinations \ {b} : ProvedAt(tip, Recorded(d))}
      \* a destination that moved, no merge base or a failing command is a reason
      doubt  == \/ Destinations # {Main} \cup Approved
                \/ \E d \in Destinations \ {b} : MergeBase(tip, Recorded(d)) = NoTip
  IN CASE OutOfScope(b) \/ live[b] # tip -> Unproven
       [] ~(OutOfScope(b) \/ live[b] # tip) /\ b = Main ->
            [verdict |-> "ALREADY_PRESERVED", at |-> NoTip]
       [] OTHER ->
            IF Main \notin Destinations THEN Unproven
            ELSE IF proofs # {}
                 THEN [verdict |-> "ALREADY_PRESERVED",
                       at |-> IF Main \in proofs THEN Main ELSE CHOOSE d \in proofs : TRUE]
            ELSE IF doubt THEN Unproven
            ELSE [verdict |-> "UNIQUE_WORK_REMAINS", at |-> NoTip]

CompareBranch(b) ==
  /\ Look("equivalence", b, EquivalenceRow(b))
  /\ UNCHANGED <<artifacts, stirred, repository>>

FinishEquivalence ==
  /\ End("equivalence")
  /\ equivalence' = [b \in DOMAIN rows |->
       IF \/ refs[b] # Recorded(b)
          \/ rows[b].at # NoTip /\ refs[rows[b].at] # Recorded(rows[b].at)
       THEN Unproven ELSE rows[b]]
  /\ UNCHANGED <<inventory, coverage, snapshot, stirred, repository>>

----------------------------------------------------------------------------
(* build_decisions: from recorded facts only. *)

Decision(b) ==
  LET r == inventory.branches[b]
  IN IF b = Main \/ r.occupied # "none" THEN "RETAIN"
     ELSE IF r.merged /\ r.unique = {} /\ inventory.complete THEN "CLEANUP_CANDIDATE"
     ELSE "HOLD"

----------------------------------------------------------------------------
(* write_snapshot: pins of the whole inventory exported into a bare store. *)

StartSnapshot ==
  /\ Complete /\ snapshot = NoArtifact
  /\ Begin("snapshot", DOMAIN inventory.branches \ {Main}, now - Recent)
  /\ UNCHANGED <<artifacts, stirred, repository>>

\* A merge base the inventory lacks is looked for again.
SnapshotBase(b) ==
  IF inventory.branches[b].base # NoTip THEN inventory.branches[b].base
  ELSE MergeBase(Recorded(b), RecordedMain)

CaptureBranch(b) ==
  LET tip == Recorded(b)
      base == SnapshotBase(b)
  IN /\ Look("snapshot", b,
             [tip |-> tip, base |-> base,
              eligible |-> /\ Activity(b) # NoLog
                           /\ Activity(b) # NoLog => Activity(b) < cutoff
                           /\ base # NoTip /\ live[b] = tip
                           /\ {tip, base} \subseteq objects])
     /\ UNCHANGED <<artifacts, stirred, repository>>

\* Mutant: only eligible branches are pinned.
Bug_PinEligible ==
  {RecordedMain} \cup {rows[b].tip : b \in {x \in DOMAIN rows : rows[x].eligible}}

Pins == {RecordedMain} \cup {rows[b].tip : b \in DOMAIN rows}
          \cup ({rows[b].base : b \in DOMAIN rows} \ {NoTip})

\* A pin that is no commit any more fails the export; the directory stays behind.
ExportPins ==
  /\ tool = "snapshot" /\ todo = {}
  /\ IF Pins \subseteq objects THEN tool' = "exported" ELSE tool' = "failed"
  /\ UNCHANGED <<todo, live, cutoff, rows, artifacts, stirred, repository>>

FinishSnapshot ==
  /\ End("exported")
  /\ snapshot' = [main |-> RecordedMain,
                  pins |-> Pins,
                  store |-> UNION {History[c] : c \in Pins},
                  branches |-> [b \in DOMAIN rows |->
                    [rows[b] EXCEPT !.eligible = @ /\ refs[b] = live[b]]]]
  /\ UNCHANGED <<inventory, coverage, equivalence, stirred, repository>>

SnapshotFails ==
  /\ End("failed")
  /\ UNCHANGED <<artifacts, stirred, repository>>

\* What load_snapshot and its readers ask of a manifest and its store.
LoadSnapshot(s) ==
  /\ s.main \in s.pins
  /\ s.pins \subseteq s.store
  /\ \A b \in DOMAIN s.branches :
       /\ s.branches[b].tip \in s.pins
       /\ s.branches[b].base # NoTip => s.branches[b].base \in s.pins
============================================================================
