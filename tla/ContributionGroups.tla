------------------------- MODULE ContributionGroups -------------------------
(***************************************************************************)
(* build_groups (groups.py): contribution units are merged into groups of  *)
(* bounded size along their strongest edges first; then every edge is put  *)
(* into the groups it touches until their output budgets are spent.        *)
(* Everything later trusts a group's context_complete.                     *)
(***************************************************************************)
EXTENDS Integers, FiniteSets

CONSTANTS
  SourceUnits,      \* unit ids, in their lexical order
  BranchOf,         \* [SourceUnits -> branches]
  EligibleBranches,
  FamilyOf,         \* [EligibleBranches -> family, NoFamily if none]
  DestinationUnits,
  ListedAt,         \* [SourceUnits -> SUBSET DestinationUnits], destination_ids
  Symbols,          \* names a unit may define
  InputEdges,       \* the edges a contributions artifact may hold
  GapUnits,         \* units that carry a context gap of their own
  UnitLimits, EdgeLimits,   \* what --max-units and --max-edges may be
  NoFamily, NoGroups

Kinds == {"ancestry", "dependency", "structural_match", "same_branch", "branch_family", "symbol"}

ASSUME GroupsAssumption ==
  /\ SourceUnits \subseteq Nat /\ DestinationUnits \subseteq Nat
  /\ SourceUnits \cap DestinationUnits = {}
  /\ InputEdges \subseteq [source : Nat, target : Nat, kind : Kinds]
  /\ GapUnits \subseteq SourceUnits
  \* _validate refuses a unit that lists an unknown destination.
  /\ \A u \in SourceUnits : ListedAt[u] \subseteq DestinationUnits
  /\ UnitLimits \cup EdgeLimits \subseteq Nat \ {0}
  /\ NoFamily \notin {FamilyOf[b] : b \in {x \in EligibleBranches : FamilyOf[x] # NoFamily}}

VARIABLES
  stage,        \* "none", "merge", "place" or "done"
  maxUnits, maxEdges,
  known,        \* all_edges
  pending,      \* edges not yet looked at
  rootOf,       \* [eligible units -> root], the union-find forest
  shown,        \* [roots -> edges and boundary_edges]
  omitted,      \* [roots -> edges the budget left out]
  reached,      \* [roots -> destination_ids]
  groupsFile    \* groups.json

groupVars ==
  <<stage, maxUnits, maxEdges, known, pending, rootOf, shown, omitted, reached, groupsFile>>

Groupable == {u \in SourceUnits : BranchOf[u] \in EligibleBranches}
CandidateKinds == {"same_branch", "branch_family", "structural_match", "symbol"}

\* _validate: both ends are known and the source is a unit of a branch.
WellFormed(edges) ==
  \A e \in edges : e.source \in SourceUnits /\ e.target \in SourceUnits \cup DestinationUnits

\* A spanning chain through the units that share a key.
Chain(units, kind) ==
  {e \in [source : units, target : units, kind : {kind}] :
     e.source < e.target /\ \A u \in units : u <= e.source \/ e.target <= u}

Discovered(symbols) ==
  UNION ({Chain({u \in Groupable : BranchOf[u] = b}, "same_branch") : b \in EligibleBranches}
    \cup {Chain({u \in Groupable : FamilyOf[BranchOf[u]] = f}, "branch_family") :
            f \in {FamilyOf[b] : b \in EligibleBranches} \ {NoFamily}}
    \cup {Chain({u \in Groupable : s \in symbols[u]}, "symbol") : s \in Symbols})

\* Input edges that touch an eligible unit.
Considered(edges) ==
  {e \in edges : e.source \in Groupable \/ e.target \in Groupable}

Priority(kind) == CASE kind = "ancestry" -> 0 [] kind = "dependency" -> 1
                    [] kind = "structural_match" -> 2 [] kind = "same_branch" -> 5
                    [] kind = "branch_family" -> 6 [] OTHER -> 8

Before(e, f) ==
  \/ Priority(e.kind) < Priority(f.kind)
  \/ Priority(e.kind) = Priority(f.kind) /\ e.source < f.source
  \/ Priority(e.kind) = Priority(f.kind) /\ e.source = f.source /\ e.target < f.target

Strongest == CHOOSE e \in pending : \A f \in pending \ {e} : Before(e, f)

StartGroups ==
  /\ stage = "none" /\ groupsFile = NoGroups
  /\ \E edges \in SUBSET InputEdges, symbols \in [Groupable -> SUBSET Symbols] :
       /\ WellFormed(edges)
       /\ known' = Discovered(symbols) \cup Considered(edges)
  /\ maxUnits' \in UnitLimits /\ maxEdges' \in EdgeLimits
  /\ pending' = known'
  /\ rootOf' = [u \in Groupable |-> u]
  /\ stage' = "merge"
  /\ UNCHANGED <<shown, omitted, reached, groupsFile>>

Members(root) == {u \in Groupable : rootOf[u] = root}
GroupRoots == {rootOf[u] : u \in Groupable}

\* The smaller id becomes the root; a merge that would be too large is rejected.
MergeEdge ==
  /\ stage = "merge" /\ pending # {}
  /\ pending' = pending \ {Strongest}
  /\ LET e == Strongest
         left == rootOf[e.source]
         right == rootOf[e.target]
     IN rootOf' = IF /\ {e.source, e.target} \subseteq Groupable /\ left # right
                     /\ Cardinality(Members(left) \cup Members(right)) <= maxUnits
                  THEN [u \in Groupable |->
                         IF rootOf[u] # left /\ rootOf[u] # right THEN rootOf[u]
                         ELSE IF left < right THEN left ELSE right]
                  ELSE rootOf
  /\ UNCHANGED <<stage, maxUnits, maxEdges, known, shown, omitted, reached, groupsFile>>

Partition ==
  /\ stage = "merge" /\ pending = {}
  /\ stage' = "place"
  /\ pending' = known
  /\ shown' = [r \in GroupRoots |-> {}]
  /\ omitted' = [r \in GroupRoots |-> {}]
  /\ reached' = [r \in GroupRoots |-> UNION {ListedAt[u] : u \in Members(r)}]
  /\ UNCHANGED <<maxUnits, maxEdges, known, rootOf, groupsFile>>

\* The groups of its ends: one when it stays inside, leads to a destination or to a
\* neighbour that is excluded, else both.
Affected(e) == {rootOf[u] : u \in {e.source, e.target} \cap Groupable}

\* An edge to a destination widens the group even when it is omitted; an edge is
\* admitted on both sides or on neither.
PlaceEdge ==
  /\ stage = "place" /\ pending # {}
  /\ pending' = pending \ {Strongest}
  /\ LET e == Strongest
         full == \E r \in Affected(e) : Cardinality(shown[r]) >= maxEdges
         Put(lists) == [r \in GroupRoots |-> IF r \in Affected(e) THEN lists[r] \cup {e}
                                             ELSE lists[r]]
     IN /\ shown' = IF full THEN shown ELSE Put(shown)
        /\ omitted' = IF full THEN Put(omitted) ELSE omitted
        /\ reached' = [r \in GroupRoots |->
             reached[r] \cup (IF r \in Affected(e) THEN {e.target} \cap DestinationUnits ELSE {})]
  /\ UNCHANGED <<stage, maxUnits, maxEdges, known, rootOf, groupsFile>>

----------------------------------------------------------------------------
(* The limitations of a group, and what they say of its context. *)

Required(edges) == {e \in edges : e.kind \notin CandidateKinds}

Inside(r, e) ==
  e.source \in Members(r) /\ e.target \in Members(r) \cup DestinationUnits

Boundary(r, edges) == {e \in edges : ~Inside(r, e)}

ExcludedNeighbours(r) ==
  {e \in shown[r] : \E u \in {e.source, e.target} \cap SourceUnits : u \notin Groupable}

\* Mutant: only the edges that were emitted are looked at.
Bug_EmittedOnly(r) ==
  (IF Required(Boundary(r, shown[r])) # {} THEN {"required_cross_group"} ELSE {})
  \cup (IF ExcludedNeighbours(r) # {} THEN {"excluded_neighbor"} ELSE {})
  \cup (IF Members(r) \cap GapUnits # {} THEN {"unit_gap"} ELSE {})

\* Boundaries that were emitted or omitted, excluded neighbours that were emitted, a
\* budget that left out a required edge, and gaps of the units themselves.
Limitations(r) ==
  (IF Required(Boundary(r, shown[r] \cup omitted[r])) # {} THEN {"required_cross_group"} ELSE {})
  \cup (IF ExcludedNeighbours(r) # {} THEN {"excluded_neighbor"} ELSE {})
  \cup (IF Required(omitted[r]) # {} THEN {"budget"} ELSE {})
  \cup (IF Members(r) \cap GapUnits # {} THEN {"unit_gap"} ELSE {})

\* write_groups refuses to replace groups.json.
WriteGroups ==
  /\ stage = "place" /\ pending = {}
  /\ stage' = "done"
  /\ groupsFile' = [r \in GroupRoots |->
       [units |-> Members(r), destinations |-> reached[r], edges |-> shown[r],
        complete |-> Limitations(r) = {},
        hidden |-> Cardinality(Boundary(r, omitted[r]))]]
  /\ UNCHANGED <<maxUnits, maxEdges, known, pending, rootOf, shown, omitted, reached>>

----------------------------------------------------------------------------
GroupsInit ==
  /\ stage = "none" /\ maxUnits = 1 /\ maxEdges = 1 /\ known = {} /\ pending = {}
  /\ rootOf = <<>> /\ shown = <<>> /\ omitted = <<>> /\ reached = <<>>
  /\ groupsFile = NoGroups

GroupsNext == StartGroups \/ MergeEdge \/ Partition \/ PlaceEdge \/ WriteGroups

----------------------------------------------------------------------------
\* Types of the forest and of the lists of every group.
GroupsTypeOK ==
  /\ stage \in {"none", "merge", "place", "done"}
  /\ stage # "none" => rootOf \in [Groupable -> Groupable]
  /\ pending \subseteq known
  /\ stage \in {"place", "done"} =>
       /\ DOMAIN shown = GroupRoots /\ DOMAIN omitted = GroupRoots
       /\ reached \in [GroupRoots -> SUBSET DestinationUnits]

\* A group that calls its context complete shows every required edge of its units, and
\* none of them leaves the group; every group keeps its limits, and an edge between two
\* groups is shown by both or by neither (build_groups).
CompleteIsClosed ==
  groupsFile # NoGroups =>
    \A r \in DOMAIN groupsFile : LET group == groupsFile[r] IN
      /\ group.complete =>
           \A e \in Required(known) : {e.source, e.target} \cap group.units # {} =>
             /\ e \in group.edges /\ e.source \in group.units
             /\ e.target \in group.units \cup group.destinations
      /\ Cardinality(group.units) <= maxUnits /\ Cardinality(group.edges) <= maxEdges
      /\ \A q \in DOMAIN groupsFile \ {r} : \A e \in group.edges :
           {e.source, e.target} \cap groupsFile[q].units # {} => e \in groupsFile[q].edges
============================================================================
