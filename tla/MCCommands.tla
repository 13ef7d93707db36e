---------------------------- MODULE MCCommands ----------------------------
EXTENDS Commands, TLC

CONSTANTS main, b, c, c0, f1, m1, m2, x, y,\* branches and commits
          consumer, other,                \* launchd labels
          r1, r2                          \* presence requests

\* c0 - f1 (the change), c0 - m1 (the same change squashed) - m2 (reverted); x and y
\* both merge f1 and m2, x keeps the change and y the revert.  So f1 and m2 are two best
\* ancestors of x and y: seen from y, m2 says that nothing is left and f1 that p is.
MCBranches  == {main, b, c}
MCFirstRefs == {main :> m1 @@ b :> f1 @@ c :> y}
MCCommits   == {c0, f1, m1, m2, x, y}
MCHistory   == c0 :> {c0} @@ f1 :> {c0, f1} @@ m1 :> {c0, m1} @@ m2 :> {c0, m1, m2}
                 @@ x :> {c0, f1, m1, m2, x} @@ y :> {c0, f1, m1, m2, y}
MCTree      == c0 :> [p |-> "old"] @@ f1 :> [p |-> "new"]
                 @@ m1 :> [p |-> "new"] @@ m2 :> [p |-> "old"]
                 @@ x :> [p |-> "new"] @@ y :> [p |-> "old"]
MCPrinted   == [p \in MCCommits |-> [q \in MCCommits |->
                  IF <<p, q>> = <<x, y>> THEN f1 ELSE IF <<p, q>> = <<y, x>> THEN m2
                  ELSE CHOOSE d \in Best(p, q) : TRUE]]
MCPaths     == {"p"}

MCRootOf    == consumer :> "stable" @@ other :> "canonical"

\* Both requests are bound to the one unit; the first collection proves the branch exact.
MCBound      == r1 :> {"u"} @@ r2 :> {"u"}
MCRemains    == [suff |-> "yes", presence |-> "ABSENT", delta |-> "yes", edge |-> "yes",
                 comparison |-> TRUE, context |-> "complete", contextSuff |-> "yes"]
MCJudgements == {MCRemains, [MCRemains EXCEPT !.edge = "no"],
                 [MCRemains EXCEPT !.presence = "PRESENT", !.delta = "no"]}
MCStanding   == 0 :> "exact" @@ 1 :> "distinct"

\* Units 1 and 2 on one branch, 3 on a sibling, 4 on an excluded branch; 8 and 9 lie at
\* the destination, 7 nowhere.
Edge(s, t, k) == [source |-> s, target |-> t, kind |-> k]
MCBranchOf   == 1 :> "f/x/a" @@ 2 :> "f/x/a" @@ 3 :> "f/x/b" @@ 4 :> "held"
MCFamilyOf   == "f/x/a" :> "f/x" @@ "f/x/b" :> "f/x"
MCListedAt   == 1 :> {} @@ 2 :> {8} @@ 3 :> {} @@ 4 :> {}
MCInputEdges ==
  {Edge(1, 2, "dependency"), Edge(1, 3, "dependency"), Edge(3, 4, "dependency"),
   Edge(4, 1, "dependency"), Edge(2, 3, "structural_match"), Edge(2, 9, "dependency"),
   Edge(1, 8, "ancestry"), Edge(3, 7, "dependency")}
============================================================================
