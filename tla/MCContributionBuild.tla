------------------------ MODULE MCContributionBuild ------------------------
EXTENDS ContributionBuild, TLC

CONSTANTS s1, s2, b1, b2, p1, p2

MCBuilds     == {p1, p2}
MCSnapshots  == {s1, s2}
MCBranches   == {b1, b2}
MCBranchesOf == s1 :> {b1, b2} @@ s2 :> {b2}

Symmetry == Permutations(MCBuilds)
============================================================================
