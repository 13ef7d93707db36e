--------------------------- MODULE MCJevDispatch ---------------------------
EXTENDS JevDispatch, TLC

CONSTANTS d1, d2, v1, v2, v3, r1, r2, r3, p1, p2, p3

MCProcs    == {p1, p2, p3}
MCDirs     == {d1, d2}
MCPreviews == {v1, v2, v3}
MCRequests == {r1, r2, r3}
MCRequestsOf == v1 :> <<r1, r2>> @@ v2 :> <<r3>> @@ v3 :> <<r2>>

On(d, v) == [dir |-> d, preview |-> v]
Plan12 == <<On(d1, v1), On(d2, v2)>>

\* The plan with enough budget, with a budget only a run after others can keep, and
\* relate on one of its previews, and on another preview in the same directory.
MCCommands ==
  {[kind |-> "resume", batches |-> Plan12, budget |-> 3],
   [kind |-> "resume", batches |-> Plan12, budget |-> 1],
   [kind |-> "relate", batches |-> <<On(d1, v1)>>, budget |-> 0],
   [kind |-> "relate", batches |-> <<On(d1, v3)>>, budget |-> 0]}

Symm == Permutations(MCProcs)
============================================================================
