--------------------------- MODULE MCBranchLease ---------------------------
EXTENDS BranchLease, TLC

CONSTANTS a1, a2, t1, t2, t3

\* Two threads share an adapter, a third runs in another process.
MCThreads  == {t1, t2, t3}
MCAdapters == {a1, a2}
MCOf       == t1 :> a1 @@ t2 :> a1 @@ t3 :> a2
============================================================================
