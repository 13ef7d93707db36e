----------------------------- MODULE MCCleanup -----------------------------
EXTENDS Cleanup, TLC

\* Symmetry of the model values; sound for the safety runs only.
Symmetry == Permutations(Plans) \union Permutations(Procs)
              \union Permutations(Creators) \union Permutations(Caps)
============================================================================
