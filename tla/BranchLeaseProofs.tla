------------------------- MODULE BranchLeaseProofs -------------------------
(***************************************************************************)
(* The branch lease excludes, counts and refines for any number of threads *)
(* and adapters and any depth of nesting.                                  *)
(***************************************************************************)
EXTENDS BranchLease, TLAPS

Calls(t) == IF At(t, "run") THEN 0 ELSE 1

\* What the thread that owns the RLock of its adapter knows.
OwnerKnows ==
  \A t \in Threads : rowner[Of[t]] = t =>
    /\ rcount[Of[t]] >= depth[t] + Calls(t)
    /\ legal => rcount[Of[t]] = depth[t] + Calls(t)
    /\ rcount[Of[t]] > 0
    /\ held[Of[t]] = depth[t]

\* A thread inside, or in the middle of a call, owns the RLock of its adapter.
BusyOwns ==
  \A t \in Threads : Inside(t) \/ ~At(t, "run") => rowner[Of[t]] = t

\* An adapter without a thread in it holds nothing.
FreeIsEmpty ==
  \A a \in Adapters :
    /\ rowner[a] = Nobody => held[a] = 0 /\ rcount[a] = 0
    /\ rowner[a] # Nobody => Of[rowner[a]] = a

\* A counted entry goes with the kernel lock, which a thread gives up last.
EntryHasFlock ==
  /\ \A a \in Adapters : held[a] > 0 => flock = a
  /\ \A t \in Threads : At(t, "flock") \/ At(t, "unlockFile") => held[Of[t]] = 0
  /\ \A t \in Threads : At(t, "unlockFile") => flock = Of[t]

\* With a name that is refused nobody gets past the lookup.
RefusedStaysOut ==
  ~legal => /\ flock = Nobody
            /\ \A t \in Threads : ~Inside(t) /\ pc[t] \in {"run", "lookup"}

IInv == TypeOK /\ OwnerKnows /\ BusyOwns /\ FreeIsEmpty /\ EntryHasFlock /\ RefusedStaysOut

LEMMA InitInvariant == Init => IInv
  BY LeaseAssumption
  DEF Init, IInv, TypeOK, OwnerKnows, BusyOwns, FreeIsEmpty, EntryHasFlock, RefusedStaysOut, Inside, At

LEMMA NextInvariant == IInv /\ [Next]_vars => IInv'
  <1> SUFFICES ASSUME IInv, [Next]_vars PROVE IInv'
    OBVIOUS
  <1> USE LeaseAssumption
      DEF IInv, TypeOK, OwnerKnows, BusyOwns, FreeIsEmpty, EntryHasFlock, RefusedStaysOut,
          Inside, At, Goto, Calls
  <1> DEFINE Same == UNCHANGED legal
  <1>1. ASSUME NEW t \in Threads, LockThread(t), Same PROVE IInv'
    BY <1>1 DEF LockThread, RAcquire, LockFree
  <1>2. ASSUME NEW t \in Threads, Nest(t), Same PROVE IInv'
    BY <1>2 DEF Nest
  <1>3. ASSUME NEW t \in Threads, OpenFile(t), Same PROVE IInv'
    BY <1>3 DEF OpenFile
  <1>13. ASSUME NEW t \in Threads, RefuseName(t), Same PROVE IInv'
    BY <1>13 DEF RefuseName
  <1>4. ASSUME NEW t \in Threads, LockFile(t), Same PROVE IInv'
    BY <1>4 DEF LockFile, FlockFree
  <1>5. ASSUME NEW t \in Threads, GiveUpLock(t), Same PROVE IInv'
    BY <1>5 DEF GiveUpLock, RRelease
  <1>6. ASSUME NEW t \in Threads, Unnest(t), Same PROVE IInv'
    BY <1>6 DEF Unnest, LastOperation
  <1>7. ASSUME NEW t \in Threads, PopEntry(t), Same PROVE IInv'
    BY <1>7 DEF PopEntry, LastOperation
  <1>8. ASSUME NEW t \in Threads, UnlockFile(t), Same PROVE IInv'
    BY <1>8 DEF UnlockFile
  <1>9. ASSUME NEW t \in Threads, UnlockFails(t), Same PROVE IInv'
    BY <1>9 DEF UnlockFails
  <1>10. ASSUME NEW t \in Threads, UnlockThread(t), Same PROVE IInv'
    BY <1>10 DEF UnlockThread, RRelease
  <1>11. ASSUME NEW a \in Adapters, Crash(a), Same PROVE IInv'
    BY <1>11 DEF Crash
  <1>12. CASE UNCHANGED vars
    BY <1>12 DEF vars
  <1> QED
    BY <1>1, <1>2, <1>3, <1>4, <1>5, <1>6, <1>7, <1>8, <1>9, <1>10, <1>11, <1>12, <1>13
    DEF Next, AcquireStep, ReleaseStep

LEMMA Invariance == Spec => []IInv
  BY InitInvariant, NextInvariant, PTL DEF Spec

----------------------------------------------------------------------------
LEMMA Excludes == IInv => MutualExclusion
  <1> SUFFICES ASSUME IInv PROVE MutualExclusion
    OBVIOUS
  <1>1. ASSUME NEW t \in Threads, Inside(t)
        PROVE  flock = Of[t] /\ rowner[Of[t]] = t
    BY <1>1, LeaseAssumption
    DEF IInv, TypeOK, BusyOwns, OwnerKnows, EntryHasFlock, Inside
  <1> QED BY <1>1 DEF MutualExclusion

\* Every variable keeps its type, so no count of the adapter ever goes below zero.
THEOREM TypeCorrect == Spec => []TypeOK
  <1>1. IInv => TypeOK
    BY DEF IInv
  <1> QED BY <1>1, Invariance, PTL

\* Two operations on a branch are never open at once, in whatever processes and threads.
THEOREM Exclusion == Spec => []MutualExclusion
  BY Excludes, Invariance, PTL

\* Only the outermost release gives the lease up.
THEOREM Counted == Spec => []NestingCounted
  <1>1. IInv => NestingCounted
    BY DEF IInv, NestingCounted, OwnerKnows, BusyOwns
  <1> QED BY <1>1, Invariance, PTL

\* Only the refusal of a branch name leaves the thread lock behind: every other way out of
\* acquire and release gives it back, and on a refused name no operation is ever open.
THEOREM NoLockLeft == Spec => []ThreadLockReturned
  <1>1. IInv => ThreadLockReturned
    BY LeaseAssumption
    DEF IInv, TypeOK, ThreadLockReturned, OwnerKnows, RefusedStaysOut, Calls, Inside
  <1> QED BY <1>1, Invariance, PTL

----------------------------------------------------------------------------
(* Refinement.                                                             *)

\* Nobody comes inside while somebody is.
LEMMA NoHandover ==
  ASSUME IInv, [Next]_vars, NEW t \in Threads, NEW u \in Threads, Inside(t), Inside(u)'
  PROVE  t = u
  <1> SUFFICES ASSUME ~Inside(u) PROVE FALSE
    BY Excludes DEF MutualExclusion
  <1>1. flock = Of[t]
    BY Excludes DEF MutualExclusion
  <1>2. LockFile(u) \/ Nest(u)
    BY DEF Next, vars, AcquireStep, ReleaseStep, LockThread, Nest, OpenFile, RefuseName, LockFile,
           GiveUpLock, Unnest, PopEntry, UnlockFile, UnlockFails, UnlockThread, Crash, IInv, TypeOK, Inside
  <1>3. ~LockFile(u)
    BY <1>1, LeaseAssumption DEF LockFile, FlockFree
  <1>4. ~Nest(u)
    BY DEF Nest, IInv, TypeOK, BusyOwns, OwnerKnows, At, Inside
  <1> QED BY <1>2, <1>3, <1>4

\* The adapter implements the abstract lease: RLock, flock and nesting together hand the
\* branch to one thread at a time, which gives it up before another gets it.
THEOREM Implements == Spec => LeaseKept
  <1>1. Init => TheLease!Init
    BY DEF Init, Inside, Holder, TheLease!Init
  <1>2. IInv => MutualExclusion
    BY Excludes
  <1>3. MutualExclusion /\ MutualExclusion' /\ IInv /\ [Next]_vars =>
          [TheLease!Take \/ TheLease!GiveUp]_Holder
    <2> SUFFICES ASSUME MutualExclusion, MutualExclusion', IInv, [Next]_vars
                 PROVE  [TheLease!Take \/ TheLease!GiveUp]_Holder
      OBVIOUS
    <2>1. \/ (\A t \in Threads : ~Inside(t)) /\ Holder = Nobody
          \/ \E t \in Threads : Inside(t) /\ Holder = t
      BY DEF Holder, MutualExclusion
    <2>2. \/ (\A t \in Threads : ~Inside(t)') /\ Holder' = Nobody
          \/ \E t \in Threads : Inside(t)' /\ Holder' = t
      BY DEF Holder, MutualExclusion
    <2>3. \/ Holder = Nobody /\ Holder' \in Threads
          \/ Holder # Nobody /\ Holder' = Nobody
          \/ Holder' = Holder
      BY <2>1, <2>2, NoHandover, LeaseAssumption
    <2> QED BY <2>3 DEF TheLease!Take, TheLease!GiveUp
  <1> QED BY <1>1, <1>2, <1>3, Invariance, PTL DEF Spec, LeaseKept, TheLease!Spec
============================================================================
