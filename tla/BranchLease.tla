---------------------------- MODULE BranchLease ----------------------------
(***************************************************************************)
(* CooperativeBranchLeaseAdapter: how one branch lease is made from three  *)
(* parts.  The kernel's flock on the branch's lock file excludes other     *)
(* adapters (other processes); an RLock in the adapter excludes its other  *)
(* threads; and the adapter's _held entry counts the nested operations of  *)
(* the thread that is inside.  Branches share none of the three, so one    *)
(* branch is modelled.                                                     *)
(***************************************************************************)
EXTENDS Naturals, FiniteSets

CONSTANTS
  Threads,   \* threads that run creator_operation or cleanup_operation
  Adapters,  \* adapter objects, one in a process
  Of,        \* Of[t]: the adapter t uses
  Nobody,
  MaxDepth,  \* bound on how often one thread has acquired its RLock
  Faults     \* subset of {"os", "crash"}

ASSUME LeaseAssumption ==
  /\ Of \in [Threads -> Adapters]
  /\ Nobody \notin Threads \union Adapters
  /\ MaxDepth \in Nat \ {0}

VARIABLES
  legal,   \* _lock_path accepts the name of the branch
  flock,   \* the adapter whose descriptor carries the kernel lock
  held,    \* held[a]: the count in a's _held entry, 0 if there is none
  rowner,  \* rowner[a]: the thread that owns a's RLock
  rcount,  \* rcount[a]: how often it acquired it
  depth,   \* depth[t]: operations of t that were acquired and not released
  pc       \* pc[t]: where t is in acquire or release

vars == <<legal, flock, held, rowner, rcount, depth, pc>>

Init ==
  /\ legal \in BOOLEAN
  /\ flock = Nobody
  /\ held = [a \in Adapters |-> 0]
  /\ rowner = [a \in Adapters |-> Nobody]
  /\ rcount = [a \in Adapters |-> 0]
  /\ depth = [t \in Threads |-> 0]
  /\ pc = [t \in Threads |-> "run"]

At(t, here) == pc[t] = here
Goto(t, next) == pc' = [pc EXCEPT ![t] = next]

----------------------------------------------------------------------------
(* RLock                                                                   *)

LockFree(a, t) == rowner[a] \in {Nobody, t}

RAcquire(a, t) ==
  /\ LockFree(a, t)
  /\ rowner' = [rowner EXCEPT ![a] = t]
  /\ rcount' = [rcount EXCEPT ![a] = @ + 1]

RRelease(a) ==
  /\ rcount' = [rcount EXCEPT ![a] = @ - 1]
  /\ rowner' = [rowner EXCEPT ![a] = IF rcount[a] = 1 THEN Nobody ELSE @]

----------------------------------------------------------------------------
(* acquire.  A busy thread lock or flock ends in False at the deadline.    *)

LockThread(t) ==
  /\ At(t, "run") /\ rcount[Of[t]] < MaxDepth
  /\ RAcquire(Of[t], t)
  /\ Goto(t, "lookup")
  /\ UNCHANGED <<flock, held, depth>>

\* The adapter already carries the lock for this thread: one more nested operation.
Nest(t) ==
  /\ At(t, "lookup") /\ held[Of[t]] > 0
  /\ held' = [held EXCEPT ![Of[t]] = @ + 1]
  /\ depth' = [depth EXCEPT ![t] = @ + 1]
  /\ Goto(t, "run")
  /\ UNCHANGED <<flock, rowner, rcount>>

OpenFile(t) ==
  /\ At(t, "lookup") /\ held[Of[t]] = 0 /\ legal
  /\ Goto(t, "flock")
  /\ UNCHANGED <<flock, held, rowner, rcount, depth>>

\* _lock_path raises, outside the try: the thread lock stays.
RefuseName(t) ==
  /\ At(t, "lookup") /\ held[Of[t]] = 0 /\ ~legal
  /\ Goto(t, "run")
  /\ UNCHANGED <<flock, held, rowner, rcount, depth>>

Bug_SharedLock == TRUE
FlockFree      == flock = Nobody

LockFile(t) ==
  /\ At(t, "flock") /\ FlockFree
  /\ flock' = Of[t]
  /\ held' = [held EXCEPT ![Of[t]] = 1]
  /\ depth' = [depth EXCEPT ![t] = @ + 1]
  /\ Goto(t, "run")
  /\ UNCHANGED <<rowner, rcount>>

\* The deadline passes; or the file cannot be opened or locked, and acquire raises.
GiveUpLock(t) ==
  /\ \/ At(t, "flock") /\ ~FlockFree
     \/ At(t, "flock") /\ "os" \in Faults
  /\ RRelease(Of[t])
  /\ Goto(t, "run")
  /\ UNCHANGED <<flock, held, depth>>

----------------------------------------------------------------------------
(* release, called by the thread that acquired, as the context managers do.*)

LastOperation(t) == held[Of[t]] = 1

Unnest(t) ==
  /\ At(t, "run") /\ depth[t] > 0 /\ ~LastOperation(t)
  /\ held' = [held EXCEPT ![Of[t]] = @ - 1]
  /\ depth' = [depth EXCEPT ![t] = @ - 1]
  /\ Goto(t, "unlockThread")
  /\ UNCHANGED <<flock, rowner, rcount>>

PopEntry(t) ==
  /\ At(t, "run") /\ depth[t] > 0 /\ LastOperation(t)
  /\ held' = [held EXCEPT ![Of[t]] = 0]
  /\ depth' = [depth EXCEPT ![t] = @ - 1]
  /\ Goto(t, "unlockFile")
  /\ UNCHANGED <<flock, rowner, rcount>>

UnlockFile(t) ==
  /\ At(t, "unlockFile")
  /\ flock' = Nobody
  /\ Goto(t, "unlockThread")
  /\ UNCHANGED <<held, rowner, rcount, depth>>

\* LOCK_UN failed: release returns False and the descriptor keeps the lock.
UnlockFails(t) ==
  /\ "os" \in Faults
  /\ At(t, "unlockFile")
  /\ Goto(t, "unlockThread")
  /\ UNCHANGED <<flock, held, rowner, rcount, depth>>

UnlockThread(t) ==
  /\ At(t, "unlockThread")
  /\ RRelease(Of[t])
  /\ Goto(t, "run")
  /\ UNCHANGED <<flock, held, depth>>

----------------------------------------------------------------------------
\* The process dies: its descriptors close, its memory is gone.
Crash(a) ==
  /\ "crash" \in Faults
  /\ flock' = IF flock = a THEN Nobody ELSE flock
  /\ held' = [held EXCEPT ![a] = 0]
  /\ rowner' = [rowner EXCEPT ![a] = Nobody]
  /\ rcount' = [rcount EXCEPT ![a] = 0]
  /\ depth' = [t \in Threads |-> IF Of[t] = a THEN 0 ELSE depth[t]]
  /\ pc' = [t \in Threads |-> IF Of[t] = a THEN "run" ELSE pc[t]]

AcquireStep(t) ==
  \/ LockThread(t) \/ Nest(t) \/ OpenFile(t) \/ RefuseName(t)
  \/ LockFile(t) \/ GiveUpLock(t)
ReleaseStep(t) ==
  Unnest(t) \/ PopEntry(t) \/ UnlockFile(t) \/ UnlockFails(t) \/ UnlockThread(t)

Next ==
  /\ \/ \E t \in Threads : AcquireStep(t) \/ ReleaseStep(t)
     \/ \E a \in Adapters : Crash(a)
  /\ UNCHANGED legal

Spec == Init /\ [][Next]_vars

----------------------------------------------------------------------------
\* The variables keep their types.
TypeOK ==
  /\ legal \in BOOLEAN
  /\ flock \in Adapters \union {Nobody}
  /\ held \in [Adapters -> Nat]
  /\ rowner \in [Adapters -> Threads \union {Nobody}]
  /\ rcount \in [Adapters -> Nat]
  /\ depth \in [Threads -> Nat]
  /\ pc \in [Threads -> {"run", "lookup", "flock", "unlockFile", "unlockThread"}]

Inside(t) == depth[t] > 0

\* Two operations on the branch are never open at once, whether their threads share an
\* adapter or not; and while one is open the kernel lock is its adapter's.
MutualExclusion ==
  /\ \A t, u \in Threads : Inside(t) /\ Inside(u) => t = u
  /\ \A t \in Threads : Inside(t) => flock = Of[t]

\* The _held count is the nesting of the thread inside: the outermost release, and no
\* earlier one, drops the kernel lock.
NestingCounted == \A t \in Threads : Inside(t) => held[Of[t]] = depth[t]

\* However acquire and release end, deadlines and failing system calls included, a thread
\* that is outside keeps a thread lock only where acquire left it behind: when it refused
\* the name of the branch, on which no operation is then ever open.
ThreadLockReturned ==
  \A t \in Threads : At(t, "run") /\ ~Inside(t) /\ rowner[Of[t]] = t =>
    ~legal /\ flock = Nobody /\ \A u \in Threads : ~Inside(u)

\* The thread that the lease belongs to.
Holder == IF \E t \in Threads : Inside(t) THEN CHOOSE t \in Threads : Inside(t) ELSE Nobody

\* The adapter implements the lease that creators and cleanup rely on: it goes to one
\* thread at a time, and from that thread to nobody before it goes to the next.
TheLease == INSTANCE Lease WITH Holders <- Threads, owner <- Holder
LeaseKept == TheLease!Spec
============================================================================
