------------------------------ MODULE Cleanup ------------------------------
(***************************************************************************)
(* Guarded branch cleanup as a whole: executors and reconcilers, the       *)
(* creators that take the same leases, git processes that take none, the   *)
(* creator runtime whose capability drifts, and crashes.                   *)
(***************************************************************************)
EXTENDS CleanupExecute, CleanupReconcile

Init ==
  /\ refs = [b \in Candidate |-> Planned]
  /\ main = Planned
  /\ held = [b \in Candidate |-> {}]
  /\ capability \in Caps
  /\ lease = [b \in Candidate |-> Nobody]
  /\ journal = [a \in Action |-> Blank]
  /\ disk = [a \in Action |-> Blank]
  /\ torn = FALSE
  /\ cutBy = [b \in Candidate |-> Nothing]
  /\ pc = [p \in Procs |-> "idle"]
  /\ plan = [p \in Procs |-> Nothing]
  /\ snapshot = [p \in Procs |-> NoCap]
  /\ idx = [p \in Procs |-> 1]
  /\ committed = [p \in Procs |-> FALSE]
  /\ stopped = [p \in Procs |-> "none"]
  /\ raised = [p \in Procs |-> FALSE]
  /\ deleted = [p \in Procs |-> {}]
  /\ todo = [p \in Procs |-> {}]

----------------------------------------------------------------------------
(* Creators: creator_operation holds the branch lease around everything a  *)
(* creator does to the branch.  The end of the operation is also what a    *)
(* creator's death looks like, as the kernel drops its flock.              *)

CreatorBegin(c, b) ==
  /\ lease[b] = Nobody
  /\ lease' = [lease EXCEPT ![b] = c]
  /\ UNCHANGED <<world, git, log, locals>>

CreatorWrite(c, b) ==
  /\ lease[b] = c
  /\ \E t \in Tip : refs' = [refs EXCEPT ![b] = t]
  /\ cutBy' = [cutBy EXCEPT ![b] = Nothing]
  /\ UNCHANGED <<world, log, lease, locals>>

CreatorCheckout(c, b) ==
  /\ lease[b] = c
  /\ refs[b] # Absent
  /\ held' = [held EXCEPT ![b] = @ \union {"timely"}]
  /\ UNCHANGED <<main, capability, git, log, lease, locals>>

CreatorEnd(c, b) ==
  /\ lease[b] = c
  /\ lease' = [lease EXCEPT ![b] = Nobody]
  /\ UNCHANGED <<world, git, log, locals>>

----------------------------------------------------------------------------
(* The rest of the world.                                                  *)

\* A worktree is removed or a stash dropped.
HoldEnds(b) ==
  /\ \E kind \in held[b] : held' = [held EXCEPT ![b] = @ \ {kind}]
  /\ UNCHANGED <<main, capability, git, log, lease, locals>>

DestinationMoves ==
  /\ main' \in Tip \ {main}
  /\ UNCHANGED <<held, capability, git, log, lease, locals>>

\* A process without the lease (an operator's git) writes the ref.
OutsideWrite(b) ==
  /\ \E v \in (Outside \intersect RefValue) \ {refs[b]} :
       /\ refs' = [refs EXCEPT ![b] = v]
       /\ cutBy' = [cutBy EXCEPT ![b] = Nothing]
  /\ UNCHANGED <<world, log, lease, locals>>

\* Such a process adds a worktree or a stash; nothing keeps it from a branch that is
\* about to be deleted.
Late(b) == \E p \in Procs : lease[b] = p /\ pc[p] \in AfterLook

OutsideHold(b) ==
  /\ "held" \in Outside
  /\ refs[b] # Absent
  /\ held' = [held EXCEPT ![b] = @ \union {IF Late(b) THEN "late" ELSE "timely"}]
  /\ UNCHANGED <<main, capability, git, log, lease, locals>>

\* A creator job starts, exits or is reinstalled, or cannot be verified.
CapabilityChanges ==
  /\ capability' \in (Caps \union {NoCap}) \ {capability}
  /\ UNCHANGED <<main, held, git, log, lease, locals>>

Crash(p) ==
  /\ "crash" \in Faults
  /\ ~At(p, "idle")
  /\ Vanish({p})
  /\ UNCHANGED <<world, git, log>>

\* What was not fsynced may be lost, or leave a stump of a line.
PowerLoss ==
  /\ "power" \in Faults
  /\ Vanish(Procs \union Creators)
  /\ \E kept \in SUBSET Action :
       journal' = [a \in Action |-> IF a \in kept THEN journal[a] ELSE disk[a]]
  /\ disk' = journal'
  /\ \/ UNCHANGED torn
     \/ disk # journal /\ torn' = TRUE
  /\ UNCHANGED <<world, git>>

----------------------------------------------------------------------------
Command(p) == ExecuteStep(p) \/ ReconcileStep(p) \/ Exit(p)

Launch(p) == \E pl \in Plans : StartExecute(p, pl) \/ StartReconcile(p, pl)

Fault(p) == ExecuteFault(p) \/ RRaise(p) \/ Crash(p)

Creator(c, b) ==
  CreatorBegin(c, b) \/ CreatorWrite(c, b) \/ CreatorCheckout(c, b) \/ CreatorEnd(c, b)

Environment ==
  \/ \E b \in Candidate : HoldEnds(b) \/ OutsideWrite(b) \/ OutsideHold(b)
  \/ DestinationMoves \/ CapabilityChanges \/ PowerLoss

Next ==
  \/ \E p \in Procs : Launch(p) \/ Command(p) \/ Fault(p)
  \/ \E c \in Creators, b \in Candidate : Creator(c, b)
  \/ Environment

Spec == Init /\ [][Next]_vars

(***************************************************************************)
(* A command that was started keeps running, but in these places it waits  *)
(* for a git process without a deadline (_git and GitRunner.run give none; *)
(* protected_worktree_paths, in the two gates, is one of them).  All the   *)
(* others end: file system calls, the probes, locks and git commands of    *)
(* the coordinator and _ref_presence, which carry a timeout.               *)
(***************************************************************************)
Unbounded ==
  {"gate", "pending", "refs", "holds", "activity", "content", "delete", "readback", "restore",
   "relRestore", "rGate"}

Bounded(p) == pc[p] \notin Unbounded /\ Command(p)

FairSpec == Spec /\ \A p \in Procs : WF_vars(Bounded(p))

----------------------------------------------------------------------------
Labels ==
  {"idle", "gate", "pending", "select", "acquire", "recheck", "refs", "holds", "activity", "content",
   "intent", "intentSync", "armed", "delete", "readback", "probe", "lastCheck",
   "restore", "result", "resultSync", "release", "unwind",
   "relProbe", "relRestore", "relResult", "relSync", "relReturn", "done",
   "rGate", "rPending", "rNext", "rAcquire", "rRead", "rFetch", "rCreate",
   "rAfter", "rWrite", "rSync", "rRelease"}

\* The variables keep their types.
TypeOK ==
  /\ refs \in [Candidate -> RefValue]
  /\ main \in Tip
  /\ held \in [Candidate -> SUBSET HoldKind]
  /\ capability \in Caps \union {NoCap}
  /\ lease \in [Candidate -> Procs \union Creators \union {Nobody}]
  /\ journal \in [Action -> Event]
  /\ disk \in [Action -> Event]
  /\ torn \in BOOLEAN
  /\ cutBy \in [Candidate -> Action \union {Nothing}]
  /\ pc \in [Procs -> Labels]
  /\ plan \in [Procs -> Plans \union {Nothing}]
  /\ snapshot \in [Procs -> Caps \union {NoCap}]
  /\ idx \in [Procs -> 1..(N + 1)]
  /\ committed \in [Procs -> BOOLEAN]
  /\ stopped \in [Procs -> Status \union ReturnedStatus]
  /\ raised \in [Procs -> BOOLEAN]
  /\ deleted \in [Procs -> SUBSET Candidate]
  /\ todo \in [Procs -> SUBSET (Candidate \X (Caps \union {NoCap}))]

(* Steps the properties are about.                                         *)
ToolStep(p)    == pc'[p] # pc[p]
Deletes(p, b)  == /\ At(p, "delete") /\ ToolStep(p) /\ idx[p] = b
                  /\ refs[b] # Absent /\ refs'[b] = Absent
Restores(p, b) == /\ ToolStep(p) /\ idx[p] = b
                  /\ refs[b] = Absent /\ refs'[b] # Absent
Closes(a)      == journal[a].kind = "intent" /\ journal'[a].kind \in {"result", "reconciled"}

\* The deletion transaction runs only under the branch's own lease, on a branch still
\* at its planned tip, with the destination where its content was proved, whatever moved
\* since; and a worktree or stash on it can only be one that began after the reproof
\* looked, without the lease (cleanup.py, lines 643-694).
DeletionIsGuarded ==
  [][\A p \in Procs, b \in Candidate : Deletes(p, b) =>
       /\ lease[b] = p
       /\ refs[b] = Planned /\ main = Planned
       /\ "timely" \notin held[b] /\ b \in ContentExact]_vars

\* The tool never overwrites a ref somebody moved or recreated: it only removes a ref
\* at its planned tip and only creates one that is absent, at that tip.
RefsNeverClobbered ==
  [][\A p \in Procs, b \in Candidate : ToolStep(p) /\ refs'[b] # refs[b] =>
       {refs[b], refs'[b]} = {Planned, Absent}]_vars

\* While a creator is inside its operation the tool does not write its branch.
CreatorsAreAlone ==
  [][\A p \in Procs, b \in Candidate :
       ToolStep(p) /\ lease[b] \in Creators => refs'[b] = refs[b]]_vars

\* When a branch is deleted its intent has already survived any crash.
IntentIsDurable ==
  [][\A p \in Procs, b \in Candidate : Deletes(p, b) =>
       disk[Act(p)] = Intent(snapshot[p])]_vars

\* Nothing is deleted while another action, of any plan, is unfinished, or while the
\* journal cannot be read.
OneUnfinishedAction ==
  [][\A p \in Procs, b \in Candidate : Deletes(p, b) =>
       ~torn /\ Pending(Plans) = {Act(p)}]_vars

\* An intent whose deletion took place and was not undone is closed only by an event
\* that admits the branch may be missing; otherwise it stays for reconciliation.
ClosedHonestly ==
  [][\A a \in Action : Closes(a) /\ cutBy[a[2]] = a =>
       journal'[a].status \in AbsenceStatus]_vars

\* Reconciliation brings a branch back only for an intent that is still unfinished,
\* and never one that another action removed.
RestoresOnlyInterrupted ==
  [][\A p \in Procs, b \in Candidate : At(p, "rCreate") /\ Restores(p, b) =>
       journal[Act(p)].kind = "intent" /\ cutBy[b] \in {Act(p), Nothing}]_vars

\* A branch the executor put back is not in the list of deleted branches it returns.
RestoredIsNotReported ==
  [][\A p \in Procs, b \in Candidate : Restores(p, b) => b \notin deleted'[p]]_vars

\* "Immediately before each removal, the executor rereads refs, worktrees, statuses,
\* stash links" (cleanup.md:102): no branch goes while a worktree or stash is on it.
HeldBranchesStay ==
  [][\A p \in Procs, b \in Candidate : Deletes(p, b) => held[b] = {}]_vars

============================================================================
