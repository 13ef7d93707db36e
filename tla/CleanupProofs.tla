--------------------------- MODULE CleanupProofs ---------------------------
(***************************************************************************)
(* Proofs about Cleanup for every number of candidates, plans, commands,   *)
(* creators and capabilities, and every choice of faults: first what holds *)
(* of any commands at the same time (IInv), then what needs releases that  *)
(* do not fail (NoLostLease), what the executor reports (LeftBehind), what *)
(* needs commands that do not overlap (SoloInv), and the lease itself.     *)
(***************************************************************************)
EXTENDS Cleanup, TLAPS

\* Labels at which a command works on the candidate idx[p].
WorkLabels ==
  {"acquire", "recheck", "refs", "holds", "activity", "content", "intent", "intentSync",
   "armed", "delete", "readback", "probe", "lastCheck", "restore", "result", "resultSync",
   "release", "unwind", "relProbe", "relRestore", "relResult", "relSync", "relReturn",
   "rAcquire", "rRead", "rFetch", "rCreate", "rAfter", "rWrite", "rSync", "rRelease"}

\* Labels at which it holds the lease of that candidate.
LeaseLabels ==
  {"recheck", "refs", "holds", "activity", "content", "intent", "intentSync",
   "armed", "delete", "readback", "probe", "lastCheck", "restore", "result", "resultSync",
   "release", "unwind",
   "rRead", "rFetch", "rCreate", "rAfter", "rWrite", "rSync", "rRelease"}

\* Labels after the reproof of the content (AfterLook: after that of the holds).
ProvenLabels == {"intent", "intentSync", "armed", "delete"}

WorkOK ==
  \A p \in Procs :
    /\ pc[p] # "idle" => plan[p] \in Plans /\ snapshot[p] \in Caps
    /\ pc[p] \in WorkLabels => idx[p] \in Candidate

LeaseOwned == \A p \in Procs : pc[p] \in LeaseLabels => lease[idx[p]] = p

ReproofStands ==
  \A p \in Procs :
    /\ pc[p] \in AfterLook => "timely" \notin held[idx[p]]
    /\ pc[p] \in ProvenLabels => idx[p] \in ContentExact

\* A status that no journal event may carry is set only on the way out.
AnyStatus == Status \union ReturnedStatus
StatusOK ==
  \A p \in Procs :
    /\ pc[p] # "done" => stopped[p] \in Status \union {"none"}
    /\ pc[p] = "rWrite" => stopped[p] \in Status

\* The inductive invariant.
IInv == TypeOK /\ WorkOK /\ StatusOK /\ LeaseOwned /\ ReproofStands

----------------------------------------------------------------------------
(* One step of one command.                                                *)

\* It enters a label only with what that label presupposes.
MayEnter(p, next) ==
  /\ next \in Labels \ {"idle"}
  /\ pc[p] \notin {"idle", "done"}
  /\ next \in WorkLabels => idx[p] \in Candidate
  /\ next \in LeaseLabels => pc[p] \in LeaseLabels
  /\ next \in AfterLook => "timely" \notin held[idx[p]]
  /\ next \in ProvenLabels => idx[p] \in ContentExact

\* It keeps its status, or settles on one that suits the label.
Reports(p, next) ==
  \/ UNCHANGED stopped /\ next # "rWrite"
  \/ \E s \in AnyStatus :
       /\ stopped' = [stopped EXCEPT ![p] = s]
       /\ next = "done" \/ s \in Status \/ (s = "none" /\ next # "rWrite")

LEMMA CommandStep ==
  ASSUME IInv, TypeOK', NEW p \in Procs, NEW next \in Labels \ {"idle"},
         pc[p] \notin {"idle", "done"},
         pc' = [pc EXCEPT ![p] = next],
         Reports(p, next),
         UNCHANGED <<held, plan, snapshot>>,
         \A q \in Procs \ {p} : idx'[q] = idx[q],
         \A q \in Procs \ {p}, b \in Candidate : lease[b] = q => lease'[b] = q,
         next \in WorkLabels => idx'[p] \in Candidate,
         next \in LeaseLabels => lease'[idx'[p]] = p,
         next \in AfterLook => "timely" \notin held[idx'[p]],
         next \in ProvenLabels => idx'[p] \in ContentExact
  PROVE  IInv'
  <1>1. WorkOK'
    BY DEF IInv, TypeOK, WorkOK
  <1>2. LeaseOwned'
    <2> SUFFICES ASSUME NEW q \in Procs, pc'[q] \in LeaseLabels
                 PROVE  lease'[idx'[q]] = q
      BY DEF LeaseOwned
    <2>1. CASE q = p
      BY <2>1 DEF IInv, TypeOK
    <2>2. CASE q # p
      <3>1. pc[q] \in LeaseLabels /\ idx'[q] = idx[q]
        BY <2>2 DEF IInv, TypeOK
      <3>2. idx[q] \in Candidate /\ lease[idx[q]] = q
        BY <3>1 DEF IInv, WorkOK, LeaseOwned, WorkLabels, LeaseLabels
      <3> QED BY <2>2, <3>1, <3>2
    <2> QED BY <2>1, <2>2
  <1>3. ReproofStands'
    BY DEF IInv, TypeOK, ReproofStands
  <1>4. StatusOK'
    BY DEF IInv, TypeOK, StatusOK, Reports, AnyStatus
  <1> QED BY <1>1, <1>2, <1>3, <1>4 DEF IInv

\* A step that leaves leases and its candidate alone.
LEMMA LocalStep ==
  ASSUME IInv, TypeOK', NEW p \in Procs, NEW next, MayEnter(p, next),
         pc' = [pc EXCEPT ![p] = next],
         Reports(p, next),
         UNCHANGED <<held, lease, plan, snapshot, idx>>
  PROVE  IInv'
  <1>1. next \in LeaseLabels => lease'[idx'[p]] = p
    BY DEF IInv, LeaseOwned, MayEnter
  <1> QED BY <1>1, CommandStep DEF MayEnter

\* A step that changes nothing but the label and the status keeps the types.
LEMMA QuietTypes ==
  ASSUME IInv, NEW p \in Procs, NEW next \in Labels, Quiet,
         pc' = [pc EXCEPT ![p] = next],
         \/ UNCHANGED stopped
         \/ \E s \in AnyStatus : stopped' = [stopped EXCEPT ![p] = s]
  PROVE  TypeOK'
  <1>1. pc' \in [Procs -> Labels] /\ stopped' \in [Procs -> AnyStatus]
    BY DEF IInv, TypeOK, AnyStatus
  <1> QED BY <1>1 DEF IInv, TypeOK, AnyStatus, Quiet, shared, world, git, log, given

LEMMA GoStep ==
  ASSUME IInv, NEW p \in Procs, NEW here, NEW next,
         Go(p, here, next), MayEnter(p, next), next # "rWrite"
  PROVE  IInv'
  <1>1. next \in Labels /\ pc' = [pc EXCEPT ![p] = next] /\ UNCHANGED stopped /\ Quiet
    BY DEF Go, Proceed, MayEnter
  <1>2. TypeOK' /\ Reports(p, next)
    BY <1>1, QuietTypes DEF Reports
  <1>3. UNCHANGED <<held, lease, plan, snapshot, idx>>
    BY <1>1 DEF Quiet, shared, world, given
  <1> QED BY <1>1, <1>2, <1>3, LocalStep

LEMMA ConcludeStep ==
  ASSUME IInv, NEW p \in Procs, NEW here, NEW next, NEW status \in AnyStatus,
         Conclude(p, here, status, next), MayEnter(p, next),
         next = "done" \/ status \in Status
  PROVE  IInv'
  <1>1. /\ next \in Labels /\ pc' = [pc EXCEPT ![p] = next] /\ Quiet
        /\ stopped' = [stopped EXCEPT ![p] = status]
    BY DEF Conclude, Settle, MayEnter
  <1>2. TypeOK' /\ Reports(p, next)
    BY <1>1, QuietTypes DEF Reports
  <1>3. UNCHANGED <<held, lease, plan, snapshot, idx>>
    BY <1>1 DEF Quiet, shared, world, given
  <1> QED BY <1>1, <1>2, <1>3, LocalStep

LEMMA GuardStep ==
  ASSUME IInv, NEW p \in Procs, NEW here, NEW ok, NEW next, NEW status \in AnyStatus, NEW other,
         Guard(p, here, ok, next, status, other),
         ok => MayEnter(p, next) /\ next # "rWrite",
         ~ok => MayEnter(p, other),
         other = "done" \/ status \in Status
  PROVE  IInv'
  <1>1. CASE ok
    <2>1. Go(p, here, next)
      BY <1>1 DEF Guard
    <2> QED BY <1>1, <2>1, GoStep
  <1>2. CASE ~ok
    <2>1. Conclude(p, here, status, other)
      BY <1>2 DEF Guard
    <2> QED BY <1>2, <2>1, ConcludeStep
  <1> QED BY <1>1, <1>2

----------------------------------------------------------------------------
(* Journal, refs and leases.                                               *)

LEMMA EventTypes ==
  /\ Blank \in Event
  /\ \A c \in Caps : Intent(c) \in Event
  /\ \A s \in Status : Result(s) \in Event /\ Reconciled(s) \in Event
  BY DEF Event, Blank, Intent, Result, Reconciled

LEMMA ActTypes ==
  ASSUME IInv, NEW p \in Procs, pc[p] \in WorkLabels
  PROVE  Act(p) \in Action
  BY DEF IInv, WorkOK, Act, Action, WorkLabels

LEMMA WriteStep ==
  ASSUME IInv, NEW p \in Procs, NEW here, NEW event \in Event, NEW next,
         WriteEvent(p, here, event, next), MayEnter(p, next), next # "rWrite"
  PROVE  IInv'
  <1>1. pc' \in [Procs -> Labels] /\ journal' \in [Action -> Event]
    BY DEF IInv, TypeOK, WriteEvent, Proceed, MayEnter
  <1>2. TypeOK'
    BY <1>1 DEF IInv, TypeOK, WriteEvent, Proceed, world, git, given
  <1>3. Reports(p, next) /\ pc' = [pc EXCEPT ![p] = next]
    BY DEF WriteEvent, Proceed, Reports
  <1>4. UNCHANGED <<held, lease, plan, snapshot, idx>>
    BY DEF WriteEvent, world, given
  <1> QED BY <1>2, <1>3, <1>4, LocalStep

LEMMA SyncStep ==
  ASSUME IInv, NEW p \in Procs, NEW here, NEW next,
         SyncEvent(p, here, next), MayEnter(p, next), next # "rWrite"
  PROVE  IInv'
  <1>1. pc' \in [Procs -> Labels] /\ disk' \in [Action -> Event]
    BY DEF IInv, TypeOK, SyncEvent, Synced, Proceed, MayEnter
  <1>2. TypeOK'
    BY <1>1 DEF IInv, TypeOK, SyncEvent, Proceed, world, git, given
  <1>3. Reports(p, next) /\ pc' = [pc EXCEPT ![p] = next]
    BY DEF SyncEvent, Proceed, Reports
  <1>4. UNCHANGED <<held, lease, plan, snapshot, idx>>
    BY DEF SyncEvent, world, given
  <1> QED BY <1>2, <1>3, <1>4, LocalStep

LEMMA CutTypes ==
  ASSUME IInv, NEW p \in Procs, pc[p] \in WorkLabels, CutRef(p)
  PROVE  refs' \in [Candidate -> RefValue] /\ cutBy' \in [Candidate -> Action \union {Nothing}]
  BY ActTypes DEF IInv, TypeOK, CutRef, RefValue

LEMMA RestoreStep ==
  ASSUME IInv, NEW p \in Procs, NEW here, NEW next,
         Restore(p, here, next), MayEnter(p, next), next # "rWrite",
         deleted' \in [Procs -> SUBSET Candidate]
  PROVE  IInv'
  <1>1. pc' \in [Procs -> Labels]
    BY DEF IInv, TypeOK, Restore, Proceed, MayEnter
  <1>2. refs' \in [Candidate -> RefValue] /\ cutBy' \in [Candidate -> Action \union {Nothing}]
    BY DEF IInv, TypeOK, Restore, RefValue, Tip
  <1>3. TypeOK'
    BY <1>1, <1>2 DEF IInv, TypeOK, Restore, Proceed, world, log, given
  <1>4. Reports(p, next) /\ pc' = [pc EXCEPT ![p] = next]
    BY DEF Restore, Proceed, Reports
  <1>5. UNCHANGED <<held, lease, plan, snapshot, idx>>
    BY DEF Restore, world, given
  <1> QED BY <1>3, <1>4, <1>5, LocalStep

LEMMA AcquireStep ==
  ASSUME IInv, NEW p \in Procs, NEW here, NEW next,
         pc[p] \notin {"idle", "done"} \union AfterLook, pc[p] \in WorkLabels,
         Acquire(p, here, next), next \in LeaseLabels \ (AfterLook \union {"rWrite"})
  PROVE  IInv'
  <1>1. idx[p] \in Candidate /\ next \in Labels /\ next # "idle"
    BY DEF IInv, WorkOK, LeaseLabels, Labels
  <1>2. pc' \in [Procs -> Labels] /\ lease' \in [Candidate -> Procs \union Creators \union {Nobody}]
    BY <1>1 DEF IInv, TypeOK, Acquire, Proceed
  <1>3. TypeOK'
    BY <1>2 DEF IInv, TypeOK, Acquire, Proceed, world, git, log, given
  <1>4. lease'[idx[p]] = p /\ \A q \in Procs \ {p}, b \in Candidate : lease[b] = q => lease'[b] = q
    BY <1>1, ConstantsAssumption DEF IInv, TypeOK, Acquire, LeaseFree
  <1>5. Reports(p, next) /\ pc' = [pc EXCEPT ![p] = next]
    BY DEF Acquire, Proceed, Reports
  <1>6. UNCHANGED <<held, plan, snapshot, idx>> /\ next \notin ProvenLabels
    BY DEF Acquire, world, given, AfterLook, ProvenLabels
  <1> QED BY <1>1, <1>3, <1>4, <1>5, <1>6, CommandStep

\* The lease of the candidate is given up, freed or leaked.
LEMMA DropTypes ==
  ASSUME IInv, NEW p \in Procs, pc[p] \in LeaseLabels, Released(p) \/ ReleaseFailed(p)
  PROVE  /\ lease' \in [Candidate -> Procs \union Creators \union {Nobody}]
         /\ \A q \in Procs \ {p}, b \in Candidate : lease[b] = q => lease'[b] = q
  <1>1. lease[idx[p]] = p
    BY DEF IInv, LeaseOwned
  <1> QED BY <1>1 DEF IInv, TypeOK, Released, ReleaseFailed

----------------------------------------------------------------------------
(* One lemma per kind of action, one step per action.                      *)

\* Where a command is in its work on a candidate, the candidate is one of the plan's.
LEMMA AtWork ==
  ASSUME IInv, NEW p \in Procs
  PROVE  /\ pc[p] \in WorkLabels => idx[p] \in Candidate
         /\ pc[p] \in AfterLook => "timely" \notin held[idx[p]]
         /\ pc[p] \in ProvenLabels => idx[p] \in ContentExact
         /\ pc[p] # "idle" => snapshot[p] \in Caps
         /\ pc[p] # "done" => stopped[p] \in Status \union {"none"}
         /\ pc[p] = "rWrite" => stopped[p] \in Status
         /\ pc[p] = "select" => idx[p] \in 1..(N + 1)
  BY DEF IInv, TypeOK, WorkOK, StatusOK, ReproofStands

LEMMA ExecutePreserves ==
  ASSUME IInv, NEW p \in Procs, ExecuteStep(p)
  PROVE  IInv'
  <1> USE DEF At, MayEnter, Labels, WorkLabels, LeaseLabels, AfterLook, ProvenLabels,
             AnyStatus, Status, PreconditionStatus, AbsenceStatus, PresenceStatus, ReturnedStatus
  <1>1. ASSUME GateCapability(p) PROVE IInv'
    BY <1>1, AtWork, GuardStep DEF GateCapability, Guard, Go, Conclude, Candidate
  <1>2. ASSUME GateJournal(p) PROVE IInv'
    BY <1>2, AtWork, GuardStep DEF GateJournal, Guard, Go, Conclude, Candidate
  <1>3. ASSUME GateUnreadable(p) PROVE IInv'
    BY <1>3, AtWork, ConcludeStep DEF GateUnreadable, Conclude
  <1>4. ASSUME SelectCandidate(p) PROVE IInv'
    <2>1. pc[p] = "select" /\ idx[p] \in Candidate
      BY <1>4, AtWork, ConstantsAssumption DEF SelectCandidate, Guard, Candidate
    <2> QED BY <1>4, <2>1, GuardStep DEF SelectCandidate
  <1>5. ASSUME LoopEnds(p) PROVE IInv'
    BY <1>5, AtWork, GoStep DEF LoopEnds, Go
  <1>6. ASSUME AcquireLease(p) PROVE IInv'
    BY <1>6, AcquireStep DEF AcquireLease, Acquire
  <1>7. ASSUME LeaseBusy(p) PROVE IInv'
    BY <1>7, AtWork, ConcludeStep DEF LeaseBusy, Conclude, Busy
  <1>8. ASSUME RecheckCapability(p) PROVE IInv'
    BY <1>8, AtWork, GuardStep DEF RecheckCapability, Guard, Go, Conclude, Candidate
  <1>9. ASSUME ReproveRefs(p) PROVE IInv'
    BY <1>9, AtWork, GuardStep DEF ReproveRefs, Guard, Go, Conclude, Candidate
  <1>10. ASSUME ReproveHolds(p) PROVE IInv'
    BY <1>10, AtWork, GuardStep DEF ReproveHolds, Guard, Go, Conclude, NoHold, Candidate
  <1>11. ASSUME ActivityIsOld(p) PROVE IInv'
    BY <1>11, AtWork, GoStep DEF ActivityIsOld, Go
  <1>12. ASSUME ActivityIsRecent(p) PROVE IInv'
    BY <1>12, AtWork, ConcludeStep DEF ActivityIsRecent, Conclude
  <1>13. ASSUME ReproveContent(p) PROVE IInv'
    BY <1>13, AtWork, GuardStep DEF ReproveContent, Guard, Go, Conclude, Candidate
  <1>14. ASSUME WriteIntent(p) PROVE IInv'
    <2>1. pc[p] = "intent" /\ WriteEvent(p, "intent", Intent(snapshot[p]), "intentSync")
      BY <1>14 DEF WriteIntent, WriteEvent
    <2>2. Intent(snapshot[p]) \in Event
      BY <2>1, AtWork, EventTypes
    <2>3. MayEnter(p, "intentSync")
      BY <2>1, AtWork
    <2> QED BY <2>1, <2>2, <2>3, WriteStep
  <1>15. ASSUME SyncIntent(p) PROVE IInv'
    BY <1>15, AtWork, SyncStep DEF SyncIntent, SyncEvent
  <1>16. ASSUME CheckArmed(p) PROVE IInv'
    BY <1>16, AtWork, GuardStep DEF CheckArmed, Guard, Go, Conclude, Candidate
  <1>17. ASSUME DeleteSource(p) PROVE IInv'
    <2>1. pc[p] = "delete" /\ pc' = [pc EXCEPT ![p] = "readback"] /\ MayEnter(p, "readback")
      BY <1>17, AtWork DEF DeleteSource, Proceed
    <2>2. refs' \in [Candidate -> RefValue] /\ cutBy' \in [Candidate -> Action \union {Nothing}]
      BY <1>17, <2>1, CutTypes DEF DeleteSource, WorkLabels
    <2>3. pc' \in [Procs -> Labels] /\ committed' \in [Procs -> BOOLEAN]
      BY <1>17, <2>1 DEF DeleteSource, IInv, TypeOK, MayEnter
    <2>4. TypeOK'
      BY <1>17, <2>2, <2>3 DEF DeleteSource, Proceed, IInv, TypeOK, world, log, given
    <2>5. Reports(p, "readback") /\ UNCHANGED <<held, lease, plan, snapshot, idx>>
      BY <1>17 DEF DeleteSource, Proceed, Reports, world, given
    <2> QED BY <2>1, <2>4, <2>5, LocalStep
  <1>18. ASSUME DeleteRefused(p) PROVE IInv'
    BY <1>18, AtWork, ConcludeStep DEF DeleteRefused, Conclude
  <1>19. ASSUME ReadBack(p) PROVE IInv'
    BY <1>19, AtWork, GuardStep DEF ReadBack, Guard, Go, Conclude, Candidate
  <1>20. ASSUME ReadBackFails(p) PROVE IInv'
    BY <1>20, AtWork, ConcludeStep DEF ReadBackFails, Conclude
  <1>21. ASSUME ProbePresent(p) PROVE IInv'
    BY <1>21, AtWork, GoStep DEF ProbePresent, Go
  <1>22. ASSUME ProbeNotPresent(p) PROVE IInv'
    BY <1>22, AtWork, GoStep DEF ProbeNotPresent, Go
  <1>23. ASSUME LastCheckPasses(p) PROVE IInv'
    <2>1. pc[p] = "lastCheck" /\ pc' = [pc EXCEPT ![p] = "result"] /\ MayEnter(p, "result")
      BY <1>23, AtWork DEF LastCheckPasses, Proceed
    <2>2. deleted' \in [Procs -> SUBSET Candidate] /\ pc' \in [Procs -> Labels]
      BY <1>23, <2>1, AtWork DEF LastCheckPasses, IInv, TypeOK, WorkLabels, MayEnter
    <2>3. TypeOK'
      BY <1>23, <2>2 DEF LastCheckPasses, Proceed, IInv, TypeOK, shared, world, git, log, given
    <2>4. Reports(p, "result") /\ UNCHANGED <<held, lease, plan, snapshot, idx>>
      BY <1>23 DEF LastCheckPasses, Proceed, Reports, shared, world, given
    <2> QED BY <2>1, <2>3, <2>4, LocalStep
  <1>24. ASSUME LastCheckFails(p) PROVE IInv'
    BY <1>24, AtWork, ConcludeStep DEF LastCheckFails, Conclude
  <1>25. ASSUME RestoreSource(p) PROVE IInv'
    <2>1. deleted' \in [Procs -> SUBSET Candidate]
      BY <1>25 DEF RestoreSource, IInv, TypeOK
    <2> QED BY <1>25, <2>1, AtWork, RestoreStep DEF RestoreSource, Restore
  <1>26. ASSUME RestoreSourceFails(p) PROVE IInv'
    BY <1>26, AtWork, GoStep DEF RestoreSourceFails, Go, GitFails
  <1>27. ASSUME WriteResult(p) PROVE IInv'
    <2>1. pc[p] = "result" /\ WriteEvent(p, "result", Result(ResultStatus(p)), "resultSync")
      BY <1>27 DEF WriteResult, WriteEvent
    <2>2. Result(ResultStatus(p)) \in Event
      BY <2>1, AtWork, EventTypes DEF ResultStatus
    <2>3. MayEnter(p, "resultSync")
      BY <2>1, AtWork
    <2> QED BY <2>1, <2>2, <2>3, WriteStep
  <1>28. ASSUME SyncResult(p) PROVE IInv'
    BY <1>28, AtWork, SyncStep DEF SyncResult, SyncEvent
  <1>29. ASSUME ReleaseAndContinue(p) PROVE IInv'
    <2>1. pc[p] = "release" /\ pc' = [pc EXCEPT ![p] = "select"] /\ idx[p] \in Candidate
      BY <1>29, AtWork DEF ReleaseAndContinue, Proceed
    <2>2. idx' \in [Procs -> 1..(N + 1)] /\ \A q \in Procs \ {p} : idx'[q] = idx[q]
      BY <1>29, <2>1, ConstantsAssumption DEF ReleaseAndContinue, NextCandidate, Candidate, IInv, TypeOK
    <2>3. /\ lease' \in [Candidate -> Procs \union Creators \union {Nobody}]
          /\ \A q \in Procs \ {p}, b \in Candidate : lease[b] = q => lease'[b] = q
      BY <1>29, <2>1, DropTypes DEF ReleaseAndContinue
    <2>4. pc' \in [Procs -> Labels] /\ committed' \in [Procs -> BOOLEAN]
      BY <1>29, <2>1 DEF ReleaseAndContinue, IInv, TypeOK, Labels
    <2>5. TypeOK'
      BY <1>29, <2>2, <2>3, <2>4 DEF ReleaseAndContinue, Proceed, IInv, TypeOK, world, git, log, given
    <2>6. Reports(p, "select") /\ UNCHANGED <<held, plan, snapshot>>
      BY <1>29 DEF ReleaseAndContinue, Proceed, Reports, world, given
    <2> QED BY <2>1, <2>2, <2>3, <2>5, <2>6, CommandStep
  <1>30. ASSUME ReleaseAndStop(p) PROVE IInv'
    <2>1. pc[p] = "release" /\ pc' = [pc EXCEPT ![p] = "done"] /\ idx[p] \in Candidate
      BY <1>30, AtWork DEF ReleaseAndStop, Proceed, Settle
    <2>2. /\ lease' \in [Candidate -> Procs \union Creators \union {Nobody}]
          /\ \A q \in Procs \ {p}, b \in Candidate : lease[b] = q => lease'[b] = q
      BY <1>30, <2>1, DropTypes DEF ReleaseAndStop
    <2>3. Reports(p, "done")
      BY <1>30, <2>1, AtWork DEF ReleaseAndStop, Proceed, Settle, Reports
    <2>4. pc' \in [Procs -> Labels] /\ stopped' \in [Procs -> AnyStatus]
      BY <1>30, <2>1, <2>3 DEF ReleaseAndStop, Reports, IInv, TypeOK
    <2>5. todo' \in [Procs -> SUBSET (Candidate \X (Caps \union {NoCap}))]
      BY <1>30 DEF ReleaseAndStop, IInv, TypeOK
    <2>6. TypeOK'
      BY <1>30, <2>2, <2>4, <2>5 DEF ReleaseAndStop, IInv, TypeOK, world, git, log, given
    <2>7. UNCHANGED <<held, plan, snapshot, idx>>
      BY <1>30 DEF ReleaseAndStop, world, given
    <2> QED BY <2>1, <2>2, <2>3, <2>6, <2>7, CommandStep
  <1>31. ASSUME ReleaseFails(p) PROVE IInv'
    <2>1. pc[p] = "release" /\ pc' = [pc EXCEPT ![p] = "relProbe"] /\ idx[p] \in Candidate
      BY <1>31, AtWork DEF ReleaseFails, Proceed, Settle
    <2>2. /\ lease' \in [Candidate -> Procs \union Creators \union {Nobody}]
          /\ \A q \in Procs \ {p}, b \in Candidate : lease[b] = q => lease'[b] = q
      BY <1>31, <2>1, DropTypes DEF ReleaseFails
    <2>3. Reports(p, "relProbe")
      BY <1>31, <2>1, AtWork DEF ReleaseFails, Proceed, Settle, Reports
    <2>4. pc' \in [Procs -> Labels] /\ stopped' \in [Procs -> AnyStatus]
      BY <1>31, <2>1, <2>3 DEF ReleaseFails, Reports, IInv, TypeOK
    <2>5. todo' \in [Procs -> SUBSET (Candidate \X (Caps \union {NoCap}))]
      BY <1>31 DEF ReleaseFails, IInv, TypeOK
    <2>6. TypeOK'
      BY <1>31, <2>2, <2>4, <2>5 DEF ReleaseFails, IInv, TypeOK, world, git, log, given
    <2>7. UNCHANGED <<held, plan, snapshot, idx>>
      BY <1>31 DEF ReleaseFails, world, given
    <2> QED BY <2>1, <2>2, <2>3, <2>6, <2>7, CommandStep
  <1>32. ASSUME RelPresent(p) PROVE IInv'
    BY <1>32, AtWork, GoStep DEF RelPresent, Go
  <1>33. ASSUME RelNotPresent(p) PROVE IInv'
    BY <1>33, AtWork, GoStep DEF RelNotPresent, Go
  <1>34. ASSUME RelRestore(p) PROVE IInv'
    <2>1. deleted' \in [Procs -> SUBSET Candidate]
      BY <1>34 DEF RelRestore, ReportAfterRestore, IInv, TypeOK
    <2> QED BY <1>34, <2>1, AtWork, RestoreStep DEF RelRestore, Restore
  <1>35. ASSUME RelRestoreFails(p) PROVE IInv'
    BY <1>35, AtWork, GoStep DEF RelRestoreFails, Go, GitFails
  <1>36. ASSUME RelWriteResult(p) PROVE IInv'
    <2>1. pc[p] = "relResult" /\ WriteEvent(p, "relResult", Result("lease_release_failed"), "relSync")
      BY <1>36 DEF RelWriteResult, WriteEvent
    <2>2. Result("lease_release_failed") \in Event
      BY <2>1, AtWork, EventTypes
    <2>3. MayEnter(p, "relSync")
      BY <2>1, AtWork
    <2> QED BY <2>1, <2>2, <2>3, WriteStep
  <1>37. ASSUME RelSyncResult(p) PROVE IInv'
    BY <1>37, AtWork, SyncStep DEF RelSyncResult, SyncEvent
  <1>38. ASSUME RelReturn(p) PROVE IInv'
    BY <1>38, AtWork, ConcludeStep DEF RelReturn, Conclude
  <1>39. ASSUME UnwindRelease(p) PROVE IInv'
    <2>1. pc[p] = "unwind" /\ pc' = [pc EXCEPT ![p] = "done"] /\ idx[p] \in Candidate
      BY <1>39, AtWork DEF UnwindRelease, Proceed, Settle
    <2>2. /\ lease' \in [Candidate -> Procs \union Creators \union {Nobody}]
          /\ \A q \in Procs \ {p}, b \in Candidate : lease[b] = q => lease'[b] = q
      BY <1>39, <2>1, DropTypes DEF UnwindRelease
    <2>3. Reports(p, "done")
      BY <1>39, <2>1, AtWork DEF UnwindRelease, Proceed, Settle, Reports
    <2>4. pc' \in [Procs -> Labels] /\ stopped' \in [Procs -> AnyStatus]
      BY <1>39, <2>1, <2>3 DEF UnwindRelease, Reports, IInv, TypeOK
    <2>5. todo' \in [Procs -> SUBSET (Candidate \X (Caps \union {NoCap}))]
      BY <1>39 DEF UnwindRelease, IInv, TypeOK
    <2>6. TypeOK'
      BY <1>39, <2>2, <2>4, <2>5 DEF UnwindRelease, IInv, TypeOK, world, git, log, given
    <2>7. UNCHANGED <<held, plan, snapshot, idx>>
      BY <1>39 DEF UnwindRelease, world, given
    <2> QED BY <2>1, <2>2, <2>3, <2>6, <2>7, CommandStep
  <1> QED
    BY <1>1, <1>2, <1>3, <1>4, <1>5, <1>6, <1>7, <1>8, <1>9, <1>10, <1>11, <1>12,
         <1>13, <1>14, <1>15, <1>16, <1>17, <1>18, <1>19, <1>20, <1>21, <1>22, <1>23,
         <1>24, <1>25, <1>26, <1>27, <1>28, <1>29, <1>30, <1>31, <1>32, <1>33, <1>34,
         <1>35, <1>36, <1>37, <1>38, <1>39
    DEF ExecuteStep

LEMMA ReconcilePreserves ==
  ASSUME IInv, NEW p \in Procs, ReconcileStep(p)
  PROVE  IInv'
  <1> USE DEF At, MayEnter, Labels, WorkLabels, LeaseLabels, AfterLook, ProvenLabels,
             AnyStatus, Status, PreconditionStatus, AbsenceStatus, PresenceStatus, ReturnedStatus
  <1>1. ASSUME RGate(p) PROVE IInv'
    BY <1>1, AtWork, GuardStep DEF RGate, Guard, Go, Conclude, Candidate
  <1>2. ASSUME RReadPending(p) PROVE IInv'
    <2>1. pc[p] = "rPending" /\ pc' = [pc EXCEPT ![p] = "rNext"] /\ MayEnter(p, "rNext")
      BY <1>2, AtWork DEF RReadPending, Proceed
    <2>2. {<<a[2], journal[a].cap>> : a \in Pending({plan[p]})}
            \subseteq Candidate \X (Caps \union {NoCap})
      BY DEF Pending, Action, Event, IInv, TypeOK
    <2>3. todo' \in [Procs -> SUBSET (Candidate \X (Caps \union {NoCap}))]
      BY <1>2, <2>2 DEF RReadPending, IInv, TypeOK
    <2>4. pc' \in [Procs -> Labels]
      BY <2>1 DEF IInv, TypeOK, MayEnter
    <2>5. TypeOK'
      BY <1>2, <2>3, <2>4 DEF RReadPending, Proceed, IInv, TypeOK, shared, world, git, log, given
    <2>6. Reports(p, "rNext") /\ UNCHANGED <<held, lease, plan, snapshot, idx>>
      BY <1>2 DEF RReadPending, Proceed, Reports, shared, world, given
    <2> QED BY <2>1, <2>5, <2>6, LocalStep
  <1>3. ASSUME RUnreadable(p) PROVE IInv'
    BY <1>3, AtWork, ConcludeStep DEF RUnreadable, Conclude
  <1>4. ASSUME RFinish(p) PROVE IInv'
    BY <1>4, AtWork, GoStep DEF RFinish, Go
  <1>5. ASSUME RNextIntent(p) PROVE IInv'
    <2>1. PICK intent \in todo[p], next \in {"rAcquire", "done"} :
            /\ idx' = [idx EXCEPT ![p] = intent[1]]
            /\ pc' = [pc EXCEPT ![p] = next]
            /\ Reports(p, next)
      BY <1>5 DEF RNextIntent, Proceed, Settle, Reports
    <2>2. intent[1] \in Candidate
      BY DEF IInv, TypeOK
    <2>3. /\ idx' \in [Procs -> 1..(N + 1)] /\ idx'[p] \in Candidate
          /\ \A q \in Procs \ {p} : idx'[q] = idx[q]
      BY <2>1, <2>2, ConstantsAssumption DEF IInv, TypeOK, Candidate
    <2>4. pc[p] = "rNext" /\ pc' \in [Procs -> Labels] /\ stopped' \in [Procs -> AnyStatus]
      BY <1>5, <2>1 DEF RNextIntent, Reports, IInv, TypeOK
    <2>5. TypeOK'
      BY <1>5, <2>3, <2>4 DEF RNextIntent, IInv, TypeOK, shared, world, git, log, given
    <2>6. UNCHANGED <<held, plan, snapshot, lease>>
      BY <1>5 DEF RNextIntent, shared, world, given
    <2> QED BY <2>1, <2>3, <2>4, <2>5, <2>6, CommandStep
  <1>6. ASSUME RAcquire(p) PROVE IInv'
    BY <1>6, AcquireStep DEF RAcquire, Acquire
  <1>7. ASSUME RBusy(p) PROVE IInv'
    BY <1>7, AtWork, ConcludeStep DEF RBusy, Conclude, Busy
  <1>8. ASSUME RRead(p) PROVE IInv'
    BY <1>8, AtWork, GuardStep DEF RRead, Guard, Go, Conclude, Candidate
  <1>9. ASSUME RFetch(p) PROVE IInv'
    BY <1>9, AtWork, GoStep DEF RFetch, Go
  <1>10. ASSUME RNoFetch(p) PROVE IInv'
    BY <1>10, AtWork, GoStep DEF RNoFetch, Go
  <1>11. ASSUME RFetchFails(p) PROVE IInv'
    BY <1>11, AtWork, GoStep DEF RFetchFails, Go, GitFails
  <1>12. ASSUME RCreate(p) PROVE IInv'
    <2>1. deleted' \in [Procs -> SUBSET Candidate]
      BY <1>12 DEF RCreate, IInv, TypeOK
    <2> QED BY <1>12, <2>1, AtWork, RestoreStep DEF RCreate, Restore
  <1>13. ASSUME RCreateFails(p) PROVE IInv'
    BY <1>13, AtWork, GoStep DEF RCreateFails, Go, GitFails
  <1>14. ASSUME RAfter(p) PROVE IInv'
    <2>1. pc[p] = "rAfter" /\ Conclude(p, "rAfter", RestoreStatus(p), "rWrite") /\ MayEnter(p, "rWrite")
      BY <1>14, AtWork DEF RAfter, Conclude
    <2>2. refs[idx[p]] \in {Planned, Moved, Absent}
      BY <2>1, AtWork DEF IInv, TypeOK, RefValue, Tip
    <2>3. RestoreStatus(p) \in Status
      BY <2>2 DEF RestoreStatus, Planned, Moved, Absent
    <2> QED BY <2>1, <2>3, ConcludeStep
  <1>15. ASSUME RWrite(p) PROVE IInv'
    <2>1. pc[p] = "rWrite" /\ WriteEvent(p, "rWrite", Reconciled(stopped[p]), "rSync")
      BY <1>15 DEF RWrite, WriteEvent
    <2>2. Reconciled(stopped[p]) \in Event
      BY <2>1, AtWork, EventTypes
    <2>3. MayEnter(p, "rSync")
      BY <2>1, AtWork
    <2> QED BY <2>1, <2>2, <2>3, WriteStep
  <1>16. ASSUME RSync(p) PROVE IInv'
    BY <1>16, AtWork, SyncStep DEF RSync, SyncEvent
  <1>17. ASSUME RRelease(p) PROVE IInv'
    <2>1. pc[p] = "rRelease" /\ pc' = [pc EXCEPT ![p] = "rNext"] /\ idx[p] \in Candidate
      BY <1>17, AtWork DEF RRelease, Proceed, Settle
    <2>2. /\ lease' \in [Candidate -> Procs \union Creators \union {Nobody}]
          /\ \A q \in Procs \ {p}, b \in Candidate : lease[b] = q => lease'[b] = q
      BY <1>17, <2>1, DropTypes DEF RRelease
    <2>3. Reports(p, "rNext")
      BY <1>17, <2>1, AtWork DEF RRelease, Proceed, Settle, Reports
    <2>4. pc' \in [Procs -> Labels] /\ stopped' \in [Procs -> AnyStatus]
      BY <1>17, <2>1, <2>3 DEF RRelease, Reports, IInv, TypeOK
    <2>5. todo' \in [Procs -> SUBSET (Candidate \X (Caps \union {NoCap}))]
      BY <1>17 DEF RRelease, Remaining, IInv, TypeOK
    <2>6. TypeOK'
      BY <1>17, <2>2, <2>4, <2>5 DEF RRelease, IInv, TypeOK, world, git, log, given
    <2>7. UNCHANGED <<held, plan, snapshot, idx>>
      BY <1>17 DEF RRelease, world, given
    <2> QED BY <2>1, <2>2, <2>3, <2>6, <2>7, CommandStep
  <1>18. ASSUME RReleaseFails(p) PROVE IInv'
    <2>1. pc[p] = "rRelease" /\ pc' = [pc EXCEPT ![p] = "done"] /\ idx[p] \in Candidate
      BY <1>18, AtWork DEF RReleaseFails, Proceed, Settle
    <2>2. /\ lease' \in [Candidate -> Procs \union Creators \union {Nobody}]
          /\ \A q \in Procs \ {p}, b \in Candidate : lease[b] = q => lease'[b] = q
      BY <1>18, <2>1, DropTypes DEF RReleaseFails
    <2>3. Reports(p, "done")
      BY <1>18, <2>1, AtWork DEF RReleaseFails, Proceed, Settle, Reports
    <2>4. pc' \in [Procs -> Labels] /\ stopped' \in [Procs -> AnyStatus]
      BY <1>18, <2>1, <2>3 DEF RReleaseFails, Reports, IInv, TypeOK
    <2>5. todo' \in [Procs -> SUBSET (Candidate \X (Caps \union {NoCap}))]
      BY <1>18 DEF RReleaseFails, IInv, TypeOK
    <2>6. TypeOK'
      BY <1>18, <2>2, <2>4, <2>5 DEF RReleaseFails, IInv, TypeOK, world, git, log, given
    <2>7. UNCHANGED <<held, plan, snapshot, idx>>
      BY <1>18 DEF RReleaseFails, world, given
    <2> QED BY <2>1, <2>2, <2>3, <2>6, <2>7, CommandStep
  <1> QED
    BY <1>1, <1>2, <1>3, <1>4, <1>5, <1>6, <1>7, <1>8, <1>9, <1>10, <1>11, <1>12,
         <1>13, <1>14, <1>15, <1>16, <1>17, <1>18
    DEF ReconcileStep

----------------------------------------------------------------------------
(* Faults, starts and ends of commands.                                    *)

LEMMA FaultPreserves ==
  ASSUME IInv, NEW p \in Procs, ExecuteFault(p) \/ RRaise(p)
  PROVE  IInv'
  <1> USE DEF At, MayEnter, Labels, WorkLabels, LeaseLabels, AfterLook, ProvenLabels,
             AnyStatus, Status, PreconditionStatus, AbsenceStatus, PresenceStatus, ReturnedStatus
  <1>1. ASSUME DeleteInterrupted(p) PROVE IInv'
    <2>1. pc[p] = "delete" /\ pc' = [pc EXCEPT ![p] = "release"] /\ MayEnter(p, "release")
      BY <1>1, AtWork DEF DeleteInterrupted, Proceed
    <2>2. refs' \in [Candidate -> RefValue] /\ cutBy' \in [Candidate -> Action \union {Nothing}]
      BY <1>1, <2>1, CutTypes DEF DeleteInterrupted
    <2>3. pc' \in [Procs -> Labels] /\ raised' \in [Procs -> BOOLEAN]
      BY <1>1, <2>1 DEF DeleteInterrupted, IInv, TypeOK
    <2>4. TypeOK'
      BY <1>1, <2>2, <2>3 DEF DeleteInterrupted, Proceed, IInv, TypeOK, world, log, given
    <2>5. Reports(p, "release") /\ UNCHANGED <<held, lease, plan, snapshot, idx>>
      BY <1>1 DEF DeleteInterrupted, Proceed, Reports, world, given
    <2> QED BY <2>1, <2>4, <2>5, LocalStep
  <1>2. ASSUME RaiseInBody(p) PROVE IInv'
    <2>1. pc' = [pc EXCEPT ![p] = "release"] /\ MayEnter(p, "release")
      BY <1>2, AtWork DEF RaiseInBody, Proceed, BodyLabels
    <2>2. pc' \in [Procs -> Labels] /\ raised' \in [Procs -> BOOLEAN]
      BY <1>2, <2>1 DEF RaiseInBody, IInv, TypeOK
    <2>3. TypeOK'
      BY <1>2, <2>2 DEF RaiseInBody, Proceed, IInv, TypeOK, shared, world, git, log, given
    <2>4. Reports(p, "release") /\ UNCHANGED <<held, lease, plan, snapshot, idx>>
      BY <1>2 DEF RaiseInBody, Proceed, Reports, shared, world, given
    <2> QED BY <2>1, <2>3, <2>4, LocalStep
  <1>3. ASSUME RaiseInResult(p) PROVE IInv'
    <2>1. Go(p, pc[p], "unwind") /\ MayEnter(p, "unwind")
      BY <1>3, AtWork DEF RaiseInResult, Go
    <2> QED BY <2>1, GoStep
  <1>4. ASSUME TornAppend(p) PROVE IInv'
    <2>1. PICK next \in {"release", "unwind", "done"} :
            pc' = [pc EXCEPT ![p] = next] /\ MayEnter(p, next) /\ Reports(p, next)
      <3>1. CASE At(p, "intent") /\ Proceed(p, "release")
        BY <3>1, AtWork DEF Proceed, Reports
      <3>2. CASE At(p, "result") /\ Proceed(p, "unwind")
        BY <3>2, AtWork DEF Proceed, Reports
      <3>3. CASE At(p, "relResult") /\ Settle(p, "raised", "done")
        BY <3>3, AtWork DEF Settle, Reports
      <3> QED BY <1>4, <3>1, <3>2, <3>3 DEF TornAppend
    <2>2. pc' \in [Procs -> Labels] /\ stopped' \in [Procs -> AnyStatus]
      BY <2>1 DEF Reports, IInv, TypeOK
    <2>3. raised' \in [Procs -> BOOLEAN] /\ torn' \in BOOLEAN
      BY <1>4 DEF TornAppend, IInv, TypeOK
    <2>4. TypeOK'
      BY <1>4, <2>2, <2>3 DEF TornAppend, IInv, TypeOK, world, git, given
    <2>5. UNCHANGED <<held, lease, plan, snapshot, idx>>
      BY <1>4 DEF TornAppend, world, given
    <2> QED BY <2>1, <2>4, <2>5, LocalStep
  <1>5. ASSUME RRaise(p) PROVE IInv'
    <2>1. /\ pc[p] \in LeaseLabels /\ pc[p] \notin {"idle", "done"}
          /\ pc' = [pc EXCEPT ![p] = "done"] /\ Reports(p, "done")
      BY <1>5 DEF RRaise, ReconcileLabels, Settle, Reports
    <2>2. /\ lease' \in [Candidate -> Procs \union Creators \union {Nobody}]
          /\ \A q \in Procs \ {p}, b \in Candidate : lease[b] = q => lease'[b] = q
      BY <1>5, <2>1, DropTypes DEF RRaise
    <2>3. pc' \in [Procs -> Labels] /\ stopped' \in [Procs -> AnyStatus] /\ torn' \in BOOLEAN
      <3>1. pc \in [Procs -> Labels] /\ stopped \in [Procs -> AnyStatus] /\ torn \in BOOLEAN
        BY DEF IInv, TypeOK
      <3>2. pc' \in [Procs -> Labels]
        BY <2>1, <3>1
      <3>3. stopped' = [stopped EXCEPT ![p] = "raised"] /\ torn' \in BOOLEAN
        BY <1>5, <3>1 DEF RRaise, Settle
      <3> QED BY <3>1, <3>2, <3>3
    <2>4. TypeOK'
      BY <1>5, <2>2, <2>3 DEF RRaise, IInv, TypeOK, world, git, given
    <2>5. UNCHANGED <<held, plan, snapshot, idx>>
      BY <1>5 DEF RRaise, world, given
    <2> QED BY <2>1, <2>2, <2>4, <2>5, CommandStep
  <1> QED BY <1>1, <1>2, <1>3, <1>4, <1>5 DEF ExecuteFault

LEMMA BeginPreserves ==
  ASSUME IInv, NEW p \in Procs, NEW pl \in Plans, NEW entry \in {"gate", "rGate"},
         Begin(p, pl, entry)
  PROVE  IInv'
  <1>1. pc' \in [Procs -> Labels] /\ plan' \in [Procs -> Plans \union {Nothing}]
        /\ snapshot' \in [Procs -> Caps \union {NoCap}]
    BY DEF Begin, Proceed, IInv, TypeOK, Labels
  <1>2. TypeOK'
    BY <1>1 DEF Begin, Proceed, IInv, TypeOK, shared, world, git, log
  <1>3. WorkOK'
    BY DEF Begin, Proceed, IInv, TypeOK, WorkOK, WorkLabels
  <1>4. StatusOK'
    BY DEF Begin, At, Proceed, IInv, TypeOK, StatusOK
  <1>5. LeaseOwned'
    BY DEF Begin, Proceed, IInv, TypeOK, LeaseOwned, LeaseLabels, shared
  <1>6. ReproofStands'
    BY DEF Begin, Proceed, IInv, TypeOK, ReproofStands, AfterLook, ProvenLabels, shared, world
  <1> QED BY <1>2, <1>3, <1>4, <1>5, <1>6 DEF IInv

LEMMA VanishPreserves ==
  ASSUME IInv, NEW P, Vanish(P), UNCHANGED <<world, git>>,
         journal' \in [Action -> Event], disk' \in [Action -> Event], torn' \in BOOLEAN
  PROVE  IInv'
  <1>1. /\ lease' \in [Candidate -> Procs \union Creators \union {Nobody}]
        /\ pc' \in [Procs -> Labels]
        /\ plan' \in [Procs -> Plans \union {Nothing}]
        /\ snapshot' \in [Procs -> Caps \union {NoCap}]
        /\ idx' \in [Procs -> 1..(N + 1)]
    BY ConstantsAssumption DEF Vanish, IInv, TypeOK, Labels
  <1>2. /\ committed' \in [Procs -> BOOLEAN] /\ raised' \in [Procs -> BOOLEAN]
        /\ stopped' \in [Procs -> AnyStatus]
        /\ deleted' \in [Procs -> SUBSET Candidate]
        /\ todo' \in [Procs -> SUBSET (Candidate \X (Caps \union {NoCap}))]
    BY DEF Vanish, IInv, TypeOK, AnyStatus, ReturnedStatus
  <1>3. TypeOK'
    BY <1>1, <1>2 DEF IInv, TypeOK, AnyStatus, world, git
  <1>4. \A p \in Procs :
          IF p \in P THEN pc'[p] = "idle" /\ stopped'[p] = "none"
          ELSE /\ pc'[p] = pc[p] /\ plan'[p] = plan[p] /\ snapshot'[p] = snapshot[p]
               /\ idx'[p] = idx[p] /\ stopped'[p] = stopped[p]
    BY DEF Vanish
  <1>5. WorkOK' /\ StatusOK'
    BY <1>4 DEF IInv, WorkOK, StatusOK, WorkLabels
  <1>6. LeaseOwned'
    <2> SUFFICES ASSUME NEW p \in Procs, pc'[p] \in LeaseLabels
                 PROVE  lease'[idx'[p]] = p
      BY DEF LeaseOwned
    <2>1. p \notin P /\ idx'[p] = idx[p] /\ pc[p] \in LeaseLabels
      BY <1>4 DEF LeaseLabels
    <2>2. lease[idx[p]] = p /\ idx[p] \in Candidate
      BY <2>1, AtWork DEF IInv, LeaseOwned, LeaseLabels, WorkLabels
    <2> QED BY <2>1, <2>2 DEF Vanish
  <1>7. ReproofStands'
    BY <1>4 DEF IInv, ReproofStands, AfterLook, ProvenLabels, world
  <1> QED BY <1>3, <1>5, <1>6, <1>7 DEF IInv

----------------------------------------------------------------------------
(* Everything that is not a step of a command.                             *)

\* A creator puts a worktree on the branch only while it has the lease, and only the
\* holder gives a lease up: what holds a branch after the reproof looked came later, from
\* somebody without the lease.
LEMMA WorldStep ==
  ASSUME IInv, TypeOK', UNCHANGED locals,
         \A p \in Procs, b \in Candidate : lease[b] = p => lease'[b] = p,
         \A b \in Candidate :
           held'[b] \subseteq held[b] \union {"late"} \/ lease[b] \in Creators \/ ~Late(b)
  PROVE  IInv'
  <1>1. WorkOK' /\ StatusOK'
    BY DEF IInv, WorkOK, StatusOK, locals, given
  <1>2. LeaseOwned'
    BY AtWork DEF IInv, LeaseOwned, locals, given, LeaseLabels, WorkLabels
  <1>3. ReproofStands'
    <2> SUFFICES ASSUME NEW p \in Procs
                 PROVE  /\ pc[p] \in AfterLook => "timely" \notin held'[idx[p]]
                        /\ pc[p] \in ProvenLabels => idx[p] \in ContentExact
      BY DEF ReproofStands, locals, given
    <2>1. pc[p] \in AfterLook =>
            idx[p] \in Candidate /\ lease[idx[p]] = p /\ "timely" \notin held[idx[p]]
      BY AtWork DEF IInv, LeaseOwned, AfterLook, LeaseLabels, WorkLabels
    <2>2. pc[p] \in AfterLook => Late(idx[p])
      BY <2>1 DEF Late
    <2> QED BY <2>1, <2>2, AtWork, ConstantsAssumption
  <1> QED BY <1>1, <1>2, <1>3 DEF IInv

LEMMA CreatorPreserves ==
  ASSUME IInv, NEW c \in Creators, NEW b \in Candidate, Creator(c, b)
  PROVE  IInv'
  <1>1. CASE CreatorBegin(c, b)
    <2>1. TypeOK'
      BY <1>1 DEF CreatorBegin, IInv, TypeOK, world, git, log, locals, given
    <2> QED BY <1>1, <2>1, ConstantsAssumption, WorldStep DEF CreatorBegin, IInv, TypeOK, world
  <1>2. CASE CreatorWrite(c, b)
    <2>1. refs' \in [Candidate -> RefValue] /\ cutBy' \in [Candidate -> Action \union {Nothing}]
      BY <1>2 DEF CreatorWrite, IInv, TypeOK, RefValue
    <2>2. TypeOK'
      BY <1>2, <2>1 DEF CreatorWrite, IInv, TypeOK, world, log, locals, given
    <2> QED BY <1>2, <2>2, WorldStep DEF CreatorWrite, world
  <1>3. CASE CreatorCheckout(c, b)
    <2>1. TypeOK'
      BY <1>3 DEF CreatorCheckout, HoldKind, IInv, TypeOK, git, log, locals, given
    <2> QED BY <1>3, <2>1, WorldStep DEF CreatorCheckout, IInv, TypeOK
  <1>4. CASE CreatorEnd(c, b)
    <2>1. TypeOK'
      BY <1>4 DEF CreatorEnd, IInv, TypeOK, world, git, log, locals, given
    <2> QED BY <1>4, <2>1, ConstantsAssumption, WorldStep DEF CreatorEnd, IInv, TypeOK, world
  <1> QED BY <1>1, <1>2, <1>3, <1>4 DEF Creator

LEMMA EnvironmentPreserves ==
  ASSUME IInv, Environment
  PROVE  IInv'
  <1>1. ASSUME NEW b \in Candidate, HoldEnds(b) PROVE IInv'
    <2>1. TypeOK'
      BY <1>1 DEF HoldEnds, IInv, TypeOK, git, log, locals, given
    <2> QED BY <1>1, <2>1, WorldStep DEF HoldEnds, IInv, TypeOK
  <1>2. ASSUME NEW b \in Candidate, OutsideWrite(b) PROVE IInv'
    <2>1. refs' \in [Candidate -> RefValue] /\ cutBy' \in [Candidate -> Action \union {Nothing}]
      BY <1>2, ConstantsAssumption DEF OutsideWrite, IInv, TypeOK
    <2>2. TypeOK'
      BY <1>2, <2>1 DEF OutsideWrite, IInv, TypeOK, world, log, locals, given
    <2> QED BY <1>2, <2>2, WorldStep DEF OutsideWrite, world
  <1>6. ASSUME NEW b \in Candidate, OutsideHold(b) PROVE IInv'
    <2>1. held' = [held EXCEPT ![b] = @ \union {IF Late(b) THEN "late" ELSE "timely"}]
      BY <1>6 DEF OutsideHold
    <2>2. TypeOK'
      BY <1>6, <2>1 DEF OutsideHold, HoldKind, IInv, TypeOK, git, log, locals, given
    <2>3. \A c \in Candidate : held'[c] \subseteq held[c] \union {"late"} \/ ~Late(c)
      BY <2>1 DEF IInv, TypeOK
    <2>4. UNCHANGED <<locals, lease>>
      BY <1>6 DEF OutsideHold
    <2> QED BY <2>2, <2>3, <2>4, WorldStep
  <1>3. ASSUME DestinationMoves PROVE IInv'
    <2>1. TypeOK'
      BY <1>3 DEF DestinationMoves, IInv, TypeOK, git, log, locals, given
    <2> QED BY <1>3, <2>1, WorldStep DEF DestinationMoves
  <1>4. ASSUME CapabilityChanges PROVE IInv'
    <2>1. TypeOK'
      BY <1>4 DEF CapabilityChanges, IInv, TypeOK, git, log, locals, given
    <2> QED BY <1>4, <2>1, WorldStep DEF CapabilityChanges
  <1>5. ASSUME PowerLoss PROVE IInv'
    <2>1. journal' \in [Action -> Event] /\ disk' \in [Action -> Event] /\ torn' \in BOOLEAN
      BY <1>5 DEF PowerLoss, IInv, TypeOK
    <2> QED BY <1>5, <2>1, VanishPreserves DEF PowerLoss
  <1> QED BY <1>1, <1>2, <1>3, <1>4, <1>5, <1>6 DEF Environment

LEMMA InitInvariant == Init => IInv
  <1> SUFFICES ASSUME Init PROVE IInv
    OBVIOUS
  <1>1. TypeOK
    <2>1. 1 \in 1..(N + 1)
      BY ConstantsAssumption
    <2>2. Planned \in RefValue /\ Planned \in Tip /\ "idle" \in Labels /\ "none" \in ReturnedStatus
      BY DEF RefValue, Tip, Labels, ReturnedStatus
    <2>3. /\ refs \in [Candidate -> RefValue] /\ held \in [Candidate -> SUBSET HoldKind]
          /\ lease \in [Candidate -> Procs \union Creators \union {Nobody}]
          /\ cutBy \in [Candidate -> Action \union {Nothing}]
      BY <2>2 DEF Init
    <2>4. journal \in [Action -> Event] /\ disk \in [Action -> Event]
      BY EventTypes DEF Init
    <2> QED BY <2>1, <2>2, <2>3, <2>4 DEF Init, TypeOK
  <1>2. WorkOK /\ StatusOK /\ LeaseOwned /\ ReproofStands
    BY DEF Init, WorkOK, StatusOK, LeaseOwned, ReproofStands,
           WorkLabels, LeaseLabels, AfterLook, ProvenLabels
  <1> QED BY <1>1, <1>2 DEF IInv

LEMMA NextInvariant == IInv /\ [Next]_vars => IInv'
  <1> SUFFICES ASSUME IInv, [Next]_vars PROVE IInv'
    OBVIOUS
  <1>1. ASSUME NEW p \in Procs, Launch(p) PROVE IInv'
    BY <1>1, BeginPreserves DEF Launch, StartExecute, StartReconcile
  <1>2. ASSUME NEW p \in Procs, Command(p) PROVE IInv'
    <2>1. CASE Exit(p)
      BY <2>1, VanishPreserves DEF Exit, IInv, TypeOK, log
    <2> QED BY <1>2, <2>1, ExecutePreserves, ReconcilePreserves DEF Command
  <1>3. ASSUME NEW p \in Procs, Fault(p) PROVE IInv'
    <2>1. CASE Crash(p)
      BY <2>1, VanishPreserves DEF Crash, IInv, TypeOK, log
    <2> QED BY <1>3, <2>1, FaultPreserves DEF Fault
  <1>4. CASE UNCHANGED vars
    <2>1. TypeOK'
      BY <1>4 DEF IInv, TypeOK, vars, shared, world, git, log, locals, given
    <2> QED BY <1>4, <2>1, WorldStep DEF vars, shared, world
  <1> QED
    BY <1>1, <1>2, <1>3, <1>4, CreatorPreserves, EnvironmentPreserves DEF Next

LEMMA Invariance == Spec => []IInv
  BY InitInvariant, NextInvariant, PTL DEF Spec

\* Every variable keeps its type, whatever the commands, the creators and the faults do.
THEOREM TypeCorrect == Spec => []TypeOK
  <1>1. IInv => TypeOK
    BY DEF IInv
  <1> QED BY <1>1, Invariance, PTL

----------------------------------------------------------------------------
(* Who writes a ref.                                                       *)

\* A step of one command moves no other command.
LEMMA OthersStay ==
  ASSUME IInv, NEW p \in Procs, NEW q \in Procs \ {p}, Launch(q) \/ Command(q) \/ Fault(q)
  PROVE  /\ pc'[p] = pc[p] /\ plan'[p] = plan[p] /\ snapshot'[p] = snapshot[p] /\ idx'[p] = idx[p]
         /\ deleted'[p] = deleted[p]
  <1> USE DEF IInv, TypeOK, Go, Conclude, Proceed, Settle, Quiet, given
  <1>1. CASE Launch(q)
    BY <1>1 DEF Launch, StartExecute, StartReconcile, Begin
  <1>2. CASE ExecuteStep(q)
    BY <1>2 DEF ExecuteStep, Guard, GitFails, Busy, WriteEvent, SyncEvent, Restore, Acquire,
      GateCapability, GateJournal, GateUnreadable, SelectCandidate, LoopEnds,
      AcquireLease, LeaseBusy, RecheckCapability, ReproveRefs, ReproveHolds,
      ActivityIsOld, ActivityIsRecent, ReproveContent, WriteIntent, SyncIntent, CheckArmed,
      DeleteSource, DeleteRefused, ReadBack, ReadBackFails, ProbePresent, ProbeNotPresent,
      LastCheckPasses, LastCheckFails, RestoreSource, RestoreSourceFails, WriteResult,
      SyncResult, ReleaseAndContinue, ReleaseAndStop, ReleaseFails, RelPresent,
      RelNotPresent, RelRestore, RelRestoreFails, RelWriteResult, RelSyncResult, RelReturn,
      UnwindRelease, NextCandidate, ReportAfterRestore
  <1>3. CASE ReconcileStep(q)
    BY <1>3 DEF ReconcileStep, Guard, GitFails, Busy, WriteEvent, SyncEvent, Restore, Acquire,
      RGate, RReadPending, RUnreadable, RFinish, RNextIntent, RAcquire, RBusy, RRead, RFetch,
      RNoFetch, RFetchFails, RCreate, RCreateFails, RAfter, RWrite, RSync, RRelease,
      RReleaseFails
  <1>4. CASE ExecuteFault(q) \/ RRaise(q)
    BY <1>4 DEF ExecuteFault, DeleteInterrupted, RaiseInBody, RaiseInResult, TornAppend, RRaise
  <1>5. CASE Exit(q) \/ Crash(q)
    BY <1>5 DEF Exit, Crash, Vanish
  <1> QED BY <1>1, <1>2, <1>3, <1>4, <1>5 DEF Command, Fault

\* A step that moves command p and changes a ref is a deletion or a restore of p's.
Writes(p) ==
  \/ pc[p] = "delete" /\ CutRef(p)
  \/ /\ pc[p] \in {"restore", "relRestore", "rCreate"}
     /\ RestoreApplies(idx[p])
     /\ refs' = [refs EXCEPT ![idx[p]] = Planned]

LEMMA OwnWrite ==
  ASSUME IInv, Next, NEW p \in Procs, pc'[p] # pc[p], refs' # refs
  PROVE  Launch(p) \/ Command(p) \/ Fault(p)
  <1>1. ASSUME NEW c \in Creators, NEW b \in Candidate, Creator(c, b) PROVE FALSE
    BY <1>1 DEF Creator, CreatorBegin, CreatorWrite, CreatorCheckout, CreatorEnd, locals
  <1>2. ASSUME Environment PROVE FALSE
    BY <1>2 DEF Environment, HoldEnds, OutsideWrite, OutsideHold, DestinationMoves, CapabilityChanges,
                PowerLoss, locals, git
  <1> QED BY <1>1, <1>2, OthersStay DEF Next

LEMMA OnlyWrites ==
  ASSUME IInv, Next, NEW p \in Procs, pc'[p] # pc[p], refs' # refs
  PROVE  Writes(p)
  <1>1. Launch(p) \/ Command(p) \/ Fault(p)
    BY OwnWrite
  <1> USE DEF Quiet, shared, git
  <1>2. ~Launch(p)
    BY DEF Launch, StartExecute, StartReconcile, Begin
  <1>3. CASE ExecuteStep(p)
    BY <1>3 DEF ExecuteStep, Writes, Guard, Go, Conclude, GitFails, Busy, WriteEvent, SyncEvent,
      Restore, Acquire, At,
      GateCapability, GateJournal, GateUnreadable, SelectCandidate, LoopEnds,
      AcquireLease, LeaseBusy, RecheckCapability, ReproveRefs, ReproveHolds,
      ActivityIsOld, ActivityIsRecent, ReproveContent, WriteIntent, SyncIntent, CheckArmed,
      DeleteSource, DeleteRefused, ReadBack, ReadBackFails, ProbePresent, ProbeNotPresent,
      LastCheckPasses, LastCheckFails, RestoreSource, RestoreSourceFails, WriteResult,
      SyncResult, ReleaseAndContinue, ReleaseAndStop, ReleaseFails, RelPresent,
      RelNotPresent, RelRestore, RelRestoreFails, RelWriteResult, RelSyncResult, RelReturn,
      UnwindRelease
  <1>4. CASE ReconcileStep(p)
    BY <1>4 DEF ReconcileStep, Writes, Guard, Go, Conclude, GitFails, Busy, WriteEvent, SyncEvent,
      Restore, Acquire, At,
      RGate, RReadPending, RUnreadable, RFinish, RNextIntent, RAcquire, RBusy, RRead, RFetch,
      RNoFetch, RFetchFails, RCreate, RCreateFails, RAfter, RWrite, RSync, RRelease,
      RReleaseFails
  <1>5. CASE ExecuteFault(p) \/ RRaise(p)
    BY <1>5 DEF ExecuteFault, Writes, At, DeleteInterrupted, RaiseInBody, RaiseInResult,
      TornAppend, RRaise
  <1>6. CASE Exit(p) \/ Crash(p)
    BY <1>6 DEF Exit, Crash
  <1> QED BY <1>1, <1>2, <1>3, <1>4, <1>5, <1>6 DEF Command, Fault

----------------------------------------------------------------------------
(* The safety theorems.                                                    *)

\* Whatever moves between the reproof and the transaction, a branch is deleted only under
\* its own lease, at its planned tip, with the destination where it was proved; a worktree
\* or stash on it began after the reproof looked for one, without the lease.
THEOREM GuardedDeletion == Spec => DeletionIsGuarded
  <1> DEFINE Guarded == \A p \in Procs, b \in Candidate : Deletes(p, b) =>
                          /\ lease[b] = p
                          /\ refs[b] = Planned /\ main = Planned
                          /\ "timely" \notin held[b] /\ b \in ContentExact
  <1>1. IInv /\ [Next]_vars => [Guarded]_vars
    <2> SUFFICES ASSUME IInv, Next, NEW p \in Procs, NEW b \in Candidate, Deletes(p, b)
                 PROVE  /\ lease[b] = p
                        /\ refs[b] = Planned /\ main = Planned
                        /\ "timely" \notin held[b] /\ b \in ContentExact
      OBVIOUS
    <2>1. pc[p] = "delete" /\ idx[p] = b /\ pc'[p] # pc[p] /\ refs' # refs
      BY DEF Deletes, At, ToolStep
    <2>2. CutRef(p)
      BY <2>1, OnlyWrites DEF Writes
    <2>3. refs[b] = Planned /\ main = Planned
      BY <2>1, <2>2 DEF CutRef, TransactionHolds
    <2>4. lease[b] = p /\ "timely" \notin held[b] /\ b \in ContentExact
      BY <2>1 DEF IInv, LeaseOwned, ReproofStands, LeaseLabels, AfterLook, ProvenLabels
    <2> QED BY <2>3, <2>4
  <1> QED BY <1>1, Invariance, PTL DEF Spec, DeletionIsGuarded

\* No command ever writes over a ref that somebody else moved or recreated.
THEOREM NeverClobbered == Spec => RefsNeverClobbered
  <1> DEFINE Careful == \A p \in Procs, b \in Candidate : ToolStep(p) /\ refs'[b] # refs[b] =>
                          {refs[b], refs'[b]} = {Planned, Absent}
  <1>1. IInv /\ [Next]_vars => [Careful]_vars
    <2> SUFFICES ASSUME IInv, Next, NEW p \in Procs, NEW b \in Candidate,
                        ToolStep(p), refs'[b] # refs[b]
                 PROVE  {refs[b], refs'[b]} = {Planned, Absent}
      OBVIOUS
    <2>1. Writes(p) /\ refs \in [Candidate -> RefValue]
      BY OnlyWrites DEF ToolStep, IInv, TypeOK
    <2>2. CASE CutRef(p)
      <3>1. refs' = [refs EXCEPT ![idx[p]] = Absent] /\ refs[idx[p]] = Planned
        BY <2>2 DEF CutRef, TransactionHolds
      <3>2. b = idx[p] /\ refs'[b] = Absent
        BY <2>1, <3>1
      <3> QED BY <3>1, <3>2
    <2>3. CASE RestoreApplies(idx[p]) /\ refs' = [refs EXCEPT ![idx[p]] = Planned]
      <3>1. b = idx[p] /\ refs'[b] = Planned
        BY <2>1, <2>3
      <3> QED BY <2>3, <3>1 DEF RestoreApplies
    <2> QED BY <2>1, <2>2, <2>3 DEF Writes
  <1> QED BY <1>1, Invariance, PTL DEF Spec, RefsNeverClobbered

----------------------------------------------------------------------------
(* What holds as long as no release fails.                                 *)

\* After a failed release the executor goes on without the lease.
NoLostLease ==
  \A p \in Procs : pc[p] \notin {"relProbe", "relRestore", "relResult", "relSync", "relReturn"}

\* From its append to the deletion, the intent is the last event of the action.
IntentStands ==
  \A p \in Procs :
    /\ pc[p] \in {"intentSync", "armed", "delete"} => journal[Act(p)] = Intent(snapshot[p])
    /\ pc[p] \in {"armed", "delete"} => disk[Act(p)] = Intent(snapshot[p])

\* The only ways a command touches the journal, and comes to a deletion.
LEMMA JournalSteps ==
  ASSUME IInv, "release" \notin Faults, NoLostLease, NEW p \in Procs,
         Launch(p) \/ Command(p) \/ Fault(p)
  PROVE  /\ \/ journal' = journal
            \/ /\ pc[p] \in {"intent", "result", "rWrite"}
               /\ \E e \in Event : journal' = [journal EXCEPT ![Act(p)] = e]
         /\ disk' \in {disk, journal}
         /\ pc'[p] \notin {"relProbe", "relRestore", "relResult", "relSync", "relReturn"}
         /\ pc'[p] \in {"intentSync", "armed", "delete"} =>
              WriteIntent(p) \/ SyncIntent(p) \/ CheckArmed(p)
  <1> USE DEF IInv, TypeOK, NoLostLease, At, Go, Conclude, Proceed, Settle, Quiet, shared, log
  <1>1. CASE Launch(p)
    BY <1>1 DEF Launch, StartExecute, StartReconcile, Begin
  <1>2. CASE ExecuteStep(p)
    <2>1. \A s \in Status : Result(s) \in Event
      BY EventTypes
    <2>2. \A c \in Caps : Intent(c) \in Event
      BY EventTypes
    <2>3. /\ At(p, "intent") => Intent(snapshot[p]) \in Event
          /\ At(p, "result") => Result(ResultStatus(p)) \in Event
      BY <2>1, <2>2, AtWork DEF ResultStatus, Status, AbsenceStatus
    <2> QED
      BY <1>2, <2>3 DEF ExecuteStep, ReleaseFailed, Guard, GitFails, Busy, WriteEvent, SyncEvent,
      Synced, Restore, Acquire,
      GateCapability, GateJournal, GateUnreadable, SelectCandidate, LoopEnds,
      AcquireLease, LeaseBusy, RecheckCapability, ReproveRefs, ReproveHolds,
      ActivityIsOld, ActivityIsRecent, ReproveContent, WriteIntent, SyncIntent, CheckArmed,
      DeleteSource, DeleteRefused, ReadBack, ReadBackFails, ProbePresent, ProbeNotPresent,
      LastCheckPasses, LastCheckFails, RestoreSource, RestoreSourceFails, WriteResult,
      SyncResult, ReleaseAndContinue, ReleaseAndStop, ReleaseFails, RelPresent,
      RelNotPresent, RelRestore, RelRestoreFails, RelWriteResult, RelSyncResult, RelReturn,
      UnwindRelease
  <1>3. CASE ReconcileStep(p)
    <2>1. At(p, "rWrite") => Reconciled(stopped[p]) \in Event
      BY AtWork, EventTypes
    <2> QED
      BY <1>3, <2>1 DEF ReconcileStep, Guard, GitFails, Busy, WriteEvent, SyncEvent,
      Synced, Restore, Acquire,
      RGate, RReadPending, RUnreadable, RFinish, RNextIntent, RAcquire, RBusy, RRead, RFetch,
      RNoFetch, RFetchFails, RCreate, RCreateFails, RAfter, RWrite, RSync, RRelease,
      RReleaseFails
  <1>4. CASE ExecuteFault(p) \/ RRaise(p)
    BY <1>4 DEF ExecuteFault, DeleteInterrupted, RaiseInBody, RaiseInResult, TornAppend, RRaise
  <1>5. CASE Exit(p) \/ Crash(p)
    BY <1>5 DEF Exit, Crash, Vanish
  <1> QED BY <1>1, <1>2, <1>3, <1>4, <1>5 DEF Command, Fault

\* Two commands in the middle of a candidate, both with its lease, do not share an action.
LEMMA OwnAction ==
  ASSUME IInv, NEW p \in Procs, NEW q \in Procs \ {p},
         pc[p] \in LeaseLabels, pc[q] \in LeaseLabels
  PROVE  Act(p) # Act(q)
  BY DEF IInv, LeaseOwned, Act

LEMMA IntentPreserved ==
  ASSUME IInv, "release" \notin Faults, NoLostLease, IntentStands, [Next]_vars
  PROVE  NoLostLease' /\ IntentStands'
  <1> DEFINE Armed == {"intentSync", "armed", "delete"}
  <1>1. ASSUME NEW q \in Procs, Launch(q) \/ Command(q) \/ Fault(q)
        PROVE  NoLostLease' /\ IntentStands'
    <2>1. NoLostLease'
      BY <1>1, JournalSteps, OthersStay DEF NoLostLease
    <2>2. ASSUME NEW p \in Procs, p # q, pc'[p] \in Armed
          PROVE  /\ journal'[Act(p)'] = Intent(snapshot'[p])
                 /\ pc'[p] \in {"armed", "delete"} => disk'[Act(p)'] = Intent(snapshot'[p])
      <3>1. /\ pc'[p] = pc[p] /\ Act(p)' = Act(p) /\ snapshot'[p] = snapshot[p]
        BY <1>1, <2>2, OthersStay DEF Act
      <3>2. pc[q] \in {"intent", "result", "rWrite"} => Act(p) # Act(q)
        BY <2>2, <3>1, OwnAction DEF LeaseLabels
      <3>3. journal'[Act(p)] = journal[Act(p)]
        <4>1. Act(p) \in Action
          BY <2>2, <3>1, ActTypes DEF WorkLabels
        <4> QED BY <1>1, <3>2, <4>1, JournalSteps DEF IInv, TypeOK
      <3>4. disk' \in {disk, journal}
        BY <1>1, JournalSteps
      <3> QED BY <2>2, <3>1, <3>3, <3>4 DEF IntentStands
    <2>3. ASSUME pc'[q] \in Armed
          PROVE  /\ journal'[Act(q)'] = Intent(snapshot'[q])
                 /\ pc'[q] \in {"armed", "delete"} => disk'[Act(q)'] = Intent(snapshot'[q])
      <3>1. CASE WriteIntent(q)
        <4>1. pc'[q] = "intentSync" /\ Act(q)' = Act(q) /\ snapshot' = snapshot
          BY <3>1 DEF WriteIntent, WriteEvent, Proceed, Act, given, IInv, TypeOK
        <4>2. pc[q] \in WorkLabels
          BY <3>1 DEF WriteIntent, WriteEvent, At, WorkLabels
        <4>3. journal'[Act(q)] = Intent(snapshot[q])
          BY <3>1, <4>2, ActTypes DEF WriteIntent, WriteEvent, IInv, TypeOK
        <4> QED BY <4>1, <4>3
      <3>2. CASE SyncIntent(q)
        BY <3>2 DEF SyncIntent, SyncEvent, Synced, At, Act, given, IntentStands
      <3>3. CASE CheckArmed(q)
        BY <3>3 DEF CheckArmed, Guard, Go, Conclude, At, Quiet, shared, log, Act, given, IntentStands
      <3> QED BY <1>1, <2>3, <3>1, <3>2, <3>3, JournalSteps
    <2> QED BY <2>1, <2>2, <2>3 DEF IntentStands
  <1>2. CASE PowerLoss
    <2>1. \A p \in Procs : pc'[p] = "idle"
      BY <1>2 DEF PowerLoss, Vanish
    <2> QED BY <2>1 DEF NoLostLease, IntentStands
  <1>3. ASSUME UNCHANGED <<log, locals>> PROVE NoLostLease' /\ IntentStands'
    BY <1>3 DEF log, locals, given, Act, NoLostLease, IntentStands
  <1>4. ASSUME NEW c \in Creators, NEW b \in Candidate, Creator(c, b) PROVE UNCHANGED <<log, locals>>
    BY <1>4 DEF Creator, CreatorBegin, CreatorWrite, CreatorCheckout, CreatorEnd
  <1>5. ASSUME Environment, ~PowerLoss PROVE UNCHANGED <<log, locals>>
    BY <1>5 DEF Environment, HoldEnds, OutsideWrite, OutsideHold, DestinationMoves, CapabilityChanges
  <1>6. CASE UNCHANGED vars
    BY <1>6, <1>3 DEF vars, shared
  <1> QED BY <1>1, <1>2, <1>3, <1>4, <1>5, <1>6 DEF Next

LEMMA IntentInvariance ==
  ASSUME "release" \notin Faults
  PROVE  Spec => [](IInv /\ NoLostLease /\ IntentStands)
  <1>1. Init => NoLostLease /\ IntentStands
    BY DEF Init, NoLostLease, IntentStands
  <1>2. IInv /\ NoLostLease /\ IntentStands /\ [Next]_vars => (NoLostLease /\ IntentStands)'
    BY IntentPreserved
  <1> QED BY <1>1, <1>2, Invariance, PTL DEF Spec

\* While a creator is inside its operation no command writes the branch, provided that
\* releases do not fail.
THEOREM CreatorsUndisturbed ==
  ASSUME "release" \notin Faults
  PROVE  Spec => CreatorsAreAlone
  <1> DEFINE Alone == \A p \in Procs, b \in Candidate :
                        ToolStep(p) /\ lease[b] \in Creators => refs'[b] = refs[b]
  <1>1. IInv /\ NoLostLease /\ [Next]_vars => [Alone]_vars
    <2> SUFFICES ASSUME IInv, NoLostLease, Next, NEW p \in Procs, NEW b \in Candidate,
                        ToolStep(p), lease[b] \in Creators, refs'[b] # refs[b]
                 PROVE  FALSE
      OBVIOUS
    <2>1. Writes(p) /\ refs \in [Candidate -> RefValue]
      BY OnlyWrites DEF ToolStep, IInv, TypeOK
    <2>2. b = idx[p]
      BY <2>1 DEF Writes, CutRef
    <2>3. lease[idx[p]] = p
      BY <2>1 DEF Writes, NoLostLease, IInv, LeaseOwned, LeaseLabels
    <2> QED BY <2>2, <2>3, ConstantsAssumption
  <1> QED BY <1>1, IntentInvariance, PTL DEF Spec, CreatorsAreAlone

\* When a branch is deleted, its intent is in the journal and has been fsynced, provided
\* that releases do not fail.
THEOREM DurableIntent ==
  ASSUME "release" \notin Faults
  PROVE  Spec => IntentIsDurable
  <1> DEFINE Durable == \A p \in Procs, b \in Candidate : Deletes(p, b) =>
                          disk[Act(p)] = Intent(snapshot[p])
  <1>1. IInv /\ IntentStands /\ [Next]_vars => [Durable]_vars
    BY DEF Deletes, At, IntentStands
  <1> QED BY <1>1, IntentInvariance, PTL DEF Spec, IntentIsDurable

----------------------------------------------------------------------------
(* What the executor reports.  The branches it reports as deleted are      *)
(* those it has left behind, so the one that it may have to put back is    *)
(* not among them before the last check, and leaves them afterwards.       *)

Deciding == {"select", "acquire", "recheck", "refs", "holds", "activity", "content", "intent"}
Deleting == {"intentSync", "armed", "delete", "readback", "probe", "lastCheck", "restore"}
Settling == {"result", "resultSync", "release"}
Reconciling == {"rGate", "rPending", "rNext", "rAcquire", "rRead", "rFetch", "rCreate", "rAfter",
                "rWrite", "rSync", "rRelease"}

LeftBehind(p) ==
  /\ pc[p] \in {"idle", "gate", "pending"} \union Reconciling => deleted[p] = {}
  /\ pc[p] \in {"idle", "gate", "pending"} => idx[p] = 1
  /\ pc[p] \in Deciding \union Deleting => \A b \in deleted[p] : b < idx[p]
  /\ pc[p] \in Settling => \A b \in deleted[p] : b <= idx[p]

LEMMA LeftBehindStep ==
  ASSUME IInv, NEW p \in Procs, LeftBehind(p), Launch(p) \/ Command(p) \/ Fault(p)
  PROVE  LeftBehind(p)'
  <1> idx \in [Procs -> 1..(N + 1)] /\ deleted \in [Procs -> SUBSET Candidate] /\ pc \in [Procs -> Labels]
    BY DEF IInv, TypeOK
  <1> \A q \in Procs : deleted[q] \subseteq 1..N
    BY DEF Candidate
  <1> USE ConstantsAssumption
      DEF LeftBehind, Deciding, Deleting, Settling, Reconciling, At, Go, Conclude, Proceed, Settle, Quiet
  <1>1. CASE Launch(p)
    BY <1>1 DEF Launch, StartExecute, StartReconcile, Begin
  <1>2. CASE ExecuteStep(p)
    BY <1>2 DEF ExecuteStep, Guard, GitFails, Busy, WriteEvent, SyncEvent, Restore, Acquire,
      GateCapability, GateJournal, GateUnreadable, SelectCandidate, LoopEnds,
      AcquireLease, LeaseBusy, RecheckCapability, ReproveRefs, ReproveHolds,
      ActivityIsOld, ActivityIsRecent, ReproveContent, WriteIntent, SyncIntent, CheckArmed,
      DeleteSource, DeleteRefused, ReadBack, ReadBackFails, ProbePresent, ProbeNotPresent,
      LastCheckPasses, LastCheckFails, RestoreSource, RestoreSourceFails, WriteResult,
      SyncResult, ReleaseAndContinue, ReleaseAndStop, ReleaseFails, RelPresent,
      RelNotPresent, RelRestore, RelRestoreFails, RelWriteResult, RelSyncResult, RelReturn,
      UnwindRelease, NextCandidate
  <1>3. CASE ReconcileStep(p)
    BY <1>3 DEF ReconcileStep, Guard, GitFails, Busy, WriteEvent, SyncEvent, Restore, Acquire,
      RGate, RReadPending, RUnreadable, RFinish, RNextIntent, RAcquire, RBusy, RRead, RFetch,
      RNoFetch, RFetchFails, RCreate, RCreateFails, RAfter, RWrite, RSync, RRelease,
      RReleaseFails
  <1>4. CASE ExecuteFault(p) \/ RRaise(p)
    BY <1>4 DEF ExecuteFault, DeleteInterrupted, RaiseInBody, BodyLabels, RaiseInResult, TornAppend, RRaise
  <1>5. CASE Exit(p) \/ Crash(p)
    BY <1>5 DEF Exit, Crash, Vanish
  <1> QED BY <1>1, <1>2, <1>3, <1>4, <1>5 DEF Command, Fault

LEMMA LeftBehindAlways == Spec => [](IInv /\ \A p \in Procs : LeftBehind(p))
  <1> DEFINE Inv == IInv /\ \A p \in Procs : LeftBehind(p)
  <1>1. Init => Inv
    BY InitInvariant DEF Init, LeftBehind, Deciding, Deleting, Settling, Reconciling
  <1>2. ASSUME Inv, [Next]_vars PROVE Inv'
    <2> SUFFICES ASSUME NEW p \in Procs PROVE LeftBehind(p)'
      BY <1>2, NextInvariant
    <2>1. ASSUME NEW q \in Procs, Launch(q) \/ Command(q) \/ Fault(q) PROVE LeftBehind(p)'
      <3>1. CASE p = q
        BY <1>2, <2>1, <3>1, LeftBehindStep
      <3>2. CASE p # q
        BY <1>2, <2>1, <3>2, OthersStay DEF LeftBehind
      <3> QED BY <3>1, <3>2
    <2>2. CASE PowerLoss
      BY <2>2 DEF PowerLoss, Vanish, LeftBehind, Deciding, Deleting, Settling, Reconciling
    <2>3. ASSUME UNCHANGED locals PROVE LeftBehind(p)'
      BY <1>2, <2>3 DEF locals, LeftBehind
    <2>4. ASSUME NEW c \in Creators, NEW b \in Candidate, Creator(c, b) PROVE UNCHANGED locals
      BY <2>4 DEF Creator, CreatorBegin, CreatorWrite, CreatorCheckout, CreatorEnd
    <2>5. ASSUME Environment, ~PowerLoss PROVE UNCHANGED locals
      BY <2>5 DEF Environment, HoldEnds, OutsideWrite, OutsideHold, DestinationMoves, CapabilityChanges
    <2>6. UNCHANGED vars => UNCHANGED locals
      BY DEF vars
    <2> QED BY <1>2, <2>1, <2>2, <2>3, <2>4, <2>5, <2>6 DEF Next
  <1> QED BY <1>1, <1>2, PTL DEF Spec

\* The three places that put a branch back.
LEMMA RestoreActions ==
  ASSUME NEW p \in Procs, pc[p] \in {"restore", "relRestore", "rCreate"}, refs' # refs,
         Launch(p) \/ Command(p) \/ Fault(p)
  PROVE  RestoreSource(p) \/ RelRestore(p) \/ RCreate(p)
  <1> USE DEF Quiet, shared, git, At, Go, Conclude
  <1>1. ~Launch(p)
    BY DEF Launch, StartExecute, StartReconcile, Begin
  <1>2. ExecuteStep(p) => RestoreSource(p) \/ RelRestore(p)
    BY DEF ExecuteStep, Guard, GitFails, Busy, WriteEvent, SyncEvent, Acquire,
      GateCapability, GateJournal, GateUnreadable, SelectCandidate, LoopEnds,
      AcquireLease, LeaseBusy, RecheckCapability, ReproveRefs, ReproveHolds,
      ActivityIsOld, ActivityIsRecent, ReproveContent, WriteIntent, SyncIntent, CheckArmed,
      DeleteSource, DeleteRefused, ReadBack, ReadBackFails, ProbePresent, ProbeNotPresent,
      LastCheckPasses, LastCheckFails, RestoreSourceFails, WriteResult,
      SyncResult, ReleaseAndContinue, ReleaseAndStop, ReleaseFails, RelPresent,
      RelNotPresent, RelRestoreFails, RelWriteResult, RelSyncResult, RelReturn,
      UnwindRelease
  <1>3. ReconcileStep(p) => RCreate(p)
    BY DEF ReconcileStep, Guard, GitFails, Busy, WriteEvent, SyncEvent, Acquire,
      RGate, RReadPending, RUnreadable, RFinish, RNextIntent, RAcquire, RBusy, RRead, RFetch,
      RNoFetch, RFetchFails, RCreateFails, RAfter, RWrite, RSync, RRelease,
      RReleaseFails
  <1>4. ~ExecuteFault(p) /\ ~RRaise(p) /\ ~Exit(p) /\ ~Crash(p)
    BY DEF ExecuteFault, DeleteInterrupted, RaiseInBody, RaiseInResult, TornAppend, RRaise, Exit, Crash
  <1> QED BY <1>1, <1>2, <1>3, <1>4 DEF Command, Fault

\* Whatever fails and whoever else runs, a branch that the executor put back is not in the
\* list of deleted branches that it will return.
THEOREM RestoredUnreported == Spec => RestoredIsNotReported
  <1> DEFINE Inv == IInv /\ \A p \in Procs : LeftBehind(p)
             True == \A p \in Procs, b \in Candidate : Restores(p, b) => b \notin deleted'[p]
  <1>1. Inv /\ [Next]_vars => [True]_vars
    <2> SUFFICES ASSUME Inv, Next, NEW p \in Procs, NEW b \in Candidate, Restores(p, b)
                 PROVE  b \notin deleted'[p]
      OBVIOUS
    <2>1. /\ pc'[p] # pc[p] /\ refs' # refs /\ idx[p] = b /\ refs[b] = Absent
          /\ b \in Nat /\ deleted \in [Procs -> SUBSET Candidate]
      <3>1. pc'[p] # pc[p] /\ refs' # refs /\ idx[p] = b /\ refs[b] = Absent
        BY DEF Restores, ToolStep
      <3>2. deleted \in [Procs -> SUBSET Candidate]
        BY DEF IInv, TypeOK
      <3>3. b \in Nat
        BY ConstantsAssumption DEF Candidate
      <3> QED BY <3>1, <3>2, <3>3
    <2>2. pc[p] \in {"restore", "relRestore", "rCreate"}
      <3>1. Planned # Absent
        BY DEF Planned, Absent
      <3> QED BY <2>1, <3>1, OnlyWrites DEF Writes, CutRef, TransactionHolds
    <2>3. RestoreSource(p) \/ RelRestore(p) \/ RCreate(p)
      BY <2>1, <2>2, OwnWrite, RestoreActions
    <2>4. CASE RestoreSource(p)
      <3>1. \A c \in deleted[p] : c < b
        BY <2>1, <2>4 DEF LeftBehind, Deleting, RestoreSource, Restore, At
      <3> QED BY <2>1, <2>4, <3>1 DEF RestoreSource
    <2>5. CASE RelRestore(p)
      BY <2>1, <2>5 DEF RelRestore, ReportAfterRestore, RestoreApplies
    <2>6. CASE RCreate(p)
      BY <2>6 DEF RCreate, Restore, At, LeftBehind, Reconciling
    <2> QED BY <2>3, <2>4, <2>5, <2>6
  <1> QED BY <1>1, LeftBehindAlways, PTL DEF Spec, RestoredIsNotReported

----------------------------------------------------------------------------
(* One command at a time.  What the journal promises rests on commands     *)
(* that do not overlap (the runs with two commands show what else may      *)
(* happen).  Then an executor that found nothing unfinished still finds    *)
(* nothing but its own intent when it deletes (Cleared); a branch that an  *)
(* action removed is named by that action's intent on disk, and by no      *)
(* other (CutIsNamed); and the reconciler's list stays true (Unfinished).  *)

OneAtATime == \A p, q \in Procs : p = q

IsOpen(a)   == journal[a].kind = "intent"
NothingOpen == \A a \in Action : ~IsOpen(a)

CutIsAbsent ==
  \A b \in Candidate : cutBy[b] # Nothing => refs[b] = Absent /\ cutBy[b][2] = b

CutIsNamed ==
  \A a \in Action :
    /\ cutBy[a[2]] \notin {Nothing, a} => ~IsOpen(a) /\ disk[a].kind # "intent"
    /\ cutBy[a[2]] = a /\ IsOpen(a) => disk[a].kind = "intent"

Cleared(p) ==
  /\ pc[p] \in Deciding \union {"resultSync"} \/ (pc[p] = "release" /\ ~raised[p])
       => ~torn /\ NothingOpen
  /\ pc[p] \in Deleting \union {"result"} =>
       ~torn /\ \A a \in Action : a # Act(p) => ~IsOpen(a)
  /\ pc[p] \in {"intentSync", "armed", "delete"} => IsOpen(Act(p))
  /\ pc[p] \in {"armed", "delete"} => disk = journal
  /\ pc[p] \in AfterLook \union {"holds"} => cutBy[idx[p]] = Nothing

Honest(p) ==
  /\ pc[p] \in ({"idle", "gate", "pending"} \union Deciding \union Deleting) \ {"probe", "restore"}
       => stopped[p] = "none"
  /\ pc[p] \in {"probe", "restore"} => stopped[p] \in AbsenceStatus
  /\ pc[p] = "result" /\ cutBy[idx[p]] = Act(p) /\ IsOpen(Act(p)) =>
       ResultStatus(p) \in AbsenceStatus
  /\ pc[p] = "rWrite" /\ cutBy[idx[p]] = Act(p) => stopped[p] \in AbsenceStatus

Unfinished(p) ==
  /\ pc[p] \in Reconciling \ {"rGate", "rPending"} =>
       \A t \in todo[p] : \/ pc[p] \in {"rSync", "rRelease"} /\ t[1] = idx[p]
                          \/ IsOpen(<<plan[p], t[1]>>)
  /\ pc[p] \in {"rAcquire", "rRead", "rFetch", "rCreate", "rAfter", "rWrite"} => IsOpen(Act(p))

SoloInv == /\ IInv /\ CutIsAbsent /\ CutIsNamed
           /\ \A p \in Procs : Cleared(p) /\ Honest(p) /\ Unfinished(p)

\* How a command changes refs and their history ...
LEMMA GitSteps ==
  ASSUME NEW p \in Procs, Launch(p) \/ Command(p) \/ Fault(p)
  PROVE  \/ UNCHANGED git
         \/ pc[p] = "delete" /\ CutRef(p) /\ UNCHANGED log
         \/ /\ pc[p] \in {"restore", "relRestore", "rCreate"} /\ UNCHANGED log
            /\ RestoreApplies(idx[p])
            /\ refs' = [refs EXCEPT ![idx[p]] = Planned]
            /\ cutBy' = [cutBy EXCEPT ![idx[p]] = Nothing]
  <1> USE DEF Quiet, shared, git, log, At, Go, Conclude
  <1>1. CASE Launch(p)
    BY <1>1 DEF Launch, StartExecute, StartReconcile, Begin
  <1>2. CASE ExecuteStep(p)
    BY <1>2 DEF ExecuteStep, Guard, GitFails, Busy, WriteEvent, SyncEvent, Restore, Acquire,
      GateCapability, GateJournal, GateUnreadable, SelectCandidate, LoopEnds,
      AcquireLease, LeaseBusy, RecheckCapability, ReproveRefs, ReproveHolds,
      ActivityIsOld, ActivityIsRecent, ReproveContent, WriteIntent, SyncIntent, CheckArmed,
      DeleteSource, DeleteRefused, ReadBack, ReadBackFails, ProbePresent, ProbeNotPresent,
      LastCheckPasses, LastCheckFails, RestoreSource, RestoreSourceFails, WriteResult,
      SyncResult, ReleaseAndContinue, ReleaseAndStop, ReleaseFails, RelPresent,
      RelNotPresent, RelRestore, RelRestoreFails, RelWriteResult, RelSyncResult, RelReturn,
      UnwindRelease
  <1>3. CASE ReconcileStep(p)
    BY <1>3 DEF ReconcileStep, Guard, GitFails, Busy, WriteEvent, SyncEvent, Restore, Acquire,
      RGate, RReadPending, RUnreadable, RFinish, RNextIntent, RAcquire, RBusy, RRead, RFetch,
      RNoFetch, RFetchFails, RCreate, RCreateFails, RAfter, RWrite, RSync, RRelease,
      RReleaseFails
  <1>4. CASE ExecuteFault(p) \/ RRaise(p)
    BY <1>4 DEF ExecuteFault, DeleteInterrupted, RaiseInBody, RaiseInResult, TornAppend, RRaise
  <1>5. CASE Exit(p) \/ Crash(p)
    BY <1>5 DEF Exit, Crash
  <1> QED BY <1>1, <1>2, <1>3, <1>4, <1>5 DEF Command, Fault

\* ... and the journal.
LEMMA LogSteps ==
  ASSUME NEW p \in Procs, Launch(p) \/ Command(p) \/ Fault(p)
  PROVE  \/ UNCHANGED <<journal, disk>>
         \/ UNCHANGED <<git, journal>> /\ disk' = journal
         \/ UNCHANGED <<git, disk>> /\ \E e : /\ journal' = [journal EXCEPT ![Act(p)] = e]
                                             /\ \/ pc[p] = "intent"
                                                \/ /\ pc[p] \in {"result", "relResult", "rWrite"}
                                                   /\ e.kind # "intent"
  <1> USE DEF Quiet, shared, log, git, At, Go, Conclude
  <1> DEFINE Kept   == UNCHANGED <<journal, disk>>
             Flushed == UNCHANGED <<git, journal>> /\ disk' = journal
             Wrote  == UNCHANGED <<git, disk>> /\ \E e : /\ journal' = [journal EXCEPT ![Act(p)] = e]
                                             /\ \/ pc[p] = "intent"
                                                \/ /\ pc[p] \in {"result", "relResult", "rWrite"}
                                                   /\ e.kind # "intent"
  <1>1. CASE Launch(p)
    BY <1>1 DEF Launch, StartExecute, StartReconcile, Begin
  <1>2. CASE ExecuteStep(p)
    <2>1. WriteIntent(p) => Wrote
      BY DEF WriteIntent, WriteEvent
    <2>2. WriteResult(p) => Wrote
      <3>1. Result(ResultStatus(p)).kind # "intent"
        BY DEF Result
      <3> QED BY <3>1 DEF WriteResult, WriteEvent
    <2>3. RelWriteResult(p) => Wrote
      <3>1. Result("lease_release_failed").kind # "intent"
        BY DEF Result
      <3> QED BY <3>1 DEF RelWriteResult, WriteEvent
    <2>4. SyncIntent(p) \/ SyncResult(p) \/ RelSyncResult(p) => Flushed
      BY DEF SyncIntent, SyncResult, RelSyncResult, SyncEvent, Synced
    <2> HIDE DEF Wrote, Flushed
    <2>5. \/ Kept
          \/ WriteIntent(p) \/ WriteResult(p) \/ RelWriteResult(p)
          \/ SyncIntent(p) \/ SyncResult(p) \/ RelSyncResult(p)
     BY <1>2 DEF ExecuteStep, Guard, GitFails, Busy, Restore, Acquire,
      GateCapability, GateJournal, GateUnreadable, SelectCandidate, LoopEnds,
      AcquireLease, LeaseBusy, RecheckCapability, ReproveRefs, ReproveHolds,
      ActivityIsOld, ActivityIsRecent, ReproveContent, CheckArmed,
      DeleteSource, DeleteRefused, ReadBack, ReadBackFails, ProbePresent, ProbeNotPresent,
      LastCheckPasses, LastCheckFails, RestoreSource, RestoreSourceFails,
      ReleaseAndContinue, ReleaseAndStop, ReleaseFails, RelPresent,
      RelNotPresent, RelRestore, RelRestoreFails, RelReturn, UnwindRelease
    <2> QED BY <2>1, <2>2, <2>3, <2>4, <2>5 DEF Wrote, Flushed
  <1>3. CASE ReconcileStep(p)
    <2>1. RWrite(p) => Wrote
      <3>1. Reconciled(stopped[p]).kind # "intent"
        BY DEF Reconciled
      <3> QED BY <3>1 DEF RWrite, WriteEvent
    <2>2. RSync(p) => Flushed
      BY DEF RSync, SyncEvent, Synced
    <2>3. Kept \/ RWrite(p) \/ RSync(p)
      BY <1>3 DEF ReconcileStep, Guard, GitFails, Busy, Restore, Acquire,
      RGate, RReadPending, RUnreadable, RFinish, RNextIntent, RAcquire, RBusy, RRead, RFetch,
      RNoFetch, RFetchFails, RCreate, RCreateFails, RAfter, RRelease, RReleaseFails
    <2> HIDE DEF Wrote, Flushed
    <2> QED BY <2>1, <2>2, <2>3 DEF Wrote, Flushed
  <1>4. CASE ExecuteFault(p) \/ RRaise(p)
    BY <1>4 DEF ExecuteFault, DeleteInterrupted, RaiseInBody, RaiseInResult, TornAppend, RRaise
  <1>5. CASE Exit(p) \/ Crash(p)
    BY <1>5 DEF Exit, Crash
  <1> QED BY <1>1, <1>2, <1>3, <1>4, <1>5 DEF Command, Fault

LEMMA CutStep ==
  ASSUME SoloInv, NEW p \in Procs, Launch(p) \/ Command(p) \/ Fault(p)
  PROVE  CutIsAbsent' /\ CutIsNamed'
  <1> /\ refs \in [Candidate -> RefValue] /\ cutBy \in [Candidate -> Action \union {Nothing}]
      /\ journal \in [Action -> Event] /\ Nothing \notin Action
      /\ CutIsAbsent /\ CutIsNamed /\ Cleared(p)
    BY ConstantsAssumption DEF SoloInv, IInv, TypeOK
  <1>1. pc[p] \in WorkLabels => Act(p) \in Action /\ idx[p] \in Candidate /\ Act(p)[2] = idx[p]
    BY ActTypes, AtWork DEF SoloInv, Act
  <1>2. \A a \in Action : a[2] \in Candidate
    BY DEF Action
  <1>3. CASE UNCHANGED git
    <2>1. CutIsAbsent'
      BY <1>3 DEF git, CutIsAbsent
    <2>2. CASE UNCHANGED <<journal, disk>>
      BY <1>3, <2>1, <2>2 DEF git, CutIsNamed, IsOpen
    <2>3. CASE journal' = journal /\ disk' = journal
      BY <1>3, <2>1, <2>3 DEF git, CutIsNamed, IsOpen
    <2>4. ASSUME NEW e, journal' = [journal EXCEPT ![Act(p)] = e], disk' = disk,
                 pc[p] = "intent" \/ (pc[p] \in {"result", "relResult", "rWrite"} /\ e.kind # "intent")
          PROVE  CutIsNamed'
      <3>1. Act(p) \in Action /\ idx[p] \in Candidate /\ Act(p)[2] = idx[p]
        BY <1>1, <2>4 DEF WorkLabels
      <3>2. pc[p] = "intent" => cutBy[idx[p]] = Nothing
        BY DEF Cleared, AfterLook
      <3> SUFFICES ASSUME NEW a \in Action
                   PROVE  /\ cutBy[a[2]] \notin {Nothing, a} =>
                               journal'[a].kind # "intent" /\ disk[a].kind # "intent"
                          /\ cutBy[a[2]] = a /\ journal'[a].kind = "intent" => disk[a].kind = "intent"
        BY <1>3, <2>4 DEF git, CutIsNamed, IsOpen
      <3>3. CASE a = Act(p)
        <4>1. journal'[a] = e
          BY <2>4, <3>3
        <4> QED BY <2>4, <3>1, <3>2, <3>3, <4>1 DEF CutIsNamed
      <3>4. CASE a # Act(p)
        BY <2>4, <3>4 DEF CutIsNamed, IsOpen
      <3> QED BY <3>3, <3>4
    <2> QED BY <2>1, <2>2, <2>3, <2>4, LogSteps
  <1>4. CASE pc[p] = "delete" /\ CutRef(p) /\ UNCHANGED log
    <2>1. Act(p) \in Action /\ idx[p] \in Candidate /\ Act(p)[2] = idx[p]
      BY <1>1, <1>4 DEF WorkLabels
    <2>2. /\ refs' = [refs EXCEPT ![idx[p]] = Absent] /\ cutBy' = [cutBy EXCEPT ![idx[p]] = Act(p)]
          /\ journal' = journal /\ disk' = journal
      BY <1>4 DEF CutRef, Cleared, log
    <2>3. CutIsAbsent'
      BY <2>1, <2>2 DEF CutIsAbsent
    <2>4. \A a \in Action : a # Act(p) => journal[a].kind # "intent"
      BY <1>4 DEF Cleared, Deleting, IsOpen
    <2>5. ASSUME NEW a \in Action
          PROVE  /\ cutBy'[a[2]] \notin {Nothing, a} =>
                      journal'[a].kind # "intent" /\ disk'[a].kind # "intent"
                 /\ cutBy'[a[2]] = a /\ journal'[a].kind = "intent" => disk'[a].kind = "intent"
      <3>1. CASE a = Act(p)
        <4>1. cutBy'[a[2]] = a
          BY <2>1, <2>2, <3>1
        <4> QED BY <2>2, <4>1
      <3>2. CASE a # Act(p)
        BY <2>2, <2>4, <3>2
      <3> QED BY <3>1, <3>2
    <2> QED BY <2>3, <2>5 DEF CutIsNamed, IsOpen
  <1>5. CASE /\ pc[p] \in {"restore", "relRestore", "rCreate"} /\ UNCHANGED log
             /\ refs' = [refs EXCEPT ![idx[p]] = Planned]
             /\ cutBy' = [cutBy EXCEPT ![idx[p]] = Nothing]
    <2>1. idx[p] \in Candidate
      BY <1>1, <1>5 DEF WorkLabels
    <2>2. \A b \in Candidate : cutBy'[b] # Nothing => cutBy'[b] = cutBy[b] /\ refs'[b] = refs[b]
      BY <1>5, <2>1
    <2>3. CutIsAbsent'
      BY <2>2 DEF CutIsAbsent
    <2>4. CutIsNamed'
      BY <1>2, <1>5, <2>2 DEF CutIsNamed, IsOpen, log
    <2> QED BY <2>3, <2>4
  <1> QED BY <1>3, <1>4, <1>5, GitSteps

\* Creators, operators and power losses.
LEMMA CutOthers ==
  ASSUME SoloInv,
         \/ PowerLoss
         \/ UNCHANGED <<git, journal, disk>>
         \/ UNCHANGED <<journal, disk>>
            /\ \E v : \E b \in Candidate : /\ refs' = [refs EXCEPT ![b] = v]
                                           /\ cutBy' = [cutBy EXCEPT ![b] = Nothing]
  PROVE  CutIsAbsent' /\ CutIsNamed'
  <1> /\ refs \in [Candidate -> RefValue] /\ cutBy \in [Candidate -> Action \union {Nothing}]
      /\ journal \in [Action -> Event] /\ Nothing \notin Action
      /\ CutIsAbsent /\ CutIsNamed
    BY ConstantsAssumption DEF SoloInv, IInv, TypeOK
  <1>1. CASE PowerLoss
    <2>1. /\ UNCHANGED git /\ disk' = journal'
          /\ \A a \in Action : journal'[a] \in {journal[a], disk[a]}
      BY <1>1 DEF PowerLoss
    <2> QED BY <2>1 DEF git, CutIsAbsent, CutIsNamed, IsOpen
  <1>2. CASE UNCHANGED <<git, journal, disk>>
    BY <1>2 DEF git, CutIsAbsent, CutIsNamed, IsOpen
  <1>3. ASSUME UNCHANGED <<journal, disk>>, NEW c \in Candidate, NEW v,
               refs' = [refs EXCEPT ![c] = v], cutBy' = [cutBy EXCEPT ![c] = Nothing]
        PROVE  CutIsAbsent' /\ CutIsNamed'
    <2>1. \A b \in Candidate : cutBy'[b] # Nothing => cutBy'[b] = cutBy[b] /\ refs'[b] = refs[b]
      BY <1>3
    <2>2. CutIsAbsent'
      BY <2>1 DEF CutIsAbsent
    <2>3. \A a \in Action : a[2] \in Candidate
      BY DEF Action
    <2>4. CutIsNamed'
      BY <1>3, <2>1, <2>3 DEF CutIsNamed, IsOpen
    <2> QED BY <2>2, <2>4
  <1> QED BY <1>1, <1>2, <1>3

LEMMA PendingOpen ==
  /\ Pending(Plans) = {} <=> NothingOpen
  /\ \A a \in Action : a \in Pending(Plans) <=> IsOpen(a)
  BY DEF Pending, NothingOpen, IsOpen, Action

LEMMA ClearedStep ==
  ASSUME SoloInv, NEW p \in Procs, Launch(p) \/ Command(p) \/ Fault(p)
  PROVE  Cleared(p)'
  <1> /\ pc \in [Procs -> Labels] /\ raised \in [Procs -> BOOLEAN]
      /\ journal \in [Action -> Event] /\ idx \in [Procs -> 1 .. (N + 1)]
      /\ cutBy \in [Candidate -> Action \union {Nothing}]
      /\ CutIsAbsent /\ Cleared(p)
    BY DEF SoloInv, IInv, TypeOK
  <1>1. pc[p] \in WorkLabels => Act(p) \in Action /\ idx[p] \in Candidate
    BY ActTypes, AtWork DEF SoloInv
  <1> USE DEF Cleared, NothingOpen, IsOpen, Deciding, Deleting, AfterLook, WorkLabels, At, Go, Conclude,
              Proceed, Settle, Quiet, shared, git, log, given
  <1>2. CASE Launch(p)
    BY <1>2 DEF Launch, StartExecute, StartReconcile, Begin
  <1>3. ASSUME WriteIntent(p) PROVE Cleared(p)'
    <2>1. /\ pc[p] = "intent" /\ pc'[p] = "intentSync" /\ Act(p)' = Act(p) /\ idx'[p] = idx[p]
          /\ journal' = [journal EXCEPT ![Act(p)] = Intent(snapshot[p])]
          /\ torn' = torn /\ cutBy' = cutBy
      BY <1>3 DEF WriteIntent, WriteEvent, Act
    <2>2. journal'[Act(p)].kind = "intent" /\ \A a \in Action : a # Act(p) => journal'[a] = journal[a]
      BY <1>1, <2>1 DEF Intent
    <2> QED BY <2>1, <2>2
  <1>4. ASSUME WriteResult(p) PROVE Cleared(p)'
    <2>1. /\ pc[p] = "result" /\ pc'[p] = "resultSync" /\ Act(p)' = Act(p)
          /\ journal' = [journal EXCEPT ![Act(p)] = Result(ResultStatus(p))] /\ torn' = torn
      BY <1>4 DEF WriteResult, WriteEvent, Act
    <2>2. journal'[Act(p)].kind # "intent" /\ \A a \in Action : a # Act(p) => journal'[a] = journal[a]
      BY <1>1, <2>1 DEF Result
    <2> QED BY <2>1, <2>2
  <1>5. ASSUME GateJournal(p) PROVE Cleared(p)'
    BY <1>5, PendingOpen DEF GateJournal, Blocking, Readable, Guard, Act
  <1>6. ASSUME ReproveRefs(p) PROVE Cleared(p)'
    <2>1. refs[idx[p]] = Planned => cutBy[idx[p]] = Nothing
      BY <1>1, <1>6 DEF ReproveRefs, Guard, CutIsAbsent, Planned, Absent
    <2> QED BY <1>6, <2>1 DEF ReproveRefs, Guard, Act
  <1>7. CASE ExecuteStep(p) /\ ~WriteIntent(p) /\ ~WriteResult(p) /\ ~GateJournal(p) /\ ~ReproveRefs(p)
    BY <1>7 DEF ExecuteStep, Act, Guard, GitFails, Busy, WriteEvent, SyncEvent, Synced, Restore, Acquire,
      GateCapability, GateUnreadable, SelectCandidate, LoopEnds,
      AcquireLease, LeaseBusy, RecheckCapability, ReproveHolds,
      ActivityIsOld, ActivityIsRecent, ReproveContent, SyncIntent, CheckArmed,
      DeleteSource, DeleteRefused, ReadBack, ReadBackFails, ProbePresent, ProbeNotPresent,
      LastCheckPasses, LastCheckFails, RestoreSource, RestoreSourceFails,
      SyncResult, ReleaseAndContinue, ReleaseAndStop, ReleaseFails, RelPresent,
      RelNotPresent, RelRestore, RelRestoreFails, RelWriteResult, RelSyncResult, RelReturn,
      UnwindRelease, NextCandidate
  <1>8. CASE ReconcileStep(p)
    BY <1>8 DEF ReconcileStep, Guard, GitFails, Busy, WriteEvent, SyncEvent, Restore, Acquire,
      RGate, RReadPending, RUnreadable, RFinish, RNextIntent, RAcquire, RBusy, RRead, RFetch,
      RNoFetch, RFetchFails, RCreate, RCreateFails, RAfter, RWrite, RSync, RRelease,
      RReleaseFails
  <1>9. CASE ExecuteFault(p) \/ RRaise(p)
    BY <1>9 DEF ExecuteFault, DeleteInterrupted, RaiseInBody, BodyLabels, RaiseInResult, TornAppend, RRaise
  <1>10. CASE Exit(p) \/ Crash(p)
    BY <1>10 DEF Exit, Crash, Vanish
  <1> QED
    BY <1>2, <1>3, <1>4, <1>5, <1>6, <1>7, <1>8, <1>9, <1>10 DEF Command, Fault

LEMMA HonestStep ==
  ASSUME SoloInv, NEW p \in Procs, Launch(p) \/ Command(p) \/ Fault(p)
  PROVE  Honest(p)'
  <1> /\ pc \in [Procs -> Labels] /\ raised \in [Procs -> BOOLEAN]
      /\ stopped \in [Procs -> AnyStatus]
      /\ journal \in [Action -> Event] /\ idx \in [Procs -> 1 .. (N + 1)]
      /\ cutBy \in [Candidate -> Action \union {Nothing}]
      /\ CutIsAbsent /\ Cleared(p) /\ Honest(p) /\ Nothing \notin Action
    BY ConstantsAssumption DEF SoloInv, IInv, TypeOK, AnyStatus
  <1>1. pc[p] \in WorkLabels => Act(p) \in Action /\ idx[p] \in Candidate
    BY ActTypes, AtWork DEF SoloInv
  <1> USE DEF Cleared, Honest, NothingOpen, IsOpen, ResultStatus, AbsenceStatus, Deciding, Deleting,
              AfterLook, WorkLabels, At, Go, Conclude, Proceed, Settle, Quiet, shared, git, log, given
  <1>2. CASE Launch(p)
    BY <1>2 DEF Launch, StartExecute, StartReconcile, Begin
  <1>3. ASSUME RecheckCapability(p) \/ ReproveRefs(p) PROVE Honest(p)'
    <2>1. ~IsOpen(Act(p))
      BY <1>1, <1>3 DEF RecheckCapability, ReproveRefs, Guard
    <2> QED BY <1>3, <2>1 DEF RecheckCapability, ReproveRefs, Guard, Act
  <1>4. ASSUME \/ ReproveHolds(p) \/ ActivityIsRecent(p) \/ ReproveContent(p)
               \/ CheckArmed(p) \/ DeleteRefused(p)
        PROVE  Honest(p)'
    <2>1. cutBy[idx[p]] = Nothing /\ Act(p) # Nothing
      BY <1>1, <1>4 DEF ReproveHolds, ActivityIsRecent, ReproveContent, CheckArmed, DeleteRefused, Guard
    <2> QED BY <1>4, <2>1
         DEF ReproveHolds, ActivityIsRecent, ReproveContent, CheckArmed, DeleteRefused, Guard, Act
  <1>5. ASSUME ReadBack(p) PROVE Honest(p)'
    <2>1. refs[idx[p]] # Absent => cutBy[idx[p]] = Nothing /\ Act(p) # Nothing
      BY <1>1, <1>5 DEF ReadBack, Guard, CutIsAbsent
    <2> QED BY <1>5, <2>1 DEF ReadBack, Guard, Act
  <1>6. ASSUME RRead(p) PROVE Honest(p)'
    <2>1. refs[idx[p]] # Absent => cutBy[idx[p]] = Nothing /\ Act(p) # Nothing
      BY <1>1, <1>6 DEF RRead, Guard, CutIsAbsent
    <2> QED BY <1>6, <2>1 DEF RRead, Guard, Act
  <1>7. ASSUME RAfter(p) PROVE Honest(p)'
    <2>1. refs[idx[p]] # Absent => cutBy[idx[p]] = Nothing /\ Act(p) # Nothing
      BY <1>1, <1>7 DEF RAfter, CutIsAbsent
    <2>2. refs[idx[p]] = Absent => RestoreStatus(p) = "restore_uncertain"
      BY DEF RestoreStatus, Planned, Moved, Absent
    <2> QED BY <1>7, <2>1, <2>2 DEF RAfter, Act
  <1>8. ASSUME RestoreSource(p) PROVE Honest(p)'
    BY <1>8 DEF RestoreSource, Restore, Act
  <1>9. CASE ExecuteStep(p) /\ ~RecheckCapability(p) /\ ~ReproveRefs(p) /\ ~ReproveHolds(p)
              /\ ~ActivityIsRecent(p) /\ ~ReproveContent(p) /\ ~CheckArmed(p) /\ ~DeleteRefused(p)
              /\ ~ReadBack(p) /\ ~RestoreSource(p)
    BY <1>9 DEF ExecuteStep, Act, Guard, GitFails, Busy, WriteEvent, SyncEvent, Synced, Restore, Acquire,
      GateCapability, GateJournal, GateUnreadable, SelectCandidate, LoopEnds,
      AcquireLease, LeaseBusy, ActivityIsOld, WriteIntent, SyncIntent,
      DeleteSource, ReadBackFails, ProbePresent, ProbeNotPresent,
      LastCheckPasses, LastCheckFails, RestoreSourceFails, WriteResult,
      SyncResult, ReleaseAndContinue, ReleaseAndStop, ReleaseFails, RelPresent,
      RelNotPresent, RelRestore, RelRestoreFails, RelWriteResult, RelSyncResult, RelReturn,
      UnwindRelease, NextCandidate
  <1>10. CASE ReconcileStep(p) /\ ~RRead(p) /\ ~RAfter(p)
    BY <1>10 DEF ReconcileStep, Guard, GitFails, Busy, WriteEvent, SyncEvent, Restore, Acquire,
      RGate, RReadPending, RUnreadable, RFinish, RNextIntent, RAcquire, RBusy, RFetch,
      RNoFetch, RFetchFails, RCreate, RCreateFails, RWrite, RSync, RRelease,
      RReleaseFails
  <1>11. CASE ExecuteFault(p) \/ RRaise(p)
    BY <1>11 DEF ExecuteFault, DeleteInterrupted, RaiseInBody, BodyLabels, RaiseInResult, TornAppend, RRaise
  <1>12. CASE Exit(p) \/ Crash(p)
    BY <1>12 DEF Exit, Crash, Vanish
  <1> QED
    BY <1>2, <1>3, <1>4, <1>5, <1>6, <1>7, <1>8, <1>9, <1>10, <1>11, <1>12 DEF Command, Fault

LEMMA UnfinishedStep ==
  ASSUME SoloInv, NEW p \in Procs, Launch(p) \/ Command(p) \/ Fault(p)
  PROVE  Unfinished(p)'
  <1> /\ pc \in [Procs -> Labels] /\ plan \in [Procs -> Plans \union {Nothing}]
      /\ journal \in [Action -> Event] /\ idx \in [Procs -> 1 .. (N + 1)]
      /\ todo \in [Procs -> SUBSET (Candidate \X (Caps \union {NoCap}))]
      /\ Unfinished(p)
    BY DEF SoloInv, IInv, TypeOK
  <1>1. pc[p] \in WorkLabels => Act(p) \in Action /\ idx[p] \in Candidate
    BY ActTypes, AtWork DEF SoloInv
  <1> USE DEF Unfinished, IsOpen, Reconciling, WorkLabels, At, Go, Conclude, Proceed, Settle, Quiet,
              shared, git, log, given
  <1>2. CASE Launch(p)
    BY <1>2 DEF Launch, StartExecute, StartReconcile, Begin
  <1>3. CASE ExecuteStep(p)
    BY <1>3 DEF ExecuteStep, Guard, GitFails, Busy, WriteEvent, SyncEvent, Restore, Acquire,
      GateCapability, GateJournal, GateUnreadable, SelectCandidate, LoopEnds,
      AcquireLease, LeaseBusy, RecheckCapability, ReproveRefs, ReproveHolds,
      ActivityIsOld, ActivityIsRecent, ReproveContent, WriteIntent, SyncIntent, CheckArmed,
      DeleteSource, DeleteRefused, ReadBack, ReadBackFails, ProbePresent, ProbeNotPresent,
      LastCheckPasses, LastCheckFails, RestoreSource, RestoreSourceFails, WriteResult,
      SyncResult, ReleaseAndContinue, ReleaseAndStop, ReleaseFails, RelPresent,
      RelNotPresent, RelRestore, RelRestoreFails, RelWriteResult, RelSyncResult, RelReturn,
      UnwindRelease
  <1>4. ASSUME RReadPending(p) PROVE Unfinished(p)'
    <2>1. /\ todo'[p] = {<<a[2], journal[a].cap>> : a \in Pending({plan[p]})}
          /\ pc'[p] = "rNext" /\ UNCHANGED <<plan, journal>>
      BY <1>4 DEF RReadPending
    <2>2. \A a \in Pending({plan[p]}) : a = <<plan[p], a[2]>> /\ journal[a].kind = "intent"
      BY DEF Pending, Action
    <2>3. ASSUME NEW t \in todo'[p] PROVE journal[<<plan[p], t[1]>>].kind = "intent"
      <3>1. PICK a \in Pending({plan[p]}) : t = <<a[2], journal[a].cap>>
        BY <2>1
      <3>2. t[1] = a[2]
        BY <3>1
      <3> QED BY <2>2, <3>2
    <2> QED BY <2>1, <2>3
  <1>5. ASSUME RNextIntent(p) PROVE Unfinished(p)'
    <2>1. PICK intent \in todo[p] :
            /\ idx' = [idx EXCEPT ![p] = intent[1]]
            /\ pc'[p] \in {"rAcquire", "done"}
      BY <1>5 DEF RNextIntent
    <2>2. pc[p] = "rNext" /\ UNCHANGED <<plan, journal, todo>>
      BY <1>5 DEF RNextIntent
    <2> QED BY <2>1, <2>2 DEF Act
  <1>6. ASSUME RWrite(p) PROVE Unfinished(p)'
    <2>1. /\ pc[p] = "rWrite" /\ pc'[p] = "rSync" /\ UNCHANGED <<plan, idx, todo>>
          /\ journal' = [journal EXCEPT ![Act(p)] = Reconciled(stopped[p])]
      BY <1>6 DEF RWrite, WriteEvent
    <2>2. \A t \in todo[p] : t[1] = idx[p] \/ <<plan[p], t[1]>> # Act(p)
      BY DEF Act
    <2>3. \A t \in todo[p] : t[1] = idx[p] \/ (journal'[<<plan[p], t[1]>>]).kind = "intent"
      <3>1. plan[p] \in Plans
        BY <2>1 DEF SoloInv, IInv, WorkOK
      <3>2. \A t \in todo[p] : t[1] \in Candidate
        OBVIOUS
      <3>3. \A t \in todo[p] : <<plan[p], t[1]>> \in Action
        BY <3>1, <3>2 DEF Action
      <3> QED BY <2>1, <2>2, <3>3
    <2> QED BY <2>1, <2>3
  <1>7. ASSUME RRelease(p) PROVE Unfinished(p)'
    BY <1>7 DEF RRelease, Remaining
  <1>8. CASE ReconcileStep(p) /\ ~RReadPending(p) /\ ~RNextIntent(p) /\ ~RWrite(p) /\ ~RRelease(p)
    BY <1>8 DEF ReconcileStep, Guard, GitFails, Busy, SyncEvent, Restore, Acquire, Act,
      RGate, RUnreadable, RFinish, RAcquire, RBusy, RRead, RFetch,
      RNoFetch, RFetchFails, RCreate, RCreateFails, RAfter, RSync, RReleaseFails
  <1>9. CASE ExecuteFault(p) \/ RRaise(p)
    BY <1>9 DEF ExecuteFault, DeleteInterrupted, RaiseInBody, BodyLabels, RaiseInResult, TornAppend, RRaise
  <1>10. CASE Exit(p) \/ Crash(p)
    BY <1>10 DEF Exit, Crash, Vanish
  <1> QED
    BY <1>2, <1>3, <1>4, <1>5, <1>6, <1>7, <1>8, <1>9, <1>10 DEF Command, Fault

LEMMA SoloInit == Init => SoloInv
  <1> SUFFICES ASSUME Init PROVE SoloInv
    OBVIOUS
  <1>1. \A p \in Procs : /\ pc[p] = "idle" /\ stopped[p] = "none" /\ todo[p] = {}
    BY DEF Init
  <1>2. \A p \in Procs : Cleared(p) /\ Honest(p) /\ Unfinished(p)
    BY <1>1 DEF Cleared, Honest, Unfinished, Deciding, Deleting, Reconciling, AfterLook
  <1>3. CutIsAbsent /\ CutIsNamed
    <2>1. \A a \in Action : a[2] \in Candidate /\ a # Nothing
      BY ConstantsAssumption DEF Action
    <2>2. \A b \in Candidate : cutBy[b] = Nothing
      BY DEF Init
    <2> QED BY <2>1, <2>2 DEF CutIsAbsent, CutIsNamed
  <1> QED BY <1>2, <1>3, InitInvariant DEF SoloInv

LEMMA SoloNext ==
  ASSUME OneAtATime, SoloInv, [Next]_vars
  PROVE  SoloInv'
  <1> DEFINE Own(q) == Cleared(q) /\ Honest(q) /\ Unfinished(q)
             Wins  == \E v : \E b \in Candidate : /\ refs' = [refs EXCEPT ![b] = v]
                                                  /\ cutBy' = [cutBy EXCEPT ![b] = Nothing]
  <1>1. IInv'
    BY NextInvariant DEF SoloInv
  <1>2. ASSUME NEW p \in Procs, Launch(p) \/ Command(p) \/ Fault(p) PROVE SoloInv'
    <2>1. Cleared(p)' /\ Honest(p)' /\ Unfinished(p)'
      BY <1>2, ClearedStep, HonestStep, UnfinishedStep
    <2>2. \A q \in Procs : q = p
      BY DEF OneAtATime
    <2>3. \A q \in Procs : Cleared(q)' /\ Honest(q)' /\ Unfinished(q)'
      BY <2>1, <2>2
    <2> QED BY <1>1, <1>2, <2>3, CutStep DEF SoloInv
  <1>3. CASE PowerLoss
    <2>1. \A p \in Procs : pc'[p] = "idle" /\ todo'[p] = {} /\ stopped'[p] = "none"
      BY <1>3 DEF PowerLoss, Vanish
    <2>2. ASSUME NEW p \in Procs PROVE Cleared(p)' /\ Honest(p)' /\ Unfinished(p)'
      BY <2>1 DEF Cleared, Honest, Unfinished, Deciding, Deleting, Reconciling, AfterLook
    <2> QED BY <1>1, <1>3, <2>2, CutOthers DEF SoloInv
  <1>4. ASSUME UNCHANGED <<log, locals>>, UNCHANGED git \/ Wins PROVE SoloInv'
    <2>1. \A b \in Candidate : cutBy'[b] \in {cutBy[b], Nothing}
      <3> cutBy \in [Candidate -> Action \union {Nothing}]
        BY DEF SoloInv, IInv, TypeOK
      <3> QED BY <1>4 DEF git
    <2>2. ASSUME NEW p \in Procs PROVE Cleared(p)' /\ Honest(p)' /\ Unfinished(p)'
      <3>1. Cleared(p) /\ Honest(p) /\ Unfinished(p)
        BY DEF SoloInv
      <3>2. pc[p] \in WorkLabels => idx[p] \in Candidate /\ Act(p) \in Action
        BY ActTypes, AtWork DEF SoloInv
      <3>3. /\ UNCHANGED <<journal, disk, torn, pc, plan, idx, stopped, raised, todo>> /\ Act(p)' = Act(p)
        BY <1>4 DEF log, locals, given, Act
      <3>4. \A a \in Action : IsOpen(a)' <=> IsOpen(a)
        BY <3>3 DEF IsOpen
      <3>5. Cleared(p)'
        BY <2>1, <3>1, <3>2, <3>3, <3>4 DEF Cleared, NothingOpen, IsOpen, AfterLook, WorkLabels
      <3>6. Honest(p)'
        <4>1. Act(p) \in Action => Act(p) # Nothing
          BY ConstantsAssumption
        <4> QED BY <2>1, <3>1, <3>2, <3>3, <4>1 DEF Honest, IsOpen, ResultStatus, WorkLabels
      <3>7. Unfinished(p)'
        BY <3>1, <3>3 DEF Unfinished, IsOpen
      <3> QED BY <3>5, <3>6, <3>7
    <2> QED BY <1>1, <1>4, <2>2, CutOthers DEF SoloInv, git, log
  <1>5. ASSUME NEW c \in Creators, NEW b \in Candidate, Creator(c, b)
        PROVE  UNCHANGED <<log, locals>> /\ (UNCHANGED git \/ Wins)
    BY <1>5 DEF Creator, CreatorBegin, CreatorWrite, CreatorCheckout, CreatorEnd, git
  <1>6. ASSUME Environment, ~PowerLoss PROVE UNCHANGED <<log, locals>> /\ (UNCHANGED git \/ Wins)
    BY <1>6 DEF Environment, HoldEnds, OutsideWrite, OutsideHold, DestinationMoves, CapabilityChanges, git
  <1>7. CASE UNCHANGED vars
    BY <1>4, <1>7 DEF vars, shared
  <1> QED BY <1>2, <1>3, <1>4, <1>5, <1>6, <1>7 DEF Next

LEMMA SoloAlways == ASSUME OneAtATime PROVE Spec => []SoloInv
  BY SoloInit, SoloNext, PTL DEF Spec

\* While commands do not overlap, whatever fails: nothing is deleted unless the journal
\* can be read and its only unfinished intent, of any plan, is that of the deletion.
THEOREM DeletesAlone ==
  ASSUME OneAtATime
  PROVE  Spec => OneUnfinishedAction
  <1> DEFINE Only == \A p \in Procs, b \in Candidate : Deletes(p, b) =>
                       ~torn /\ Pending(Plans) = {Act(p)}
  <1>1. SoloInv /\ [Next]_vars => [Only]_vars
    <2> SUFFICES ASSUME SoloInv, NEW p \in Procs, NEW b \in Candidate, Deletes(p, b)
                 PROVE  ~torn /\ Pending(Plans) = {Act(p)}
      OBVIOUS
    <2>1. pc[p] = "delete" /\ Cleared(p)
      BY DEF Deletes, At, SoloInv
    <2>2. Act(p) \in Action
      BY <2>1, ActTypes DEF SoloInv, WorkLabels
    <2>3. ~torn /\ IsOpen(Act(p)) /\ \A a \in Action : a # Act(p) => ~IsOpen(a)
      BY <2>1 DEF Cleared, Deleting
    <2>4. Pending(Plans) \subseteq Action
      BY DEF Pending
    <2> QED BY <2>2, <2>3, <2>4, PendingOpen
  <1> QED BY <1>1, SoloAlways, PTL DEF Spec, OneUnfinishedAction

\* What closes an intent.
LEMMA ClosingEvent ==
  ASSUME IInv, CutIsNamed, Next, NEW a \in Action, Closes(a), cutBy[a[2]] = a
  PROVE  \E p \in Procs :
           /\ Act(p) = a
           /\ \/ pc[p] = "result" /\ journal'[a].status = ResultStatus(p)
              \/ pc[p] = "rWrite" /\ journal'[a].status = stopped[p]
              \/ pc[p] = "relResult" /\ journal'[a].status = "lease_release_failed"
  <1> /\ journal \in [Action -> Event] /\ journal'[a] # journal[a]
      /\ journal[a].kind = "intent" /\ journal'[a].kind # "intent"
    BY DEF IInv, TypeOK, Closes
  <1>1. ~PowerLoss
    <2>1. PowerLoss => journal'[a] \in {journal[a], disk[a]}
      BY DEF PowerLoss
    <2> QED BY <2>1 DEF CutIsNamed, IsOpen
  <1>2. PICK p \in Procs : Launch(p) \/ Command(p) \/ Fault(p)
    <2>1. ASSUME NEW c \in Creators, NEW b \in Candidate, Creator(c, b) PROVE FALSE
      BY <2>1 DEF Creator, CreatorBegin, CreatorWrite, CreatorCheckout, CreatorEnd, log
    <2>2. ~Environment
      BY <1>1 DEF Environment, HoldEnds, OutsideWrite, OutsideHold, DestinationMoves, CapabilityChanges, log
    <2> QED BY <2>1, <2>2 DEF Next
  <1>3. PICK e : /\ journal' = [journal EXCEPT ![Act(p)] = e]
                 /\ pc[p] = "intent" \/ pc[p] \in {"result", "relResult", "rWrite"}
    BY <1>2, LogSteps
  <1>4. Act(p) = a
    BY <1>3
  <1>5. WriteIntent(p) \/ WriteResult(p) \/ RelWriteResult(p) \/ RWrite(p)
    <2> USE <1>2, <1>3 DEF Quiet, shared, log, At, Go, Conclude
    <2>1. CASE Launch(p)
      BY <2>1 DEF Launch, StartExecute, StartReconcile, Begin
    <2>2. CASE ExecuteStep(p)
      BY <2>2 DEF ExecuteStep, Guard, GitFails, Busy, SyncEvent, Restore, Acquire,
        GateCapability, GateJournal, GateUnreadable, SelectCandidate, LoopEnds,
        AcquireLease, LeaseBusy, RecheckCapability, ReproveRefs, ReproveHolds,
        ActivityIsOld, ActivityIsRecent, ReproveContent, SyncIntent, CheckArmed,
        DeleteSource, DeleteRefused, ReadBack, ReadBackFails, ProbePresent, ProbeNotPresent,
        LastCheckPasses, LastCheckFails, RestoreSource, RestoreSourceFails,
        SyncResult, ReleaseAndContinue, ReleaseAndStop, ReleaseFails, RelPresent,
        RelNotPresent, RelRestore, RelRestoreFails, RelSyncResult, RelReturn, UnwindRelease
    <2>3. CASE ReconcileStep(p)
      BY <2>3 DEF ReconcileStep, Guard, GitFails, Busy, SyncEvent, Restore, Acquire,
        RGate, RReadPending, RUnreadable, RFinish, RNextIntent, RAcquire, RBusy, RRead, RFetch,
        RNoFetch, RFetchFails, RCreate, RCreateFails, RAfter, RSync, RRelease, RReleaseFails
    <2>4. CASE ExecuteFault(p) \/ RRaise(p)
      BY <2>4 DEF ExecuteFault, DeleteInterrupted, RaiseInBody, RaiseInResult, TornAppend, RRaise
    <2>5. CASE Exit(p) \/ Crash(p)
      BY <2>5 DEF Exit, Crash
    <2> QED BY <2>1, <2>2, <2>3, <2>4, <2>5 DEF Command, Fault
  <1>6. CASE WriteIntent(p)
    BY <1>4, <1>6 DEF WriteIntent, WriteEvent, Intent
  <1>7. CASE WriteResult(p)
    BY <1>4, <1>7 DEF WriteResult, WriteEvent, Result, At
  <1>8. CASE RelWriteResult(p)
    BY <1>4, <1>8 DEF RelWriteResult, WriteEvent, Result, At
  <1>9. CASE RWrite(p)
    BY <1>4, <1>9 DEF RWrite, WriteEvent, Reconciled, At
  <1> QED BY <1>5, <1>6, <1>7, <1>8, <1>9

\* While commands do not overlap, whatever fails: an intent whose deletion took place and
\* was not undone is closed only by an event that admits the branch may be missing.
THEOREM ClosedHonestlyAlone ==
  ASSUME OneAtATime
  PROVE  Spec => ClosedHonestly
  <1> DEFINE Admits == \A a \in Action : Closes(a) /\ cutBy[a[2]] = a =>
                         journal'[a].status \in AbsenceStatus
  <1>1. SoloInv /\ [Next]_vars => [Admits]_vars
    <2> SUFFICES ASSUME SoloInv, Next, NEW a \in Action, Closes(a), cutBy[a[2]] = a
                 PROVE  journal'[a].status \in AbsenceStatus
      OBVIOUS
    <2>1. IInv /\ CutIsNamed
      BY DEF SoloInv
    <2>2. PICK p \in Procs :
            /\ Act(p) = a
            /\ \/ pc[p] = "result" /\ journal'[a].status = ResultStatus(p)
               \/ pc[p] = "rWrite" /\ journal'[a].status = stopped[p]
               \/ pc[p] = "relResult" /\ journal'[a].status = "lease_release_failed"
      BY <2>1, ClosingEvent
    <2>3. Honest(p) /\ IsOpen(a) /\ cutBy[idx[p]] = Act(p)
      BY <2>2 DEF SoloInv, Closes, IsOpen, Act
    <2>4. "lease_release_failed" \in AbsenceStatus
      BY DEF AbsenceStatus
    <2> QED BY <2>2, <2>3, <2>4 DEF Honest
  <1> QED BY <1>1, SoloAlways, PTL DEF Spec, ClosedHonestly

\* While commands do not overlap, whatever fails: reconciliation restores a branch only for
\* an intent that is still unfinished, and never one that another action removed.
THEOREM RestoresItsOwn ==
  ASSUME OneAtATime
  PROVE  Spec => RestoresOnlyInterrupted
  <1> DEFINE Interrupted == \A p \in Procs, b \in Candidate : At(p, "rCreate") /\ Restores(p, b) =>
                              journal[Act(p)].kind = "intent" /\ cutBy[b] \in {Act(p), Nothing}
  <1>1. SoloInv /\ [Next]_vars => [Interrupted]_vars
    <2> SUFFICES ASSUME SoloInv, NEW p \in Procs, NEW b \in Candidate,
                        At(p, "rCreate"), Restores(p, b)
                 PROVE  journal[Act(p)].kind = "intent" /\ cutBy[b] \in {Act(p), Nothing}
      OBVIOUS
    <2>1. pc[p] = "rCreate" /\ idx[p] = b
      BY DEF Restores, At
    <2>2. IsOpen(Act(p))
      BY <2>1 DEF SoloInv, Unfinished
    <2>3. Act(p) \in Action /\ Act(p)[2] = b
      BY <2>1, ActTypes DEF SoloInv, WorkLabels, Act
    <2> QED BY <2>2, <2>3 DEF SoloInv, CutIsNamed, IsOpen
  <1> QED BY <1>1, SoloAlways, PTL DEF Spec, RestoresOnlyInterrupted

----------------------------------------------------------------------------
(* The lease.  Commands and creators use the lease of each branch as an    *)
(* abstract lease, which the adapter's three locks implement               *)
(* (BranchLeaseProofs): whoever takes it found it free, and it is free     *)
(* before the next one takes it, also when releases fail, commands die     *)
(* and the power goes.                                                     *)

BranchLeaseOf(b) == INSTANCE Lease WITH Holders <- Procs \union Creators, owner <- lease[b]

\* Whoever has a lease got it from nobody, and leaves it to nobody.
LEMMA LeaseSteps ==
  ASSUME IInv, [Next]_vars, NEW b \in Candidate
  PROVE  \/ lease'[b] = lease[b]
         \/ lease[b] = Nobody /\ lease'[b] \in Procs \union Creators
         \/ lease[b] # Nobody /\ lease'[b] = Nobody
  <1> lease \in [Candidate -> Procs \union Creators \union {Nobody}] /\ pc \in [Procs -> Labels]
      /\ LeaseOwned /\ Nobody \notin Procs \union Creators
    BY ConstantsAssumption DEF IInv, TypeOK
  <1> DEFINE Kept  == lease' = lease
             Taken(h, c) == lease[c] = Nobody /\ lease' = [lease EXCEPT ![c] = h]
             Left(h, c)  == lease[c] = h /\ \E n \in {Nobody, h} : lease' = [lease EXCEPT ![c] = n]
             Dropped == \E P : lease' = [c \in Candidate |-> IF lease[c] \in P THEN Nobody ELSE lease[c]]
             Goal == \/ lease'[b] = lease[b]
                     \/ lease[b] = Nobody /\ lease'[b] \in Procs \union Creators
                     \/ lease[b] # Nobody /\ lease'[b] = Nobody
  <1>1. ASSUME NEW h \in Procs \union Creators, NEW c, Kept \/ Taken(h, c) \/ Left(h, c) \/ Dropped
        PROVE  Goal
    <2>1. CASE Kept
      BY <2>1
    <2>2. CASE Taken(h, c)
      BY <2>2
    <2>3. CASE Left(h, c)
      BY <2>3
    <2>4. CASE Dropped
      BY <2>4
    <2> QED BY <1>1, <2>1, <2>2, <2>3, <2>4
  <1>2. ASSUME NEW p \in Procs, Launch(p) \/ Command(p) \/ Fault(p)
        PROVE  Kept \/ Taken(p, idx[p]) \/ Left(p, idx[p]) \/ Dropped
    <2>1. pc[p] \in LeaseLabels => lease[idx[p]] = p
      BY DEF LeaseOwned
    <2> USE DEF LeaseLabels, Quiet, shared, At, Go, Conclude
    <2> HIDE DEF Dropped
    <2>2. CASE Launch(p)
      BY <2>2 DEF Launch, StartExecute, StartReconcile, Begin
    <2>3. CASE ExecuteStep(p)
      BY <2>1, <2>3 DEF ExecuteStep, Guard, GitFails, Busy, WriteEvent, SyncEvent, Restore, Acquire,
        LeaseFree, Released, ReleaseFailed,
        GateCapability, GateJournal, GateUnreadable, SelectCandidate, LoopEnds,
        AcquireLease, LeaseBusy, RecheckCapability, ReproveRefs, ReproveHolds,
        ActivityIsOld, ActivityIsRecent, ReproveContent, WriteIntent, SyncIntent, CheckArmed,
        DeleteSource, DeleteRefused, ReadBack, ReadBackFails, ProbePresent, ProbeNotPresent,
        LastCheckPasses, LastCheckFails, RestoreSource, RestoreSourceFails, WriteResult,
        SyncResult, ReleaseAndContinue, ReleaseAndStop, ReleaseFails, RelPresent,
        RelNotPresent, RelRestore, RelRestoreFails, RelWriteResult, RelSyncResult, RelReturn,
        UnwindRelease
    <2>4. CASE ReconcileStep(p)
      BY <2>1, <2>4 DEF ReconcileStep, Guard, GitFails, Busy, WriteEvent, SyncEvent, Restore, Acquire,
        LeaseFree, Released, ReleaseFailed,
        RGate, RReadPending, RUnreadable, RFinish, RNextIntent, RAcquire, RBusy, RRead, RFetch,
        RNoFetch, RFetchFails, RCreate, RCreateFails, RAfter, RWrite, RSync, RRelease,
        RReleaseFails
    <2>5. CASE ExecuteFault(p)
      BY <2>5 DEF ExecuteFault, DeleteInterrupted, RaiseInBody, RaiseInResult, TornAppend
    <2>6. CASE RRaise(p)
      BY <2>1, <2>6 DEF RRaise, ReconcileLabels, Released, ReleaseFailed
    <2>7. CASE Exit(p) \/ Crash(p)
      BY <2>7 DEF Exit, Crash, Vanish, Dropped
    <2> QED BY <1>2, <2>2, <2>3, <2>4, <2>5, <2>6, <2>7 DEF Command, Fault
  <1>3. ASSUME NEW h \in Creators, NEW c \in Candidate, Creator(h, c)
        PROVE  Kept \/ Taken(h, c) \/ Left(h, c)
    BY <1>3 DEF Creator, CreatorBegin, CreatorWrite, CreatorCheckout, CreatorEnd
  <1>4. Environment => Kept \/ Dropped
    BY DEF Environment, HoldEnds, OutsideWrite, OutsideHold, DestinationMoves, CapabilityChanges, PowerLoss, Vanish
  <1>5. Kept \/ Dropped => Goal
    OBVIOUS
  <1>6. UNCHANGED vars => Kept
    BY DEF vars, shared
  <1> HIDE DEF Kept, Taken, Left, Dropped
  <1> QED BY <1>1, <1>2, <1>3, <1>4, <1>5, <1>6 DEF Next

\* The lease of every branch is used as the abstract lease promises it.
THEOREM LeasesAreLeases ==
  ASSUME NEW b \in Candidate
  PROVE  Spec => BranchLeaseOf(b)!Spec
  <1>1. Init => BranchLeaseOf(b)!Init
    BY DEF Init, BranchLeaseOf!Init
  <1>2. IInv /\ [Next]_vars => [BranchLeaseOf(b)!Take \/ BranchLeaseOf(b)!GiveUp]_(lease[b])
    BY LeaseSteps DEF BranchLeaseOf!Take, BranchLeaseOf!GiveUp
  <1> QED BY <1>1, <1>2, Invariance, PTL DEF Spec, BranchLeaseOf!Spec
============================================================================
