--------------------------- MODULE CleanupExecute ---------------------------
(***************************************************************************)
(* execute_cleanup: the guarded deletion of a plan's candidates, one git   *)
(* command, lease check, journal write or fsync per action.  Between any   *)
(* two of them other commands, creators, git processes and faults move.    *)
(***************************************************************************)
EXTENDS CleanupCommon

StartExecute(p, pl) == Begin(p, pl, "gate")

\* Without a current lease the command only reports the plan.
GateCapability(p) ==
  Guard(p, "gate", Current(p), "pending", "cooperative_lease_unestablished", "done")

\* Any unfinished intent, of whichever plan, blocks the execution.
Bug_OwnPlanOnly(p) == Pending({plan[p]})
Bug_NoBlocking(p)  == {}
Blocking(p)        == Pending(Plans)

GateJournal(p) ==
  /\ Readable
  /\ Guard(p, "pending", Blocking(p) = {}, "select",
           "interrupted_cleanup_reconciliation_required", "done")

GateUnreadable(p) == ~Readable /\ Conclude(p, "pending", "raised", "done")

\* Head of the loop over the candidates.
SelectCandidate(p) ==
  /\ idx[p] <= N
  /\ Guard(p, "select", Current(p), "acquire", "creator_capability_changed", "done")

LoopEnds(p) == idx[p] > N /\ Go(p, "select", "done")

AcquireLease(p) == Acquire(p, "acquire", "recheck")
LeaseBusy(p)    == Busy(p, "acquire", "lease_not_acquired")

RecheckCapability(p) ==
  Guard(p, "recheck", Current(p), "refs", "creator_capability_changed", "result")

----------------------------------------------------------------------------
(* _live_reproof: the tips (one for-each-ref), worktrees and stashes, the  *)
(* activity, which may be recent or unreadable at any time, the content.   *)

ReproveRefs(p) ==
  Guard(p, "refs", refs[idx[p]] = Planned /\ main = Planned, "holds",
        IF refs[idx[p]] # Planned THEN "source_tip_changed_or_missing"
                                  ELSE "destination_tip_changed", "result")

Bug_IgnoreHolds(b) == TRUE
NoHold(b)          == held[b] = {}

ReproveHolds(p)    == Guard(p, "holds", NoHold(idx[p]), "activity", "checked_out", "result")
ActivityIsOld(p)   == Go(p, "activity", "content")
ActivityIsRecent(p) ==
  Conclude(p, "activity", "recent_or_unverifiable_activity", "result")
ReproveContent(p) ==
  Guard(p, "content", idx[p] \in ContentExact, "intent", "live_content_not_exact", "result")

----------------------------------------------------------------------------
(* Intent, deletion, readback                                              *)

WriteIntent(p) == WriteEvent(p, "intent", Intent(snapshot[p]), "intentSync")
SyncIntent(p)  == SyncEvent(p, "intentSync", "armed")

CheckArmed(p) ==
  Guard(p, "armed", Current(p), "delete", "creator_capability_changed", "result")

DeleteSource(p) ==
  /\ At(p, "delete")
  /\ CutRef(p)
  /\ committed' = [committed EXCEPT ![p] = TRUE]
  /\ Proceed(p, "readback")
  /\ UNCHANGED <<world, log, lease, given, idx, raised, deleted, todo>>

\* update-ref refuses the transaction, or fails without touching a ref.
DeleteRefused(p) ==
  /\ Conclude(p, "delete", "source_delete_race", "result")
  /\ TransactionHolds(idx[p]) => "git" \in Faults

\* An interrupt reaches the command after git committed and before it returned.
DeleteInterrupted(p) ==
  /\ "interrupt" \in Faults
  /\ At(p, "delete")
  /\ CutRef(p)
  /\ raised' = [raised EXCEPT ![p] = TRUE]
  /\ Proceed(p, "release")
  /\ UNCHANGED <<world, log, lease, given, idx, committed, deleted, todo>>

ReadBack(p) ==
  Guard(p, "readback", refs[idx[p]] = Absent, "lastCheck",
        "delete_verification_uncertain", "result")

ReadBackFails(p) ==
  /\ "git" \in Faults
  /\ Conclude(p, "readback", "delete_readback_uncertain", "probe")

\* _ref_presence: restore unless the ref is seen; a timed-out probe sees nothing.
ProbePresent(p)    == Go(p, "probe", "result") /\ refs[idx[p]] # Absent
ProbeNotPresent(p) == Go(p, "probe", "restore")

LastCheckPasses(p) ==
  /\ At(p, "lastCheck")
  /\ Current(p)
  /\ deleted' = [deleted EXCEPT ![p] = @ \union {idx[p]}]
  /\ Proceed(p, "result")
  /\ UNCHANGED <<shared, given, idx, committed, raised, todo>>

LastCheckFails(p) ==
  /\ ~Current(p)
  /\ Conclude(p, "lastCheck", "creator_capability_changed_after_delete", "restore")

RestoreSource(p)      == Restore(p, "restore", "result") /\ UNCHANGED deleted
RestoreSourceFails(p) == GitFails(p, "restore", "result")

----------------------------------------------------------------------------
(* The finally block: result, release, and what a failed release leads to  *)

ResultStatus(p) == IF stopped[p] = "none" THEN "deleted" ELSE stopped[p]

WriteResult(p) == WriteEvent(p, "result", Result(ResultStatus(p)), "resultSync")
SyncResult(p)  == SyncEvent(p, "resultSync", "release")

\* The next candidate, unless an outcome or an exception ends the loop.
NextCandidate(p) == [idx EXCEPT ![p] = @ + 1]

ReleaseAndContinue(p) ==
  /\ At(p, "release")
  /\ ~raised[p] /\ stopped[p] = "none"
  /\ Released(p)
  /\ Proceed(p, "select")
  /\ idx' = NextCandidate(p)
  /\ committed' = [committed EXCEPT ![p] = FALSE]
  /\ UNCHANGED <<world, git, log, given, raised, deleted, todo>>

ReleaseAndStop(p) ==
  /\ At(p, "release")
  /\ raised[p] \/ stopped[p] # "none"
  /\ Released(p)
  /\ Settle(p, IF raised[p] THEN "raised" ELSE stopped[p], "done")
  /\ UNCHANGED <<world, git, log, given, idx, committed, raised, deleted, todo>>

ReleaseFails(p) ==
  /\ At(p, "release")
  /\ ReleaseFailed(p)
  /\ Proceed(p, "relProbe")
  /\ UNCHANGED <<world, git, log, given, idx, committed, raised, deleted, todo>>

\* Presence is probed only after a committed delete; not seen means restore.
RelPresent(p) ==
  /\ committed[p] => refs[idx[p]] # Absent
  /\ Go(p, "relProbe", "relResult")
RelNotPresent(p) ==
  committed[p] /\ Go(p, "relProbe", "relRestore")

\* A restored branch is dropped from the list the command reports.
Bug_KeepReport(p)     == deleted
ReportAfterRestore(p) ==
  IF RestoreApplies(idx[p]) THEN [deleted EXCEPT ![p] = @ \ {idx[p]}] ELSE deleted

RelRestore(p)      == Restore(p, "relRestore", "relResult") /\ deleted' = ReportAfterRestore(p)
RelRestoreFails(p) == GitFails(p, "relRestore", "relResult")
RelWriteResult(p)  == WriteEvent(p, "relResult", Result("lease_release_failed"), "relSync")
RelSyncResult(p)   == SyncEvent(p, "relSync", "relReturn")
RelReturn(p)       ==
  Conclude(p, "relReturn", IF raised[p] THEN "raised" ELSE "lease_release_failed", "done")

----------------------------------------------------------------------------
(* Exceptions.  In the try block: no result event, the lease is released,  *)
(* and a failed release still writes its own result.  In the result append *)
(* of the finally block: the lease is released and nothing more is done.   *)

BodyLabels ==
  {"recheck", "refs", "holds", "activity", "content", "intent", "intentSync", "armed",
   "delete", "readback", "probe", "lastCheck", "restore"}

RaiseInBody(p) ==
  /\ "interrupt" \in Faults
  /\ pc[p] \in BodyLabels
  /\ raised' = [raised EXCEPT ![p] = TRUE]
  /\ Proceed(p, "release")
  /\ UNCHANGED <<shared, given, idx, committed, deleted, todo>>

RaiseInResult(p) ==
  /\ "interrupt" \in Faults
  /\ pc[p] \in {"result", "resultSync"}
  /\ Proceed(p, "unwind")
  /\ Quiet

UnwindRelease(p) ==
  /\ At(p, "unwind")
  /\ Released(p) \/ ReleaseFailed(p)
  /\ Settle(p, "raised", "done")
  /\ UNCHANGED <<world, git, log, given, idx, committed, raised, deleted, todo>>

\* The disk fills in the middle of a line: append raises and the stump stays.
TornAppend(p) ==
  /\ "torn" \in Faults
  /\ \/ At(p, "intent") /\ Proceed(p, "release") /\ raised' = [raised EXCEPT ![p] = TRUE]
     \/ At(p, "result") /\ Proceed(p, "unwind") /\ UNCHANGED raised
     \/ At(p, "relResult") /\ Settle(p, "raised", "done") /\ UNCHANGED raised
  /\ torn' = TRUE
  /\ UNCHANGED <<world, git, lease, journal, disk, given, idx, committed, deleted, todo>>

----------------------------------------------------------------------------
ExecuteStep(p) ==
  \/ GateCapability(p) \/ GateJournal(p) \/ GateUnreadable(p)
  \/ SelectCandidate(p) \/ LoopEnds(p) \/ AcquireLease(p) \/ LeaseBusy(p)
  \/ RecheckCapability(p) \/ ReproveRefs(p) \/ ReproveHolds(p)
  \/ ActivityIsOld(p) \/ ActivityIsRecent(p) \/ ReproveContent(p)
  \/ WriteIntent(p) \/ SyncIntent(p) \/ CheckArmed(p)
  \/ DeleteSource(p) \/ DeleteRefused(p) \/ ReadBack(p) \/ ReadBackFails(p)
  \/ ProbePresent(p) \/ ProbeNotPresent(p) \/ LastCheckPasses(p) \/ LastCheckFails(p)
  \/ RestoreSource(p) \/ RestoreSourceFails(p) \/ WriteResult(p) \/ SyncResult(p)
  \/ ReleaseAndContinue(p) \/ ReleaseAndStop(p) \/ ReleaseFails(p)
  \/ RelPresent(p) \/ RelNotPresent(p) \/ RelRestore(p) \/ RelRestoreFails(p)
  \/ RelWriteResult(p) \/ RelSyncResult(p) \/ RelReturn(p) \/ UnwindRelease(p)

ExecuteFault(p) ==
  \/ DeleteInterrupted(p) \/ RaiseInBody(p) \/ RaiseInResult(p) \/ TornAppend(p)
=============================================================================
