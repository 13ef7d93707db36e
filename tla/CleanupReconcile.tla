-------------------------- MODULE CleanupReconcile --------------------------
(***************************************************************************)
(* reconcile_interrupted_cleanup: for every unfinished intent of the plan, *)
(* look at the branch under its lease, restore it from the bundle if it is *)
(* absent, and close the intent.  It never deletes.                        *)
(***************************************************************************)
EXTENDS CleanupCommon

StartReconcile(p, pl) == Begin(p, pl, "rGate")

RGate(p) == Guard(p, "rGate", Current(p), "rPending", "raised", "done")

\* The list is read once, before any lease is taken.
RReadPending(p) ==
  /\ At(p, "rPending")
  /\ Readable
  /\ todo' = [todo EXCEPT ![p] = {<<a[2], journal[a].cap>> : a \in Pending({plan[p]})}]
  /\ Proceed(p, "rNext")
  /\ UNCHANGED <<shared, given, idx, committed, raised, deleted>>

RUnreadable(p) == ~Readable /\ Conclude(p, "rPending", "raised", "done")

RFinish(p) == todo[p] = {} /\ Go(p, "rNext", "done")

\* The intent must carry the capability the lease was resolved with, still current.
Matches(p, cap) == cap = snapshot[p] /\ Current(p)

RNextIntent(p) ==
  /\ At(p, "rNext")
  /\ \E intent \in todo[p] :
       /\ idx' = [idx EXCEPT ![p] = intent[1]]
       /\ IF Matches(p, intent[2]) THEN Proceed(p, "rAcquire") ELSE Settle(p, "raised", "done")
  /\ UNCHANGED <<shared, given, committed, raised, deleted, todo>>

RAcquire(p) == Acquire(p, "rAcquire", "rRead")
RBusy(p)    == Busy(p, "rAcquire", "raised")

RRead(p) ==
  Guard(p, "rRead", refs[idx[p]] = Absent, "rFetch",
        IF refs[idx[p]] = Planned THEN "source_unchanged" ELSE "source_recreated_or_moved",
        "rWrite")

\* _restore_from_bundle: the ref is still absent and the imported tip is the planned one.
Restorable(b)   == refs[b] = Absent /\ b \in BundleExact
RFetch(p)       == Go(p, "rFetch", "rCreate") /\ Restorable(idx[p])
RNoFetch(p)     == Go(p, "rFetch", "rAfter") /\ ~Restorable(idx[p])
RFetchFails(p)  == GitFails(p, "rFetch", "rAfter")
RCreate(p)      == Restore(p, "rCreate", "rAfter") /\ UNCHANGED deleted
RCreateFails(p) == GitFails(p, "rCreate", "rAfter")

\* The status tells what is there now, not what the restore returned.
RestoreStatus(p) ==
  CASE refs[idx[p]] = Planned -> "source_restored_after_interruption"
    [] refs[idx[p]] = Moved   -> "source_recreated_during_reconcile"
    [] refs[idx[p]] = Absent  -> "restore_uncertain"

RAfter(p) == Conclude(p, "rAfter", RestoreStatus(p), "rWrite")

RWrite(p) == WriteEvent(p, "rWrite", Reconciled(stopped[p]), "rSync")
RSync(p)  == SyncEvent(p, "rSync", "rRelease")

Remaining(p)      == {intent \in todo[p] : intent[1] # idx[p]}

RRelease(p) ==
  /\ At(p, "rRelease")
  /\ Released(p)
  /\ todo' = [todo EXCEPT ![p] = Remaining(p)]
  /\ Settle(p, "none", "rNext")
  /\ UNCHANGED <<world, git, log, given, idx, committed, raised, deleted>>

RReleaseFails(p) ==
  /\ At(p, "rRelease")
  /\ ReleaseFailed(p)
  /\ Settle(p, "raised", "done")
  /\ UNCHANGED <<world, git, log, given, idx, committed, raised, deleted, todo>>

\* Any exception under the lease leaves the intent unfinished and releases the lease.
ReconcileLabels == {"rRead", "rFetch", "rCreate", "rAfter", "rWrite", "rSync"}

RRaise(p) ==
  /\ \/ "interrupt" \in Faults /\ pc[p] \in ReconcileLabels /\ UNCHANGED torn
     \/ "torn" \in Faults /\ At(p, "rWrite") /\ torn' = TRUE
  /\ Released(p) \/ ReleaseFailed(p)
  /\ Settle(p, "raised", "done")
  /\ UNCHANGED <<world, git, journal, disk, given, idx, committed, raised, deleted, todo>>

ReconcileStep(p) ==
  \/ RGate(p) \/ RReadPending(p) \/ RUnreadable(p) \/ RFinish(p) \/ RNextIntent(p)
  \/ RAcquire(p) \/ RBusy(p) \/ RRead(p) \/ RFetch(p) \/ RNoFetch(p) \/ RFetchFails(p)
  \/ RCreate(p) \/ RCreateFails(p) \/ RAfter(p) \/ RWrite(p) \/ RSync(p)
  \/ RRelease(p) \/ RReleaseFails(p)
=============================================================================
