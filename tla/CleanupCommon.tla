--------------------------- MODULE CleanupCommon ---------------------------
(***************************************************************************)
(* What the cleanup executor and the reconciler share: the refs they       *)
(* change, the per-branch cooperative lease, the append-only journal, the  *)
(* creator capability they revalidate, and the locals of one invocation.   *)
(* Commands are processes: `jg cleanup execute` and `jg cleanup reconcile` *)
(* run as an invocation of some p \in Procs, exit, and may be run again.   *)
(***************************************************************************)
EXTENDS Naturals, FiniteSets

CONSTANTS
  N,             \* candidates of a plan; candidate i is local branch i
  Plans,         \* approved plans over these candidates, one digest each
  Procs,         \* cleanup commands that may be running at the same time
  Creators,      \* processes that take the branch lease (Home Lab creators)
  Caps,          \* creator capabilities (their receipt digests)
  NoCap,         \* no capability can be verified at the moment
  Nobody,        \* the lease of a branch is free
  Nothing,       \* no cleanup action (history variable cutBy)
  ContentExact,  \* candidates whose content is proved in the destination
  BundleExact,   \* candidates the bundle records at their planned tip
  Outside,       \* what processes that take no lease do: values they write to a ref, "held"
  Faults         \* which faults the environment may inject

Candidate == 1..N
Action    == Plans \X Candidate      \* coordinator.cleanup_action_id

(***************************************************************************)
(* A tip is compared only with the tip the plan names, so two values stand *)
(* for all commits.                                                        *)
(***************************************************************************)
Planned == "planned"
Moved   == "moved"
Absent  == "absent"
Tip     == {Planned, Moved}
RefValue == Tip \union {Absent}

(***************************************************************************)
(* A branch is held while it is checked out, or in a stash of the WIP      *)
(* form; the reproof looks for holds once.  The kind is history: a hold is *)
(* late if it began after a command that goes on to delete has looked.     *)
(***************************************************************************)
HoldKind  == {"timely", "late"}
AfterLook == {"activity", "content", "intent", "intentSync", "armed", "delete"}

FaultKinds == {"git", "interrupt", "crash", "power", "release", "torn"}

ASSUME ConstantsAssumption ==
  /\ N \in Nat \ {0}
  /\ NoCap \notin Caps
  /\ Nobody \notin Procs \union Creators
  /\ Procs \intersect Creators = {}
  /\ Nothing \notin Action
  /\ ContentExact \subseteq Candidate
  /\ BundleExact \subseteq Candidate
  /\ Outside \subseteq RefValue \union {"held"}
  /\ Faults \subseteq FaultKinds

VARIABLES
  refs,       \* refs[b]: the local branch ref
  main,       \* the destination ref
  held,       \* held[b]: the kinds of the holds on b
  capability, \* what the resolver would verify now
  lease,      \* lease[b]: whose flock the branch's lock file carries
  journal,    \* journal[a]: the last event about action a, as a reader sees it
  disk,       \* the same, as far as fsync has made it survive power loss
  torn,       \* the file holds a line read_events cannot parse
  cutBy       \* history: the action whose deletion left b absent

world  == <<main, held, capability>>    \* never written by the tool
git    == <<refs, cutBy>>
log    == <<journal, disk, torn>>
shared == <<world, git, log, lease>>

VARIABLES
  pc,        \* where each invocation is
  plan,      \* the plan it was given
  snapshot,  \* the capability its lease adapter was resolved with
  idx,       \* the candidate it works on
  committed, \* delete_committed
  stopped,   \* outcome["stopped"], or the reconciler's status
  raised,    \* an exception is propagating
  deleted,   \* the `deleted` list it will return
  todo       \* the pending intents the reconciler read: <<index, capability>>

given  == <<plan, snapshot>>
locals == <<pc, given, idx, committed, stopped, raised, deleted, todo>>
vars   == <<shared, locals>>

----------------------------------------------------------------------------
(* Events of the journal. `status` says how an action was closed.          *)

PreconditionStatus ==
  {"creator_capability_changed", "source_tip_changed_or_missing",
   "destination_tip_changed", "checked_out", "recent_or_unverifiable_activity",
   "live_content_not_exact", "source_delete_race", "delete_verification_uncertain"}

\* The record admits that the branch may be missing.
AbsenceStatus ==
  {"deleted", "delete_readback_uncertain", "lease_release_failed",
   "creator_capability_changed_after_delete", "restore_uncertain"}

PresenceStatus ==
  {"source_unchanged", "source_recreated_or_moved",
   "source_restored_after_interruption", "source_recreated_during_reconcile"}

Status == PreconditionStatus \union AbsenceStatus \union PresenceStatus

\* Outcomes that no journal event records.
ReturnedStatus ==
  {"none", "raised", "cooperative_lease_unestablished",
   "interrupted_cleanup_reconciliation_required", "lease_not_acquired"}

Event == [kind   : {"blank", "intent", "result", "reconciled"},
          status : Status \union {"none"},
          cap    : Caps \union {NoCap}]

Blank         == [kind |-> "blank", status |-> "none", cap |-> NoCap]
Intent(c)     == [kind |-> "intent", status |-> "none", cap |-> c]
Result(s)     == [kind |-> "result", status |-> s, cap |-> NoCap]
Reconciled(s) == [kind |-> "reconciled", status |-> s, cap |-> NoCap]

Act(p) == <<plan[p], idx[p]>>

\* CleanupActionJournal.pending_intents: intents of these plans with no closing event.
Pending(P) == {a \in Action : a[1] \in P /\ journal[a].kind = "intent"}

\* read_events: one malformed line makes the whole journal unreadable.
Readable == ~torn

----------------------------------------------------------------------------
(* Control flow.  An invocation goes on to a label, or settles on a status *)
(* first; most steps change nothing else.                                  *)

At(p, here)             == pc[p] = here
Proceed(p, next)        == pc' = [pc EXCEPT ![p] = next] /\ UNCHANGED stopped
Settle(p, status, next) == /\ pc' = [pc EXCEPT ![p] = next]
                           /\ stopped' = [stopped EXCEPT ![p] = status]
Quiet                   == UNCHANGED <<shared, given, idx, committed, raised, deleted, todo>>

Go(p, here, next)               == At(p, here) /\ Proceed(p, next) /\ Quiet
Conclude(p, here, status, next) == At(p, here) /\ Settle(p, status, next) /\ Quiet

\* Go on if `ok`, otherwise settle on `status`.
Guard(p, here, ok, next, status, other) ==
  /\ At(p, here)
  /\ IF ok THEN Go(p, here, next) ELSE Conclude(p, here, status, other)

\* A git command that failed without touching a ref.
GitFails(p, here, next) == "git" \in Faults /\ Go(p, here, next)

\* production_capability_diagnostic: what can be verified now is what the lease holds.
Current(p) == capability = snapshot[p]

\* A command starts: the resolver must verify a capability for the lease adapter.
Begin(p, pl, entry) ==
  /\ At(p, "idle")
  /\ capability \in Caps
  /\ Proceed(p, entry)
  /\ plan' = [plan EXCEPT ![p] = pl]
  /\ snapshot' = [snapshot EXCEPT ![p] = capability]
  /\ UNCHANGED <<shared, idx, committed, raised, deleted, todo>>

----------------------------------------------------------------------------
(* Journal append: the line is written, then the file (and every earlier   *)
(* line with it) is fsynced.                                               *)

WriteEvent(p, here, event, next) ==
  /\ At(p, here)
  /\ journal' = [journal EXCEPT ![Act(p)] = event]
  /\ Proceed(p, next)
  /\ UNCHANGED <<world, git, lease, disk, torn, given, idx, committed, raised, deleted, todo>>

Bug_NoSync == disk
Synced     == journal

SyncEvent(p, here, next) ==
  /\ At(p, here)
  /\ disk' = Synced
  /\ Proceed(p, next)
  /\ UNCHANGED <<world, git, lease, journal, torn, given, idx, committed, raised, deleted, todo>>

----------------------------------------------------------------------------
(* Refs.  Every write of the tool is a compare-and-swap of update-ref.     *)

\* _atomic_delete: verify the destination and delete the source in one transaction.
TransactionHolds(b) == refs[b] = Planned /\ main = Planned

CutRef(p) ==
  /\ TransactionHolds(idx[p])
  /\ refs' = [refs EXCEPT ![idx[p]] = Absent]
  /\ cutBy' = [cutBy EXCEPT ![idx[p]] = Act(p)]

\* _atomic_restore: create the ref only if it does not exist.
Bug_ForceRestore(b) == TRUE
RestoreApplies(b)   == refs[b] = Absent

Restore(p, here, next) ==
  /\ At(p, here)
  /\ refs' = IF RestoreApplies(idx[p]) THEN [refs EXCEPT ![idx[p]] = Planned] ELSE refs
  /\ cutBy' = IF RestoreApplies(idx[p]) THEN [cutBy EXCEPT ![idx[p]] = Nothing] ELSE cutBy
  /\ Proceed(p, next)
  /\ UNCHANGED <<world, log, lease, given, idx, committed, raised, todo>>

----------------------------------------------------------------------------
(* The branch lease, as CooperativeBranchLeaseAdapter promises it.         *)

Bug_NoFlock(p) == TRUE
LeaseFree(p)   == lease[idx[p]] = Nobody

Acquire(p, here, next) ==
  /\ At(p, here)
  /\ LeaseFree(p)
  /\ lease' = [lease EXCEPT ![idx[p]] = p]
  /\ Proceed(p, next)
  /\ UNCHANGED <<world, git, log, given, idx, committed, raised, deleted, todo>>

\* The lock stays busy until the adapter's deadline.
Busy(p, here, status) == Conclude(p, here, status, "done") /\ ~LeaseFree(p)

\* release returned True; or it failed and dropped the flock or leaked it.
Released(p)      == lease' = [lease EXCEPT ![idx[p]] = Nobody]
ReleaseFailed(p) == /\ "release" \in Faults
                    /\ \E left \in {Nobody, p} : lease' = [lease EXCEPT ![idx[p]] = left]

----------------------------------------------------------------------------
\* The processes in P are gone: the kernel drops their flocks, memory is lost.
Vanish(P) ==
  /\ lease'     = [b \in Candidate |-> IF lease[b] \in P THEN Nobody ELSE lease[b]]
  /\ pc'        = [p \in Procs |-> IF p \in P THEN "idle" ELSE pc[p]]
  /\ plan'      = [p \in Procs |-> IF p \in P THEN Nothing ELSE plan[p]]
  /\ snapshot'  = [p \in Procs |-> IF p \in P THEN NoCap ELSE snapshot[p]]
  /\ idx'       = [p \in Procs |-> IF p \in P THEN 1 ELSE idx[p]]
  /\ committed' = [p \in Procs |-> IF p \in P THEN FALSE ELSE committed[p]]
  /\ stopped'   = [p \in Procs |-> IF p \in P THEN "none" ELSE stopped[p]]
  /\ raised'    = [p \in Procs |-> IF p \in P THEN FALSE ELSE raised[p]]
  /\ deleted'   = [p \in Procs |-> IF p \in P THEN {} ELSE deleted[p]]
  /\ todo'      = [p \in Procs |-> IF p \in P THEN {} ELSE todo[p]]

\* The command returns its report (or dies of its exception) and the process exits.
Exit(p) ==
  /\ At(p, "done")
  /\ Vanish({p})
  /\ UNCHANGED <<world, git, log>>
============================================================================
