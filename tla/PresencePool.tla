---------------------------- MODULE PresencePool ----------------------------
(***************************************************************************)
(* presence.execute_presence_preview: approved requests go out through a   *)
(* pool of worker threads, and a checkpoint names every request before it  *)
(* is submitted.  The main thread records, submits and settles; workers    *)
(* revalidate evidence, send and wait.  A run that finds an uncertain      *)
(* request in the checkpoint refuses to go on.  Nothing keeps two runs     *)
(* apart: the checkpoint has no lock.                                      *)
(***************************************************************************)
EXTENDS Integers, Sequences, FiniteSets

CONSTANTS
  Procs,       \* executions, each started again and again
  Previews,
  Requests,
  RequestsOf,  \* RequestsOf[v]: the requests of preview v, in order
  MaxWorkers,  \* --max-workers
  NoFile, NoPreview, NoRequest,
  Faults       \* subset of {"save", "provider", "evidence", "interrupt", "crash", "power"}

Statuses == {"none", "uncertain", "succeeded", "not_dispatched"}
Ledgers  == [source : Previews, status : [Requests -> Statuses], network : BOOLEAN]

ASSUME PoolAssumption ==
  /\ RequestsOf \in [Previews -> Seq(Requests)]
  /\ IsFiniteSet(Requests)
  /\ MaxWorkers \in 1..8
  /\ NoFile \notin Ledgers /\ NoPreview \notin Previews /\ NoRequest \notin Requests

VARIABLES
  visible,  \* the ledger that opening the checkpoint reads
  durable,  \* the ledger that a power loss leaves
  pc,       \* the main thread of each execution
  preview,
  mem,      \* the ledger in memory
  cur,      \* the request being recorded
  worker,   \* worker[p][r]: the future of request r
  done,     \* the futures the last wait returned and the loop has not settled
  stop,     \* stop_scheduling
  sent,     \* history: how often each request was sent
  seen      \* history: the requests that had been sent when p loaded the checkpoint

files  == <<visible, durable>>
locals == <<preview, mem, cur, worker, done, stop, seen>>
vars   == <<files, pc, locals, sent>>

NoWorkers == [r \in Requests |-> "none"]

Init ==
  /\ visible = NoFile
  /\ durable = NoFile
  /\ pc = [p \in Procs |-> "idle"]
  /\ preview = [p \in Procs |-> NoPreview]
  /\ mem = [p \in Procs |-> NoFile]
  /\ cur = [p \in Procs |-> NoRequest]
  /\ worker = [p \in Procs |-> NoWorkers]
  /\ done = [p \in Procs |-> {}]
  /\ stop = [p \in Procs |-> FALSE]
  /\ sent = [r \in Requests |-> 0]
  /\ seen = [p \in Procs |-> {}]

At(p, here)   == pc[p] = here
Goto(p, next) == pc' = [pc EXCEPT ![p] = next]

NewLedger(v) == [source |-> v, status |-> [r \in Requests |-> "none"], network |-> FALSE]
Requested(p) == RequestsOf[preview[p]]

\* Positions of the requests that the ledger does not name.
Bug_AnswersOnly(p) == {i \in DOMAIN Requested(p) : mem[p].status[Requested(p)[i]] # "succeeded"}
Pending(p)         == {i \in DOMAIN Requested(p) : mem[p].status[Requested(p)[i]] = "none"}

\* `futures` of the code: submitted and not yet popped; those that wait returns.
Finished     == {"ok", "failed", "unsent"}
Bug_NotPopped(p) == {r \in Requests : worker[p][r] \in {"queued", "sent", "settled"}}
Running(p)   == {r \in Requests : worker[p][r] \in {"queued", "sent"}}
Completed(p) == {r \in Requests : worker[p][r] \in Finished}
InFlight(p)  == Running(p) \union Completed(p)

\* The executions in P are over and their memory is gone.
Forget(P) ==
  /\ pc'      = [p \in Procs |-> IF p \in P THEN "idle" ELSE pc[p]]
  /\ preview' = [p \in Procs |-> IF p \in P THEN NoPreview ELSE preview[p]]
  /\ mem'     = [p \in Procs |-> IF p \in P THEN NoFile ELSE mem[p]]
  /\ cur'     = [p \in Procs |-> IF p \in P THEN NoRequest ELSE cur[p]]
  /\ worker'  = [p \in Procs |-> IF p \in P THEN NoWorkers ELSE worker[p]]
  /\ done'    = [p \in Procs |-> IF p \in P THEN {} ELSE done[p]]
  /\ stop'    = [p \in Procs |-> IF p \in P THEN FALSE ELSE stop[p]]
  /\ seen'    = [p \in Procs |-> IF p \in P THEN {} ELSE seen[p]]

----------------------------------------------------------------------------
(* The main thread, before the pool.                                       *)

Start(p) ==
  /\ At(p, "idle")
  /\ \E v \in Previews : preview' = [preview EXCEPT ![p] = v]
  /\ Goto(p, "load")
  /\ UNCHANGED <<files, mem, cur, worker, done, stop, seen, sent>>

Usable(p) == visible # NoFile => visible.source = preview[p]

Bug_Unblocked(l) == FALSE
Uncertain(l)     == \E r \in Requests : l.status[r] = "uncertain"

Bug_StartAgain(p) == NewLedger(preview[p])
Loaded(p)         == IF visible = NoFile THEN NewLedger(preview[p]) ELSE visible

Load(p) ==
  /\ At(p, "load") /\ Usable(p)
  /\ mem' = [mem EXCEPT ![p] = Loaded(p)]
  /\ seen' = [seen EXCEPT ![p] = {r \in Requests : sent[r] > 0}]
  /\ Goto(p, IF Uncertain(Loaded(p)) THEN "saveBlocked" ELSE "schedule")
  /\ UNCHANGED <<files, preview, cur, worker, done, stop, sent>>

\* The checkpoint is another preview's, or the SDK fails its local preflight.
Refuse(p) ==
  /\ At(p, "load")
  /\ Usable(p) => "provider" \in Faults
  /\ Forget({p})
  /\ UNCHANGED <<files, sent>>

----------------------------------------------------------------------------
(* The main thread, with the pool.                                         *)

Bug_IgnoreStop(p) == Cardinality(InFlight(p)) < MaxWorkers
MaySubmit(p)      == ~stop[p] /\ Cardinality(InFlight(p)) < MaxWorkers

\* submit_one: the attempt goes into the ledger as uncertain, and the ledger to disk.
Record(p) ==
  /\ At(p, "schedule") /\ MaySubmit(p)
  /\ \E i \in Pending(p) :
       /\ \A j \in Pending(p) : i <= j
       /\ cur' = [cur EXCEPT ![p] = Requested(p)[i]]
       /\ mem' = [mem EXCEPT ![p].status[Requested(p)[i]] = "uncertain"]
  /\ Goto(p, "saveAttempt")
  /\ UNCHANGED <<files, preview, worker, done, stop, seen, sent>>

Scheduled(p) ==
  /\ At(p, "schedule")
  /\ MaySubmit(p) => Pending(p) = {}
  /\ Goto(p, "wait")
  /\ UNCHANGED <<files, locals, sent>>

\* concurrent.futures.wait returns every future that has completed by then.
Collect(p) ==
  /\ At(p, "wait") /\ Completed(p) # {}
  /\ done' = [done EXCEPT ![p] = Completed(p)]
  /\ Goto(p, "settle")
  /\ UNCHANGED <<files, preview, mem, cur, worker, stop, seen, sent>>

\* What a result makes of its attempt: only a request that never left is not uncertain.
Bug_FailureIsNotDispatched ==
  [ok |-> "succeeded", failed |-> "not_dispatched", unsent |-> "not_dispatched"]
StatusOf == [ok |-> "succeeded", failed |-> "uncertain", unsent |-> "not_dispatched"]

Bug_LastDispatched(l, r, result) == result # "unsent"
NetworkUsed(l, r, result)        == l.network \/ result # "unsent"

Settle(p) ==
  /\ At(p, "settle")
  /\ \E r \in done[p] :
       LET result == worker[p][r] IN
       /\ done' = [done EXCEPT ![p] = @ \ {r}]
       /\ worker' = [worker EXCEPT ![p][r] = "settled"]
       /\ stop' = [stop EXCEPT ![p] = @ \/ result # "ok"]
       /\ mem' = [mem EXCEPT ![p].status[r] = StatusOf[result],
                             ![p].network = NetworkUsed(mem[p], r, result)]
  /\ Goto(p, "saveResult")
  /\ UNCHANGED <<files, preview, cur, seen, sent>>

Settled(p) ==
  /\ At(p, "settle") /\ done[p] = {}
  /\ Goto(p, "schedule")
  /\ UNCHANGED <<files, locals, sent>>

\* No future is left: the final budgets are saved.
Finish(p) ==
  /\ At(p, "wait") /\ InFlight(p) = {}
  /\ Goto(p, "saveFinal")
  /\ UNCHANGED <<files, locals, sent>>

----------------------------------------------------------------------------
(* _write_checkpoint: a synced temporary file replaces the checkpoint, and *)
(* its directory is synced.                                                *)

SyncOf  == [saveBlocked |-> "syncBlocked", saveAttempt |-> "syncAttempt",
            saveResult  |-> "syncResult",  saveFinal   |-> "syncFinal"]
Saving  == DOMAIN SyncOf
Syncing == {SyncOf[l] : l \in Saving}
Pooled  == {"schedule", "wait", "settle", "saveAttempt", "syncAttempt", "saveResult", "syncResult"}

Replace(p) ==
  /\ pc[p] \in Saving
  /\ visible' = mem[p]
  /\ Goto(p, SyncOf[pc[p]])
  /\ UNCHANGED <<durable, locals, sent>>

Synced == visible

\* The attempt is on disk: its request goes to the pool.
Submit(p) ==
  /\ At(p, "syncAttempt")
  /\ durable' = Synced
  /\ worker' = [worker EXCEPT ![p][cur[p]] = "queued"]
  /\ Goto(p, "schedule")
  /\ UNCHANGED <<visible, preview, mem, cur, done, stop, seen, sent>>

Persisted(p) ==
  /\ \/ At(p, "syncResult") /\ Goto(p, "settle")
     \/ At(p, "syncFinal") /\ Goto(p, "done")
  /\ durable' = Synced
  /\ UNCHANGED <<visible, locals, sent>>

Blocked(p) ==
  /\ At(p, "syncBlocked")
  /\ durable' = Synced
  /\ Forget({p})
  /\ UNCHANGED <<visible, sent>>

\* A save fails, or the operator interrupts: inside the pool's `with` the main thread
\* waits for its workers before it gives up; elsewhere it is over at once.
Raise(p) ==
  /\ \/ "save" \in Faults /\ pc[p] \in Saving \union Syncing
     \/ "interrupt" \in Faults /\ pc[p] \in Pooled
  /\ IF pc[p] \in Pooled THEN Goto(p, "drain") /\ UNCHANGED locals ELSE Forget({p})
  /\ UNCHANGED <<files, sent>>

\* shutdown(wait=True): results that arrive now are settled by nobody.
Drained(p) ==
  /\ At(p, "drain") /\ Running(p) = {}
  /\ Forget({p})
  /\ UNCHANGED <<files, sent>>

Exit(p) ==
  /\ At(p, "done")
  /\ Forget({p})
  /\ UNCHANGED <<files, sent>>

----------------------------------------------------------------------------
(* invoke, in a worker thread.                                             *)

Becomes(p, r, before, after) ==
  /\ worker[p][r] = before
  /\ worker' = [worker EXCEPT ![p][r] = after]
  /\ UNCHANGED <<files, pc, preview, mem, cur, done, stop, seen>>

\* The pinned evidence still stands, and the request goes out ...
Send(p, r) ==
  /\ Becomes(p, r, "queued", "sent")
  /\ sent' = [sent EXCEPT ![r] = @ + 1]

\* ... or it does not, and nothing is sent.
StaleEvidence(p, r) ==
  "evidence" \in Faults /\ Becomes(p, r, "queued", "unsent") /\ UNCHANGED sent

Answer(p, r)   == Becomes(p, r, "sent", "ok") /\ UNCHANGED sent
NoAnswer(p, r) == "provider" \in Faults /\ Becomes(p, r, "sent", "failed") /\ UNCHANGED sent

----------------------------------------------------------------------------
Crash(p) ==
  /\ "crash" \in Faults /\ ~At(p, "idle")
  /\ Forget({p})
  /\ UNCHANGED <<files, sent>>

\* A rename whose directory was not synced may or may not have reached the disk.
PowerLoss ==
  /\ "power" \in Faults
  /\ visible' \in {visible, durable}
  /\ durable' = visible'
  /\ Forget(Procs)
  /\ UNCHANGED sent

Main(p) ==
  \/ Load(p) \/ Refuse(p) \/ Record(p) \/ Scheduled(p) \/ Collect(p) \/ Settle(p)
  \/ Settled(p) \/ Finish(p) \/ Replace(p) \/ Submit(p) \/ Persisted(p) \/ Blocked(p)
  \/ Drained(p) \/ Exit(p)

Invoke(p, r) == Send(p, r) \/ StaleEvidence(p, r) \/ Answer(p, r) \/ NoAnswer(p, r)

Next ==
  \/ \E p \in Procs : Start(p) \/ Main(p) \/ Raise(p) \/ Crash(p)
  \/ \E p \in Procs, r \in Requests : Invoke(p, r)
  \/ PowerLoss

Spec == Init /\ [][Next]_vars

\* Threads run, and every call of the transport returns or raises.
FairSpec ==
  /\ Spec
  /\ \A p \in Procs : WF_vars(Main(p)) /\ \A r \in Requests : WF_vars(Invoke(p, r))

----------------------------------------------------------------------------
Pcs == {"idle", "load", "done", "drain"} \union Pooled \union Saving \union Syncing

\* The variables keep their types.
TypeOK ==
  /\ visible \in Ledgers \union {NoFile}
  /\ durable \in Ledgers \union {NoFile}
  /\ pc \in [Procs -> Pcs]
  /\ preview \in [Procs -> Previews \union {NoPreview}]
  /\ mem \in [Procs -> Ledgers \union {NoFile}]
  /\ cur \in [Procs -> Requests \union {NoRequest}]
  /\ worker \in [Procs -> [Requests -> {"none", "queued", "sent", "settled"} \union Finished]]
  /\ done \in [Procs -> SUBSET Requests]
  /\ stop \in [Procs -> BOOLEAN]
  /\ sent \in [Requests -> Nat]

\* No request of the checkpoint is sent twice, whatever executions, crashes, power
\* losses and failed saves come between, as long as executions do not overlap.
SentOnce == \A r \in Requests : sent[r] <= 1

\* The checkpoint that a power loss leaves never denies that a request was sent, and it
\* is the checkpoint of that request's own preview.
SentIsAdmitted ==
  \A r \in Requests :
    sent[r] > 0 => /\ durable # NoFile
                   /\ durable.status[r] \in {"uncertain", "succeeded"}
                   /\ \E i \in DOMAIN RequestsOf[durable.source] : RequestsOf[durable.source][i] = r

\* At most MaxWorkers requests have been sent (and perhaps charged) without their answer
\* being safe on disk, counted over all executions of the checkpoint.
Exposed == {r \in Requests : sent[r] > 0 /\ ~(durable # NoFile /\ durable.status[r] = "succeeded")}
BoundedExposure == Cardinality(Exposed) <= MaxWorkers

\* While the durable checkpoint holds an attempt of an earlier execution that is
\* uncertain, nothing is sent.
UncertainBlocks ==
  [][\A r \in Requests : sent'[r] > sent[r] =>
       \A q \in Requests : durable.status[q] = "uncertain" =>
         \E p \in Procs : worker[p][q] # "none"]_sent

\* The checkpoint keeps what PaidRequests promises: whatever crashes, power losses and
\* failed saves do to the durable ledger, a request is admitted there before it is sent,
\* it is sent once, an answer is there only if it was paid for, "not_dispatched" is the
\* truth, and nothing that is settled is ever taken back.
LedgerOf(l) == IF l = NoFile THEN [r \in Requests |-> "none"] ELSE l.status
Checkpoint  == INSTANCE PaidRequests WITH ledger <- LedgerOf(durable), paid <- sent
LedgerKept  == Checkpoint!Spec

\* An execution that returns reports what is on disk, and says that the network was used
\* exactly if some execution of this checkpoint used it.
ReportIsTrue ==
  \A p \in Procs : At(p, "done") =>
    mem[p] = durable /\ mem[p].network = (\E r \in Requests : sent[r] > 0)

\* A request that had been sent when an execution loaded the checkpoint is not sent again
\* by that execution: resuming never retries implicitly.
ResumeNeverRetries ==
  [][\A p \in Procs, r \in Requests :
       worker[p][r] = "queued" /\ worker'[p][r] = "sent" => r \notin seen[p]]_vars

\* Every execution ends, whichever requests fail and whatever is interrupted.
EveryExecutionEnds == \A p \in Procs : ~At(p, "idle") ~> At(p, "idle")
============================================================================
