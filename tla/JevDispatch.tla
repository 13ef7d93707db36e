---------------------------- MODULE JevDispatch ----------------------------
(***************************************************************************)
(* jev.execute_preview, the checkpoint it keeps, and the two commands that *)
(* run it: `relate` on one preview and `resume` on the batches of a plan.  *)
(* Every request is paid for, and an interrupted one may have been         *)
(* processed: the checkpoint must name a request before it is sent, and    *)
(* nobody may send a request that a checkpoint names.  A checkpoint        *)
(* survives the processes; they exclude each other with a flock on its     *)
(* directory, die at any step, and the machine may lose power between the  *)
(* rename of a new checkpoint and the fsync of its directory.              *)
(***************************************************************************)
EXTENDS Integers, Sequences, FiniteSets

CONSTANTS
  Procs,       \* runs of jg relate and jg resume, each started at most once
  Dirs,        \* directories, each with a relations.json checkpoint
  Previews,
  Requests,
  RequestsOf,  \* RequestsOf[v]: the requests of preview v, in order
  Commands,    \* the command lines in use
  MaxRequests, \* --max-jev-requests
  NoFile, Nobody, NoCommand, NoRequest,
  Faults       \* subset of {"save", "provider", "crash", "power"}

Batches  == [dir : Dirs, preview : Previews]
Statuses == {"none", "uncertain", "succeeded"}
Ledgers  == [source : Previews, status : [Requests -> Statuses]]

ASSUME DispatchAssumption ==
  /\ RequestsOf \in [Previews -> Seq(Requests)]
  /\ \A c \in Commands : /\ c.kind \in {"relate", "resume"}
                         /\ c.batches \in Seq(Batches) /\ Len(c.batches) > 0
                         /\ c.budget \in Nat
                         /\ c.kind = "relate" => Len(c.batches) = 1
  /\ MaxRequests \in Nat
  /\ IsFiniteSet(Requests)
  /\ NoFile \notin Ledgers /\ Nobody \notin Procs
  /\ NoCommand \notin Commands /\ NoRequest \notin Requests

VARIABLES
  visible,  \* visible[d]: the ledger that opening d's checkpoint reads
  durable,  \* durable[d]: the ledger that a power loss leaves
  lock,     \* lock[d]: the process that has the flock on d
  pc,
  cmd,      \* cmd[p]: p's command line
  at,       \* at[p]: index of the batch p works on
  mem,      \* mem[p]: the ledger p has in memory
  cur,      \* cur[p]: the request p works on
  todo,     \* todo[p]: requests p found outstanding before it took a lock
  new,      \* new[p]: new_attempts of p's summary
  sent      \* sent[d][r]: by whom request r of d's checkpoint was sent, in order

files == <<visible, durable>>
vars  == <<visible, durable, lock, pc, cmd, at, mem, cur, todo, new, sent>>

Init ==
  /\ visible = [d \in Dirs |-> NoFile]
  /\ durable = [d \in Dirs |-> NoFile]
  /\ lock = [d \in Dirs |-> Nobody]
  /\ pc = [p \in Procs |-> "idle"]
  /\ cmd = [p \in Procs |-> NoCommand]
  /\ at = [p \in Procs |-> 1]
  /\ mem = [p \in Procs |-> NoFile]
  /\ cur = [p \in Procs |-> NoRequest]
  /\ todo = [p \in Procs |-> 0]
  /\ new = [p \in Procs |-> 0]
  /\ sent = [d \in Dirs |-> [r \in Requests |-> <<>>]]

At(p, here) == pc[p] = here
Goto(p, next) == pc' = [pc EXCEPT ![p] = next]

Batch(p) == cmd[p].batches[at[p]]
Dir(p) == Batch(p).dir
Preview(p) == Batch(p).preview

LastBatch(p) == at[p] = Len(cmd[p].batches)

NewLedger(v) == [source |-> v, status |-> [r \in Requests |-> "none"]]
Attempts(l) == IF l = NoFile THEN {} ELSE {r \in Requests : l.status[r] # "none"}
Wanted(v) == {RequestsOf[v][i] : i \in DOMAIN RequestsOf[v]}

\* A raise and a death are the same to everyone else: the kernel drops the lock.
Ends(p, how) ==
  /\ Goto(p, how)
  /\ lock' = [d \in Dirs |-> IF lock[d] = p THEN Nobody ELSE lock[d]]

----------------------------------------------------------------------------
(* The commands.                                                           *)

Start(p) ==
  /\ At(p, "idle")
  /\ \E c \in Commands :
       /\ cmd' = [cmd EXCEPT ![p] = c]
       /\ Goto(p, IF c.kind = "resume" THEN "check" ELSE "lock")
  /\ UNCHANGED <<files, lock, at, mem, cur, todo, new, sent>>

\* resume reads every checkpoint, without its lock, before the first request.
Bug_UnstartedOnly(d, v) == IF visible[d] = NoFile THEN Cardinality(Wanted(v)) ELSE 0
Outstanding(d, v)       == Cardinality(Wanted(v) \ Attempts(visible[d]))

FitsLimit(v) == Len(RequestsOf[v]) <= MaxRequests

CheckBatch(p) ==
  LET found == todo[p] + Outstanding(Dir(p), Preview(p)) IN
  /\ At(p, "check") /\ FitsLimit(Preview(p))
  /\ todo' = [todo EXCEPT ![p] = found]
  /\ \/ ~LastBatch(p) /\ at' = [at EXCEPT ![p] = @ + 1] /\ UNCHANGED pc
     \/ LastBatch(p) /\ found <= cmd[p].budget /\ at' = [at EXCEPT ![p] = 1] /\ Goto(p, "lock")
  /\ UNCHANGED <<files, lock, cmd, mem, cur, new, sent>>

\* A preview above its limit, or a plan above the budget: nothing is sent.
RefuseBudget(p) ==
  /\ At(p, "check")
  /\ \/ ~FitsLimit(Preview(p))
     \/ LastBatch(p) /\ todo[p] + Outstanding(Dir(p), Preview(p)) > cmd[p].budget
  /\ Ends(p, "failed")
  /\ UNCHANGED <<files, cmd, at, mem, cur, todo, new, sent>>

Bug_NoLock(d) == TRUE
LockFree(d)   == lock[d] = Nobody

Lock(p) ==
  /\ At(p, "lock") /\ LockFree(Dir(p))
  /\ lock' = [lock EXCEPT ![Dir(p)] = p]
  /\ Goto(p, "read")
  /\ UNCHANGED <<files, cmd, at, mem, cur, todo, new, sent>>

LockBusy(p) ==
  /\ At(p, "lock") /\ ~LockFree(Dir(p))
  /\ Ends(p, "failed")
  /\ UNCHANGED <<files, cmd, at, mem, cur, todo, new, sent>>

----------------------------------------------------------------------------
(* execute_preview, under the lock.                                        *)

Bug_AnyCheckpoint(p) == FitsLimit(Preview(p))
Usable(p) ==
  /\ FitsLimit(Preview(p))
  /\ visible[Dir(p)] # NoFile => visible[Dir(p)].source = Preview(p)

\* resume counts the attempts of the checkpoint first; they come off the summary.
PriorCount(p) == Cardinality(Attempts(visible[Dir(p)]))

ReadCheckpoint(p) ==
  /\ At(p, "read") /\ Usable(p)
  /\ mem' = [mem EXCEPT ![p] = IF visible[Dir(p)] = NoFile THEN NewLedger(Preview(p))
                                                           ELSE visible[Dir(p)]]
  /\ new' = [new EXCEPT ![p] = @ - PriorCount(p)]
  /\ Goto(p, "next")
  /\ UNCHANGED <<files, lock, cmd, at, cur, todo, sent>>

RefuseCheckpoint(p) ==
  /\ At(p, "read") /\ ~Usable(p)
  /\ Ends(p, "failed")
  /\ UNCHANGED <<files, cmd, at, mem, cur, todo, new, sent>>

\* Positions in the preview of the requests that the ledger does not name.
RequestAt(p, i) == RequestsOf[Preview(p)][i]
Bug_RetryUncertain(p) ==
  {i \in DOMAIN RequestsOf[Preview(p)] : mem[p].status[RequestAt(p, i)] # "succeeded"}
Pending(p) == {i \in DOMAIN RequestsOf[Preview(p)] : mem[p].status[RequestAt(p, i)] = "none"}

SetStatus(p, r, s) == mem' = [mem EXCEPT ![p].status[r] = s]

\* The attempt goes into the ledger as uncertain, and the ledger to the disk.
Record(p) ==
  /\ At(p, "next")
  /\ \E i \in Pending(p) :
       /\ \A j \in Pending(p) : i <= j
       /\ cur' = [cur EXCEPT ![p] = RequestAt(p, i)]
       /\ SetStatus(p, RequestAt(p, i), "uncertain")
  /\ Goto(p, "saveAttempt")
  /\ UNCHANGED <<files, lock, cmd, at, todo, new, sent>>

\* A save goes on to the sync of its directory.
Sync == [saveAttempt |-> "syncAttempt", saveAnswer |-> "syncAnswer", saveFailure |-> "syncFailure"]
Saving  == {"saveAttempt", "saveAnswer", "saveFailure"}
Syncing == {"syncAttempt", "syncAnswer", "syncFailure"}

\* save_checkpoint: a synced temporary file takes the place of the checkpoint ...
Replace(p) ==
  /\ pc[p] \in Saving
  /\ visible' = [visible EXCEPT ![Dir(p)] = mem[p]]
  /\ Goto(p, Sync[pc[p]])
  /\ UNCHANGED <<durable, lock, cmd, at, mem, cur, todo, new, sent>>

\* ... and the directory is synced; the attempt that failed ends the run here.
Bug_NoSync(p) == UNCHANGED durable
SyncDir(p)    == durable' = [durable EXCEPT ![Dir(p)] = visible[Dir(p)]]

Saved(p) ==
  /\ pc[p] \in Syncing /\ SyncDir(p)
  /\ \/ At(p, "syncAttempt") /\ Goto(p, "send") /\ UNCHANGED lock
     \/ At(p, "syncAnswer") /\ Goto(p, "next") /\ UNCHANGED lock
     \/ At(p, "syncFailure") /\ Ends(p, "failed")
  /\ UNCHANGED <<visible, cmd, at, mem, cur, todo, new, sent>>

SaveFails(p) ==
  /\ "save" \in Faults
  /\ pc[p] \in Saving \union Syncing
  /\ Ends(p, "failed")
  /\ UNCHANGED <<files, cmd, at, mem, cur, todo, new, sent>>

Send(p) ==
  /\ At(p, "send")
  /\ sent' = [sent EXCEPT ![Dir(p)][cur[p]] = Append(@, p)]
  /\ Goto(p, "wait")
  /\ UNCHANGED <<files, lock, cmd, at, mem, cur, todo, new>>

\* A valid response: attempt and relation enter the ledger together.
Answer(p) ==
  /\ At(p, "wait")
  /\ SetStatus(p, cur[p], "succeeded")
  /\ Goto(p, "saveAnswer")
  /\ UNCHANGED <<files, lock, cmd, at, cur, todo, new, sent>>

\* A transport error or an invalid response: the attempt stays uncertain.
NoAnswer(p) ==
  /\ "provider" \in Faults
  /\ At(p, "wait")
  /\ Goto(p, "saveFailure")
  /\ UNCHANGED <<files, lock, cmd, at, mem, cur, todo, new, sent>>

EndBatch(p) ==
  /\ At(p, "next") /\ Pending(p) = {}
  /\ new' = [new EXCEPT ![p] = @ + Cardinality(Attempts(mem[p]))]
  /\ lock' = [lock EXCEPT ![Dir(p)] = Nobody]
  /\ \/ ~LastBatch(p) /\ at' = [at EXCEPT ![p] = @ + 1] /\ Goto(p, "lock")
     \/ LastBatch(p) /\ Goto(p, "done") /\ UNCHANGED at
  /\ UNCHANGED <<files, cmd, mem, cur, todo, sent>>

----------------------------------------------------------------------------
Running(p) == pc[p] \notin {"idle", "done", "failed", "dead"}

Crash(p) ==
  /\ "crash" \in Faults /\ Running(p)
  /\ Ends(p, "dead")
  /\ UNCHANGED <<files, cmd, at, mem, cur, todo, new, sent>>

\* A rename whose directory was not synced may or may not have reached the disk.
PowerLoss ==
  /\ "power" \in Faults
  /\ \E kept \in SUBSET Dirs :
       visible' = [d \in Dirs |-> IF d \in kept THEN visible[d] ELSE durable[d]]
  /\ durable' = visible'
  /\ lock' = [d \in Dirs |-> Nobody]
  /\ pc' = [p \in Procs |-> IF Running(p) THEN "dead" ELSE pc[p]]
  /\ UNCHANGED <<cmd, at, mem, cur, todo, new, sent>>

Plan(p) == Start(p) \/ CheckBatch(p) \/ RefuseBudget(p) \/ Lock(p) \/ LockBusy(p)
Execute(p) ==
  \/ ReadCheckpoint(p) \/ RefuseCheckpoint(p) \/ Record(p)
  \/ Replace(p) \/ Saved(p) \/ SaveFails(p)
  \/ Send(p) \/ Answer(p) \/ NoAnswer(p) \/ EndBatch(p)

Next == PowerLoss \/ \E p \in Procs : Plan(p) \/ Execute(p) \/ Crash(p)

Spec == Init /\ [][Next]_vars

----------------------------------------------------------------------------
Pcs == {"idle", "check", "lock", "read", "next", "send", "wait", "done", "failed", "dead"}
         \union Saving \union Syncing

\* The variables keep their types; a batch index always names a batch of the command.
TypeOK ==
  /\ visible \in [Dirs -> Ledgers \union {NoFile}]
  /\ durable \in [Dirs -> Ledgers \union {NoFile}]
  /\ lock \in [Dirs -> Procs \union {Nobody}]
  /\ pc \in [Procs -> Pcs]
  /\ cmd \in [Procs -> Commands \union {NoCommand}]
  /\ at \in [Procs -> Nat]
  /\ \A p \in Procs : IF pc[p] = "idle" THEN cmd[p] = NoCommand /\ at[p] = 1
                                      ELSE cmd[p] # NoCommand /\ at[p] \in 1..Len(cmd[p].batches)
  /\ mem \in [Procs -> Ledgers \union {NoFile}]
  /\ cur \in [Procs -> Requests \union {NoRequest}]
  /\ todo \in [Procs -> Nat]
  /\ new \in [Procs -> Int]
  /\ sent \in [Dirs -> [Requests -> Seq(Procs)]]

\* No request of a checkpoint is sent twice, whatever runs, crashes, power losses,
\* failed saves and resumes come between: an attempt whose outcome is unknown is not
\* retried.
AtMostOnce == \A d \in Dirs, r \in Requests : Len(sent[d][r]) <= 1

\* What was sent is named by the checkpoint that a power loss would leave.
SentIsDurable ==
  \A d \in Dirs, r \in Requests :
    sent[d][r] # <<>> => durable[d] # NoFile /\ durable[d].status[r] # "none"

\* A process only sends requests of the preview its directory's checkpoint belongs to,
\* and nobody else writes that checkpoint while it does.
SendsOwnPreview ==
  \A p \in Procs :
    pc[p] \in {"send", "wait"} =>
      /\ durable[Dir(p)] = mem[p] /\ mem[p].source = Preview(p)
      /\ cur[p] \in Wanted(Preview(p))

\* A durable checkpoint never changes its preview, drops an attempt or forgets an
\* answer: no run overwrites it with an older ledger.
Follows(t, s) == s \in {"none", t} \/ t = "succeeded"
Extends(l, k) ==
  k # NoFile => /\ l # NoFile /\ l.source = k.source
                /\ \A r \in Requests : Follows(l.status[r], k.status[r])
AnswersKept == [][\A d \in Dirs : Extends(durable'[d], durable[d])]_durable

SendingsOf(p, d, r) == {<<d, r, i>> : i \in {j \in DOMAIN sent[d][r] : sent[d][r][j] = p}}
Sendings(p) == UNION {UNION {SendingsOf(p, d, r) : r \in Requests} : d \in Dirs}
SentBy(p) == Cardinality(Sendings(p))

\* resume never sends more requests than the total budget it was given, although it
\* counts them before it holds any lock and other runs work on the same plan; and the
\* summary of one that ends well reports exactly what it sent.
WithinBudget ==
  \A p \in Procs :
    /\ cmd[p] # NoCommand =>
         SentBy(p) <= IF cmd[p].kind = "resume" THEN cmd[p].budget ELSE MaxRequests
    /\ At(p, "done") => new[p] = SentBy(p)
============================================================================
