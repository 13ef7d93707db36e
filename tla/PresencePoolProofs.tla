------------------------- MODULE PresencePoolProofs -------------------------
(***************************************************************************)
(* Executions that do not overlap send no request twice.  The ledger in    *)
(* memory is at least as new as the checkpoint, which is at least as new   *)
(* as what a power loss leaves (Chain); all three admit whatever was sent  *)
(* (Remembers, Admitted), and a worker only gets a request that all three  *)
(* name and nobody sent (FlightKnown).  JInv adds that the ledgers tell    *)
(* the truth about the network and that, once an execution has workers,    *)
(* the durable uncertain attempts are its own; BInv that what is open fits *)
(* the pool (Room); EInv that no ledger claims an answer that was not paid *)
(* for, which makes the checkpoint an account of PaidRequests.             *)
(***************************************************************************)
EXTENDS PresencePool, FiniteSetTheorems, TLAPS

OneAtATime == \A p, q \in Procs : p = q

\* Ledger l names what k names, for the same preview, and keeps what k has settled.
Extends(l, k) ==
  k # NoFile => /\ l # NoFile /\ l.source = k.source
                /\ \A r \in Requests : \/ k.status[r] \in {"none", l.status[r]}
                                       \/ k.status[r] = "uncertain" /\ l.status[r] # "none"

InPreview(r, v) == \E i \in DOMAIN RequestsOf[v] : RequestsOf[v][i] = r
Admits(l, r) == /\ l # NoFile
                /\ l.status[r] \in {"uncertain", "succeeded"}
                /\ InPreview(r, l.source)

Working == Pcs \ {"idle", "load"}
Sending == Pooled \union {"drain", "saveFinal", "syncFinal", "done"}

\* Before the ledger is loaded there are no workers; later there is a ledger.
Shape(p) ==
  /\ pc[p] # "idle" => preview[p] \in Previews
  /\ pc[p] \notin Sending => worker[p] = NoWorkers /\ done[p] = {}
  /\ pc[p] \in Working => mem[p] # NoFile /\ mem[p].source = preview[p]
  /\ pc[p] \in Syncing => visible = mem[p]
  /\ pc[p] \in {"saveFinal", "syncFinal", "done"} => InFlight(p) = {}
  /\ \A r \in done[p] : worker[p][r] \in Finished

Chain(p) == pc[p] \in Working => Extends(mem[p], visible)
Remembers(p) == pc[p] \in Working => \A r \in Requests : sent[r] > 0 => Admits(mem[p], r)

\* The request being recorded, and those that workers have.
CurrentKnown(p) ==
  pc[p] \in {"saveAttempt", "syncAttempt"} =>
    /\ cur[p] \in Requests /\ sent[cur[p]] = 0 /\ cur[p] \notin InFlight(p)
    /\ mem[p].status[cur[p]] = "uncertain" /\ Admits(mem[p], cur[p])

FlightKnown(p) ==
  \A r \in Requests :
    /\ worker[p][r] \in {"queued", "sent"} \union Finished => mem[p].status[r] = "uncertain"
    /\ worker[p][r] = "queued" => Admits(mem[p], r) /\ Admits(visible, r) /\ Admits(durable, r)
    /\ worker[p][r] \in {"queued", "unsent"} => sent[r] = 0

Knows(p) == Shape(p) /\ Chain(p) /\ Remembers(p) /\ CurrentKnown(p) /\ FlightKnown(p)

Admitted == \A r \in Requests : sent[r] > 0 => Admits(durable, r) /\ Admits(visible, r)
Files == Extends(visible, durable) /\ Admitted /\ SentOnce

IInv == TypeOK /\ Files /\ \A p \in Procs : Knows(p)

\* What the ledgers say of the network, and whose the uncertain requests are.
Honest(l) == l # NoFile => /\ (\E r \in Requests : l.status[r] = "succeeded") => l.network
                           /\ l.network => \E r \in Requests : sent[r] > 0
Mine(p) == pc[p] \in Sending \ {"drain"} =>
  \A r \in Requests : mem[p].status[r] = "uncertain" =>
    worker[p][r] # "none" \/ (pc[p] \in {"saveAttempt", "syncAttempt"} /\ r = cur[p])
DurableMine(p) == (\E r \in Requests : worker[p][r] # "none") =>
  \A r \in Requests : durable # NoFile /\ durable.status[r] = "uncertain" => worker[p][r] # "none"
Charged(p) ==
  /\ \A r \in Requests : worker[p][r] \in {"sent", "ok", "failed"} => sent[r] > 0
  /\ \A r \in Requests : worker[p][r] = "settled" /\ sent[r] > 0 => mem[p].network
  /\ pc[p] = "done" => mem[p] = durable

Reports(p) == Mine(p) /\ DurableMine(p) /\ Charged(p) /\ Honest(mem[p])
JInv == IInv /\ Honest(visible) /\ Honest(durable) /\ \A p \in Procs : Reports(p)

----------------------------------------------------------------------------
LEMMA ExtendsTransitive ==
  ASSUME NEW j, NEW k, NEW l, Extends(l, k), Extends(k, j)
  PROVE  Extends(l, j)
  BY DEF Extends

LEMMA ExtendsReflexive == \A l : Extends(l, l)
  BY DEF Extends

LEMMA InitInvariant == Init => IInv
  <1> SUFFICES ASSUME Init PROVE IInv
    OBVIOUS
  <1>1. TypeOK
    BY DEF Init, TypeOK, Pcs, NoWorkers, Finished
  <1>2. Files
    BY DEF Init, Files, Extends, Admitted, SentOnce
  <1>3. \A p \in Procs : Knows(p)
    BY DEF Init, Knows, Shape, Chain, Remembers, CurrentKnown, FlightKnown, NoWorkers, Finished,
           Working, Pooled, Sending, Syncing, Saving, SyncOf
  <1> QED BY <1>1, <1>2, <1>3 DEF IInv

----------------------------------------------------------------------------
\* The labels, spelled out.
LEMMA LabelSets ==
  /\ Saving = {"saveBlocked", "saveAttempt", "saveResult", "saveFinal"}
  /\ Syncing = {"syncBlocked", "syncAttempt", "syncResult", "syncFinal"}
  /\ SyncOf["saveBlocked"] = "syncBlocked" /\ SyncOf["saveAttempt"] = "syncAttempt"
  /\ SyncOf["saveResult"] = "syncResult" /\ SyncOf["saveFinal"] = "syncFinal"
  BY DEF Saving, Syncing, SyncOf

\* A position in a preview holds one of the requests.
LEMMA RequestType ==
  ASSUME NEW v \in Previews, NEW i \in DOMAIN RequestsOf[v]
  PROVE  RequestsOf[v][i] \in Requests /\ InPreview(RequestsOf[v][i], v)
  BY PoolAssumption DEF InPreview

\* Executions that are over know nothing.
LEMMA Forgotten ==
  ASSUME OneAtATime, NEW P, P = Procs \/ (\E p \in Procs : P = {p}), Forget(P)
  PROVE  /\ \A q \in Procs : /\ pc'[q] = "idle" /\ worker'[q] = NoWorkers /\ done'[q] = {}
                             /\ preview'[q] = NoPreview /\ mem'[q] = NoFile
                             /\ cur'[q] = NoRequest /\ stop'[q] = FALSE
         /\ \A q \in Procs : Knows(q)'
  <1>1. \A q \in Procs : q \in P
    BY DEF OneAtATime
  <1>2. \A q \in Procs : /\ pc'[q] = "idle" /\ worker'[q] = NoWorkers /\ done'[q] = {}
                         /\ preview'[q] = NoPreview /\ mem'[q] = NoFile
                         /\ cur'[q] = NoRequest /\ stop'[q] = FALSE
    BY <1>1 DEF Forget
  <1>3. \A q \in Procs : Knows(q)'
    BY <1>2, LabelSets
    DEF Knows, Shape, Chain, Remembers, CurrentKnown, FlightKnown, NoWorkers, Finished, Working, Sending, Pooled
  <1> QED BY <1>2, <1>3

LEMMA ForgetType ==
  ASSUME TypeOK, NEW P, Forget(P)
  PROVE  /\ pc' \in [Procs -> Pcs] /\ preview' \in [Procs -> Previews \union {NoPreview}]
         /\ mem' \in [Procs -> Ledgers \union {NoFile}]
         /\ cur' \in [Procs -> Requests \union {NoRequest}]
         /\ worker' \in [Procs -> [Requests -> {"none", "queued", "sent", "settled"} \union Finished]]
         /\ done' \in [Procs -> SUBSET Requests] /\ stop' \in [Procs -> BOOLEAN]
  BY DEF TypeOK, Forget, NoWorkers, Pcs

LEMMA TypeStep == IInv /\ [Next]_vars => TypeOK'
  <1> SUFFICES ASSUME IInv, [Next]_vars PROVE TypeOK'
    OBVIOUS
  <1> TypeOK
    BY DEF IInv
  <1> USE PoolAssumption, LabelSets DEF At, Goto, files, locals, Pcs, Pooled
  <1>1. ASSUME NEW p \in Procs, Start(p) PROVE TypeOK'
    BY <1>1 DEF Start, TypeOK
  <1>2. ASSUME NEW p \in Procs, Load(p) PROVE TypeOK'
    <2>1. preview[p] \in Previews
      BY <1>2 DEF IInv, Knows, Shape, Load
    <2>2. Loaded(p) \in Ledgers
      BY <2>1 DEF Loaded, NewLedger, Ledgers, Statuses, TypeOK
    <2> QED BY <1>2, <2>2 DEF Load, TypeOK
  <1>3. ASSUME NEW p \in Procs, Refuse(p) PROVE TypeOK'
    BY <1>3, ForgetType DEF Refuse, TypeOK
  <1>4. ASSUME NEW p \in Procs, Record(p) PROVE TypeOK'
    <2>1. preview[p] \in Previews /\ mem[p] \in Ledgers
      BY <1>4 DEF IInv, Knows, Shape, Record, Working, TypeOK
    <2>2. PICK i \in Pending(p) :
            /\ cur' = [cur EXCEPT ![p] = Requested(p)[i]]
            /\ mem' = [mem EXCEPT ![p].status[Requested(p)[i]] = "uncertain"]
      BY <1>4 DEF Record
    <2>3. Requested(p)[i] \in Requests
      BY <2>1, <2>2, RequestType DEF Pending, Requested
    <2>4. [mem[p] EXCEPT !.status[Requested(p)[i]] = "uncertain"] \in Ledgers
      BY <2>1, <2>3 DEF Ledgers, Statuses
    <2>5. mem' \in [Procs -> Ledgers \union {NoFile}]
      BY <2>2, <2>4 DEF TypeOK
    <2> QED BY <1>4, <2>2, <2>3, <2>5 DEF Record, TypeOK
  <1>5. ASSUME NEW p \in Procs, Scheduled(p) PROVE TypeOK'
    BY <1>5 DEF Scheduled, TypeOK
  <1>6. ASSUME NEW p \in Procs, Collect(p) PROVE TypeOK'
    BY <1>6 DEF Collect, Completed, TypeOK
  <1>7. ASSUME NEW p \in Procs, Settle(p) PROVE TypeOK'
    <2>1. mem[p] \in Ledgers
      BY <1>7 DEF IInv, Knows, Shape, Settle, Working, TypeOK
    <2>2. PICK r \in done[p] :
            /\ done' = [done EXCEPT ![p] = @ \ {r}]
            /\ worker' = [worker EXCEPT ![p][r] = "settled"]
            /\ stop' = [stop EXCEPT ![p] = @ \/ worker[p][r] # "ok"]
            /\ mem' = [mem EXCEPT ![p].status[r] = StatusOf[worker[p][r]],
                                  ![p].network = NetworkUsed(mem[p], r, worker[p][r])]
      BY <1>7 DEF Settle
    <2>3. r \in Requests /\ worker[p][r] \in Finished
      BY <2>2 DEF IInv, Knows, Shape, TypeOK
    <2>4. StatusOf[worker[p][r]] \in Statuses
      BY <2>3 DEF StatusOf, Finished, Statuses
    <2>5. NetworkUsed(mem[p], r, worker[p][r]) \in BOOLEAN
      BY <2>1 DEF NetworkUsed, Ledgers
    <2>6. mem' \in [Procs -> Ledgers \union {NoFile}]
      BY <2>1, <2>2, <2>3, <2>4, <2>5 DEF TypeOK, Ledgers
    <2>7. stop' \in [Procs -> BOOLEAN]
      BY <2>2 DEF TypeOK
    <2> QED BY <1>7, <2>2, <2>3, <2>6, <2>7 DEF Settle, TypeOK
  <1>8. ASSUME NEW p \in Procs, Settled(p) \/ Finish(p) PROVE TypeOK'
    BY <1>8 DEF Settled, Finish, TypeOK
  <1>9. ASSUME NEW p \in Procs, Replace(p) PROVE TypeOK'
    BY <1>9 DEF Replace, TypeOK
  <1>10. ASSUME NEW p \in Procs, Submit(p) PROVE TypeOK'
    BY <1>10 DEF Submit, Synced, Finished, TypeOK
  <1>11. ASSUME NEW p \in Procs, Persisted(p) PROVE TypeOK'
    BY <1>11 DEF Persisted, Synced, TypeOK
  <1>12. ASSUME NEW p \in Procs, Blocked(p) PROVE TypeOK'
    BY <1>12, ForgetType DEF Blocked, Synced, TypeOK
  <1>13. ASSUME NEW p \in Procs, Raise(p) PROVE TypeOK'
    BY <1>13, ForgetType DEF Raise, TypeOK
  <1>14. ASSUME NEW p \in Procs, Drained(p) \/ Exit(p) \/ Crash(p) PROVE TypeOK'
    BY <1>14, ForgetType DEF Drained, Exit, Crash, TypeOK
  <1>15. ASSUME PowerLoss PROVE TypeOK'
    BY <1>15, ForgetType DEF PowerLoss, TypeOK
  <1>16. ASSUME NEW p \in Procs, NEW r \in Requests, Invoke(p, r) PROVE TypeOK'
    <2>1. ASSUME NEW before, NEW after \in {"sent", "unsent", "ok", "failed"},
                 Becomes(p, r, before, after), sent' \in [Requests -> Nat]
          PROVE  TypeOK'
      <3>1. worker' \in [Procs -> [Requests -> {"none", "queued", "sent", "settled"} \union Finished]]
        BY <2>1 DEF Becomes, Finished, TypeOK
      <3> QED BY <2>1, <3>1 DEF Becomes, TypeOK
    <2>2. CASE Send(p, r)
      <3>1. sent' \in [Requests -> Nat]
        BY <2>2 DEF Send, TypeOK
      <3> QED BY <2>1, <2>2, <3>1 DEF Send
    <2>3. CASE StaleEvidence(p, r) \/ Answer(p, r) \/ NoAnswer(p, r)
      <3>1. sent' \in [Requests -> Nat]
        BY <2>3 DEF StaleEvidence, Answer, NoAnswer, TypeOK
      <3> QED BY <2>1, <2>3, <3>1 DEF StaleEvidence, Answer, NoAnswer
    <2> QED BY <1>16, <2>2, <2>3 DEF Invoke
  <1>17. CASE UNCHANGED vars
    BY <1>17 DEF vars, TypeOK
  <1> QED
    BY <1>1, <1>2, <1>3, <1>4, <1>5, <1>6, <1>7, <1>8, <1>9, <1>10, <1>11, <1>12, <1>13, <1>14,
       <1>15, <1>16, <1>17 DEF Next, Main

----------------------------------------------------------------------------
LEMMA KnowsStep ==
  ASSUME OneAtATime, IInv, [Next]_vars
  PROVE  \A q \in Procs : Knows(q)'
  <1> TypeOK /\ Files /\ \A p \in Procs : Knows(p)
    BY DEF IInv
  <1>0. ASSUME NEW p \in Procs, Knows(p)' PROVE \A q \in Procs : Knows(q)'
    <2>1. \A q \in Procs : q = p
      BY DEF OneAtATime
    <2> QED BY <1>0, <2>1
  <1> USE LabelSets DEF At, Goto, files, locals, Pooled, Sending, Working, Pcs
  <1>1. ASSUME NEW p \in Procs, Start(p) PROVE Knows(p)'
    <2>1. PICK v \in Previews : preview' = [preview EXCEPT ![p] = v]
      BY <1>1 DEF Start
    <2>2. /\ pc'[p] = "load" /\ preview'[p] = v /\ worker'[p] = NoWorkers /\ done'[p] = {}
      BY <1>1, <2>1 DEF Start, Knows, Shape, TypeOK
    <2> QED BY <2>2 DEF Knows, Shape, Chain, Remembers, CurrentKnown, FlightKnown, NoWorkers, Finished
  <1>2. ASSUME NEW p \in Procs, Load(p) PROVE Knows(p)'
    <2>1. /\ preview[p] \in Previews /\ worker[p] = NoWorkers /\ done[p] = {}
          /\ pc' = [pc EXCEPT ![p] = IF Uncertain(Loaded(p)) THEN "saveBlocked" ELSE "schedule"]
          /\ mem' = [mem EXCEPT ![p] = Loaded(p)] /\ Usable(p)
          /\ UNCHANGED <<files, preview, worker, done, sent>>
      BY <1>2 DEF Load, Knows, Shape
    <2>2. Loaded(p) # NoFile /\ Loaded(p).source = preview[p]
      <3>1. NewLedger(preview[p]) \in Ledgers
        BY <2>1 DEF NewLedger, Ledgers, Statuses
      <3> QED BY <2>1, <3>1, PoolAssumption DEF Loaded, Usable, NewLedger
    <2>3. Extends(Loaded(p), visible)
      BY ExtendsReflexive DEF Loaded, Extends
    <2>4. \A r \in Requests : sent[r] > 0 => Admits(Loaded(p), r)
      BY DEF Files, Admitted, Loaded, Admits
    <2>5. mem'[p] = Loaded(p) /\ pc'[p] \in {"saveBlocked", "schedule"}
      BY <2>1 DEF TypeOK
    <2>6. Shape(p)'
      BY <2>1, <2>2, <2>5 DEF Shape, TypeOK
    <2>7. Chain(p)' /\ Remembers(p)'
      BY <2>1, <2>3, <2>4, <2>5 DEF Chain, Remembers
    <2>8. CurrentKnown(p)' /\ FlightKnown(p)'
      BY <2>1, <2>5 DEF CurrentKnown, FlightKnown, NoWorkers, Finished
    <2> QED BY <2>6, <2>7, <2>8 DEF Knows
  <1>3. ASSUME NEW p \in Procs, Record(p) PROVE Knows(p)'
    <2>1. PICK i \in Pending(p) :
            /\ cur' = [cur EXCEPT ![p] = Requested(p)[i]]
            /\ mem' = [mem EXCEPT ![p].status[Requested(p)[i]] = "uncertain"]
      BY <1>3 DEF Record
    <2> DEFINE r == Requested(p)[i]
    <2>2. /\ pc[p] = "schedule" /\ pc' = [pc EXCEPT ![p] = "saveAttempt"]
          /\ UNCHANGED <<files, preview, worker, done, sent>>
      BY <1>3 DEF Record
    <2>3. preview[p] \in Previews /\ mem[p] \in Ledgers /\ mem[p].source = preview[p]
      BY <2>2 DEF Knows, Shape, TypeOK
    <2>4. r \in Requests /\ InPreview(r, preview[p]) /\ mem[p].status[r] = "none"
      BY <2>3, RequestType DEF Pending, Requested
    <2>5. /\ mem'[p].source = mem[p].source /\ mem'[p].status = [mem[p].status EXCEPT ![r] = "uncertain"]
          /\ mem'[p] \in Ledgers
      <3>1. mem'[p] = [mem[p] EXCEPT !.status[r] = "uncertain"]
        BY <2>1 DEF TypeOK
      <3> HIDE DEF r
      <3> QED BY <2>3, <2>4, <3>1 DEF Ledgers, Statuses
    <2>6. pc'[p] = "saveAttempt" /\ cur'[p] = r
      BY <2>1, <2>2 DEF TypeOK
    <2> HIDE DEF r
    <2>7. \A q \in Requests : mem'[p].status[q] = IF q = r THEN "uncertain" ELSE mem[p].status[q]
      BY <2>3, <2>4, <2>5 DEF Ledgers
    <2>8. mem'[p] # NoFile /\ mem[p] # NoFile
      BY <2>3, <2>5, PoolAssumption
    <2>9. sent[r] = 0 /\ worker[p][r] \notin {"queued", "sent"} \union Finished
      <3>1. ~(sent[r] > 0)
        BY <2>2, <2>4 DEF Knows, Remembers, Admits
      <3>2. sent[r] \in Nat
        BY <2>4 DEF TypeOK
      <3>3. worker[p][r] \notin {"queued", "sent"} \union Finished
        BY <2>4 DEF Knows, FlightKnown
      <3> QED BY <3>1, <3>2, <3>3
    <2>10. Shape(p)'
      BY <2>2, <2>3, <2>5, <2>6, <2>8 DEF Knows, Shape
    <2>11. Chain(p)'
      BY <2>2, <2>4, <2>5, <2>6, <2>7, <2>8 DEF Knows, Chain, Extends
    <2>12. Remembers(p)'
      BY <2>2, <2>4, <2>5, <2>6, <2>7, <2>8 DEF Knows, Remembers, Admits
    <2>13. CurrentKnown(p)'
      BY <2>2, <2>3, <2>4, <2>5, <2>6, <2>7, <2>8, <2>9
      DEF CurrentKnown, Admits, InFlight, Running, Completed, Finished
    <2>14. FlightKnown(p)'
      BY <2>2, <2>4, <2>5, <2>7, <2>8, <2>9 DEF Knows, FlightKnown, Admits
    <2> QED BY <2>10, <2>11, <2>12, <2>13, <2>14 DEF Knows
  <1>4. ASSUME NEW p \in Procs, Scheduled(p) \/ Settled(p) \/ Finish(p) PROVE Knows(p)'
    BY <1>4 DEF Scheduled, Settled, Finish, Knows, Shape, Chain, Remembers, CurrentKnown, FlightKnown,
               InFlight, Running, Completed, TypeOK
  <1>5. ASSUME NEW p \in Procs, Collect(p) PROVE Knows(p)'
    BY <1>5 DEF Collect, Knows, Shape, Chain, Remembers, CurrentKnown, FlightKnown,
               InFlight, Running, Completed, TypeOK
  <1>6. ASSUME NEW p \in Procs, Settle(p) PROVE Knows(p)'
    <2>1. PICK r \in done[p] :
            /\ done' = [done EXCEPT ![p] = @ \ {r}]
            /\ worker' = [worker EXCEPT ![p][r] = "settled"]
            /\ mem' = [mem EXCEPT ![p].status[r] = StatusOf[worker[p][r]],
                                  ![p].network = NetworkUsed(mem[p], r, worker[p][r])]
      BY <1>6 DEF Settle
    <2>2. /\ pc[p] = "settle" /\ pc' = [pc EXCEPT ![p] = "saveResult"]
          /\ UNCHANGED <<files, preview, sent>>
      BY <1>6 DEF Settle
    <2>3. preview[p] \in Previews /\ mem[p] \in Ledgers /\ mem[p].source = preview[p]
      BY <2>2 DEF Knows, Shape, TypeOK
    <2>4. r \in Requests /\ worker[p][r] \in Finished /\ mem[p].status[r] = "uncertain"
      BY <2>1 DEF Knows, Shape, FlightKnown, TypeOK
    <2>5. /\ mem'[p] \in Ledgers /\ mem'[p].source = mem[p].source
          /\ \A q \in Requests : mem'[p].status[q] = IF q = r THEN StatusOf[worker[p][r]] ELSE mem[p].status[q]
      <3> DEFINE status == StatusOf[worker[p][r]]
                 network == NetworkUsed(mem[p], r, worker[p][r])
      <3>1. mem'[p] = [mem[p] EXCEPT !.status[r] = status, !.network = network]
        BY <2>1 DEF TypeOK
      <3>2. status \in Statuses /\ network \in BOOLEAN
        BY <2>3, <2>4 DEF StatusOf, Finished, Statuses, NetworkUsed, Ledgers
      <3> HIDE DEF status, network
      <3>3. mem'[p] \in Ledgers
        BY <2>3, <2>4, <3>1, <3>2 DEF Ledgers
      <3>4. mem'[p].source = mem[p].source /\ mem'[p].status = [mem[p].status EXCEPT ![r] = status]
        BY <2>3, <2>4, <3>1 DEF Ledgers
      <3> QED BY <2>3, <2>4, <3>3, <3>4 DEF Ledgers, status
    <2>6. mem'[p] # NoFile /\ mem[p] # NoFile
      BY <2>3, <2>5, PoolAssumption
    <2>7. StatusOf[worker[p][r]] \in {"uncertain", "succeeded"} \/ worker[p][r] = "unsent"
      BY <2>4 DEF StatusOf, Finished
    <2>8. /\ pc'[p] = "saveResult" /\ done'[p] = done[p] \ {r}
          /\ \A q \in Requests : worker'[p][q] = IF q = r THEN "settled" ELSE worker[p][q]
      BY <2>1, <2>2, <2>4 DEF TypeOK
    <2>9. Shape(p)'
      BY <2>2, <2>3, <2>5, <2>6, <2>8 DEF Knows, Shape, TypeOK
    <2>10. Chain(p)'
      <3>1. StatusOf[worker[p][r]] # "none"
        BY <2>7, <2>4 DEF StatusOf, Finished
      <3> QED BY <2>2, <2>4, <2>5, <2>6, <2>8, <3>1 DEF Knows, Chain, Extends
    <2>11. Remembers(p)'
      <3>1. worker[p][r] = "unsent" => ~(sent[r] > 0)
        BY <2>4 DEF Knows, FlightKnown
      <3> QED BY <2>2, <2>4, <2>5, <2>6, <2>7, <3>1 DEF Knows, Remembers, Admits
    <2>12. CurrentKnown(p)'
      BY <2>8 DEF CurrentKnown
    <2>13. FlightKnown(p)'
      BY <2>2, <2>4, <2>5, <2>6, <2>8 DEF Knows, FlightKnown, Admits, Finished
    <2> QED BY <2>9, <2>10, <2>11, <2>12, <2>13 DEF Knows
  <1>7. ASSUME NEW p \in Procs, Replace(p) PROVE Knows(p)'
    <2>1. /\ visible' = mem[p] /\ pc[p] \in Saving /\ pc' = [pc EXCEPT ![p] = SyncOf[pc[p]]]
          /\ UNCHANGED <<durable, preview, mem, cur, worker, done, sent>>
      BY <1>7 DEF Replace
    <2>2. pc'[p] = SyncOf[pc[p]] /\ pc'[p] \in Syncing /\ (pc'[p] = "syncFinal" <=> pc[p] = "saveFinal")
          /\ (pc'[p] = "syncBlocked" <=> pc[p] = "saveBlocked") /\ (pc'[p] = "syncAttempt" <=> pc[p] = "saveAttempt")
      BY <2>1 DEF TypeOK
    <2>3. Shape(p)'
      BY <2>1, <2>2 DEF Knows, Shape, InFlight, Running, Completed
    <2>4. Chain(p)'
      BY <2>1, <2>2, ExtendsReflexive DEF Chain
    <2>5. Remembers(p)' /\ CurrentKnown(p)'
      BY <2>1, <2>2 DEF Knows, Remembers, CurrentKnown, InFlight, Running, Completed
    <2>6. FlightKnown(p)'
      BY <2>1 DEF Knows, FlightKnown
    <2> QED BY <2>3, <2>4, <2>5, <2>6 DEF Knows
  <1>8. ASSUME NEW p \in Procs, Submit(p) PROVE Knows(p)'
    <2>1. /\ pc[p] = "syncAttempt" /\ pc' = [pc EXCEPT ![p] = "schedule"] /\ durable' = visible
          /\ worker' = [worker EXCEPT ![p][cur[p]] = "queued"]
          /\ UNCHANGED <<visible, preview, mem, cur, done, sent>>
      BY <1>8 DEF Submit, Synced
    <2>2. /\ cur[p] \in Requests /\ sent[cur[p]] = 0 /\ mem[p].status[cur[p]] = "uncertain"
          /\ Admits(mem[p], cur[p]) /\ visible = mem[p] /\ cur[p] \notin InFlight(p)
      BY <2>1 DEF Knows, CurrentKnown, Shape
    <2>3. /\ pc'[p] = "schedule"
          /\ \A q \in Requests : worker'[p][q] = IF q = cur[p] THEN "queued" ELSE worker[p][q]
      BY <2>1, <2>2 DEF TypeOK
    <2>4. cur[p] \notin done[p]
      BY <2>2 DEF Knows, Shape, InFlight, Completed
    <2>5. Shape(p)'
      BY <2>1, <2>3, <2>4 DEF Knows, Shape, TypeOK
    <2>6. Chain(p)' /\ Remembers(p)' /\ CurrentKnown(p)'
      BY <2>1, <2>3 DEF Knows, Chain, Remembers, CurrentKnown
    <2>7. FlightKnown(p)'
      BY <2>1, <2>2, <2>3 DEF Knows, FlightKnown, Finished
    <2> QED BY <2>5, <2>6, <2>7 DEF Knows
  <1>9. ASSUME NEW p \in Procs, Persisted(p) PROVE Knows(p)'
    <2>1. /\ pc[p] \in {"syncResult", "syncFinal"} /\ durable' = visible /\ visible = mem[p]
          /\ pc'[p] = (IF pc[p] = "syncResult" THEN "settle" ELSE "done")
          /\ UNCHANGED <<visible, preview, mem, cur, worker, done, sent>>
      BY <1>9 DEF Persisted, Synced, Knows, Shape, TypeOK
    <2>2. Shape(p)'
      BY <2>1 DEF Knows, Shape, InFlight, Running, Completed
    <2>3. Chain(p)' /\ Remembers(p)' /\ CurrentKnown(p)' /\ FlightKnown(p)'
      BY <2>1 DEF Knows, Chain, Remembers, CurrentKnown, FlightKnown
    <2> QED BY <2>2, <2>3 DEF Knows
  <1>10. ASSUME NEW p \in Procs, Raise(p) PROVE \A q \in Procs : Knows(q)'
    <2>1. CASE pc[p] \in Pooled
      <3>1. pc'[p] = "drain" /\ UNCHANGED <<files, preview, mem, cur, worker, done, sent>>
        BY <1>10, <2>1 DEF Raise, TypeOK
      <3>2. Knows(p)'
        BY <2>1, <3>1 DEF Knows, Shape, Chain, Remembers, CurrentKnown, FlightKnown
      <3> QED BY <1>0, <3>2
    <2>2. CASE pc[p] \notin Pooled
      BY <1>10, <2>2, Forgotten DEF Raise
    <2> QED BY <2>1, <2>2
  <1>11. ASSUME NEW p \in Procs, Refuse(p) \/ Blocked(p) \/ Drained(p) \/ Exit(p) \/ Crash(p)
         PROVE  \A q \in Procs : Knows(q)'
    BY <1>11, Forgotten DEF Refuse, Blocked, Drained, Exit, Crash
  <1>12. CASE PowerLoss
    BY <1>12, Forgotten DEF PowerLoss
  <1>13. ASSUME NEW p \in Procs, NEW r \in Requests, Invoke(p, r) PROVE Knows(p)'
    <2> DEFINE Moves(before, after) ==
                 /\ worker[p][r] = before
                 /\ \A q \in Requests : worker'[p][q] = IF q = r THEN after ELSE worker[p][q]
    <2>1. /\ UNCHANGED <<visible, durable, pc, preview, mem, cur, done>>
          /\ \/ Moves("queued", "sent") /\ \A q \in Requests : sent'[q] = IF q = r THEN sent[r] + 1 ELSE sent[q]
             \/ Moves("queued", "unsent") /\ sent' = sent
             \/ Moves("sent", "ok") /\ sent' = sent
             \/ Moves("sent", "failed") /\ sent' = sent
      BY <1>13 DEF Invoke, Send, StaleEvidence, Answer, NoAnswer, Becomes, TypeOK
    <2>2. r \in InFlight(p) /\ pc[p] \in Sending /\ pc[p] \notin {"saveFinal", "syncFinal", "done"} /\ r \notin done[p]
      BY <2>1 DEF Knows, Shape, InFlight, Running, NoWorkers, Finished
    <2>3. Shape(p)'
      BY <2>1, <2>2 DEF Knows, Shape, Finished, TypeOK
    <2>4. Chain(p)'
      BY <2>1 DEF Knows, Chain
    <2>5. Remembers(p)'
      BY <2>1 DEF Knows, Remembers, FlightKnown
    <2>6. CurrentKnown(p)'
      BY <2>1, <2>2 DEF Knows, CurrentKnown, InFlight, Running, Completed, Finished
    <2>7. FlightKnown(p)'
      BY <2>1 DEF Knows, FlightKnown, Finished
    <2> QED BY <2>3, <2>4, <2>5, <2>6, <2>7 DEF Knows
  <1>14. CASE UNCHANGED vars
    BY <1>14 DEF vars, Knows, Shape, Chain, Remembers, CurrentKnown, FlightKnown, InFlight, Running, Completed
  <1> QED
    BY <1>0, <1>1, <1>2, <1>3, <1>4, <1>5, <1>6, <1>7, <1>8, <1>9, <1>10, <1>11, <1>12, <1>13, <1>14
    DEF Next, Main

----------------------------------------------------------------------------
\* Nothing is sent unless both files admit it, and no save goes back.
LEMMA FilesStep ==
  ASSUME OneAtATime, IInv, [Next]_vars
  PROVE  Files' /\ Extends(durable', durable)
  <1> TypeOK /\ Files /\ \A p \in Procs : Knows(p)
    BY DEF IInv
  <1> USE LabelSets DEF At, Goto, files, locals, Pooled, Working, Pcs
  <1>1. CASE UNCHANGED <<visible, durable, sent>>
    BY <1>1, ExtendsReflexive DEF Files, Admitted, SentOnce
  <1>2. CASE durable' = visible /\ UNCHANGED <<visible, sent>>
    BY <1>2, ExtendsReflexive DEF Files, Admitted, SentOnce
  <1>3. ASSUME NEW p \in Procs, Replace(p) PROVE Files' /\ Extends(durable', durable)
    <2>1. visible' = mem[p] /\ pc[p] \in Working /\ UNCHANGED <<durable, sent>>
      BY <1>3 DEF Replace
    <2>2. Extends(mem[p], durable)
      BY <2>1, ExtendsTransitive DEF Knows, Chain, Files
    <2>3. \A r \in Requests : sent[r] > 0 => Admits(mem[p], r)
      BY <2>1 DEF Knows, Remembers
    <2> QED BY <2>1, <2>2, <2>3, ExtendsReflexive DEF Files, Admitted, SentOnce
  <1>4. ASSUME NEW p \in Procs, NEW r \in Requests, Send(p, r) PROVE Files' /\ Extends(durable', durable)
    <2>1. /\ worker[p][r] = "queued" /\ UNCHANGED <<visible, durable>>
          /\ \A q \in Requests : sent'[q] = IF q = r THEN sent[r] + 1 ELSE sent[q]
      BY <1>4 DEF Send, Becomes, TypeOK
    <2>2. sent[r] = 0 /\ Admits(visible, r) /\ Admits(durable, r)
      BY <2>1 DEF Knows, FlightKnown
    <2> QED BY <2>1, <2>2, ExtendsReflexive DEF Files, Admitted, SentOnce
  <1>5. ASSUME PowerLoss PROVE Files' /\ Extends(durable', durable)
    BY <1>5, ExtendsReflexive DEF PowerLoss, Files, Admitted, SentOnce
  <1> QED
    <2>1. ASSUME NEW p \in Procs, Main(p)
          PROVE  \/ UNCHANGED <<visible, durable, sent>> \/ Replace(p)
                 \/ durable' = visible /\ UNCHANGED <<visible, sent>>
      BY <2>1 DEF Main, Load, Refuse, Record, Scheduled, Collect, Settle, Settled, Finish, Submit, Persisted,
                  Blocked, Drained, Exit, Synced
    <2>2. ASSUME NEW p \in Procs, Start(p) \/ Raise(p) \/ Crash(p)
          PROVE  UNCHANGED <<visible, durable, sent>>
      BY <2>2 DEF Start, Raise, Crash
    <2>3. ASSUME NEW p \in Procs, NEW r \in Requests, Invoke(p, r)
          PROVE  UNCHANGED <<visible, durable, sent>> \/ Send(p, r)
      BY <2>3 DEF Invoke, StaleEvidence, Answer, NoAnswer, Becomes
    <2>4. UNCHANGED vars => UNCHANGED <<visible, durable, sent>>
      BY DEF vars
    <2> QED BY <1>1, <1>2, <1>3, <1>4, <1>5, <2>1, <2>2, <2>3, <2>4 DEF Next

----------------------------------------------------------------------------
LEMMA InitReports == Init => JInv
  BY InitInvariant
  DEF Init, JInv, Honest, Reports, Mine, DurableMine, Charged, NoWorkers, Sending, Pooled

LEMMA ReportStep ==
  ASSUME OneAtATime, JInv, [Next]_vars
  PROVE  JInv'
  <1> IInv /\ TypeOK /\ Files /\ Honest(visible) /\ Honest(durable) /\ \A p \in Procs : Knows(p) /\ Reports(p)
    BY DEF IInv, JInv
  <1>0. IInv'
    BY TypeStep, FilesStep, KnowsStep DEF IInv
  <1> USE LabelSets DEF At, Goto, files, locals, Pooled, Sending
  <1>1. ASSUME NEW p \in Procs, Reports(p)' PROVE \A q \in Procs : Reports(q)'
    <2>1. \A q \in Procs : q = p
      BY DEF OneAtATime
    <2> QED BY <1>1, <2>1
  \* Executions that are over.
  <1>2. ASSUME NEW P, P = Procs \/ (\E p \in Procs : P = {p}), Forget(P) PROVE \A q \in Procs : Reports(q)'
    <2>1. \A q \in Procs : pc'[q] = "idle" /\ worker'[q] = NoWorkers /\ mem'[q] = NoFile
      BY <1>2, Forgotten
    <2> QED BY <2>1 DEF Reports, Mine, DurableMine, Charged, Honest, NoWorkers
  <1>3. ASSUME NEW p \in Procs, Load(p) PROVE JInv'
    <2>1. /\ pc[p] = "load" /\ worker[p] = NoWorkers
          /\ pc'[p] = (IF Uncertain(Loaded(p)) THEN "saveBlocked" ELSE "schedule")
          /\ mem'[p] = Loaded(p) /\ UNCHANGED <<files, worker, sent>>
      BY <1>3 DEF Load, Knows, Shape, TypeOK
    <2>2. Honest(mem[p])'
      <3>1. CASE visible = NoFile
        <4>1. mem'[p] = NewLedger(preview[p])
          BY <2>1, <3>1 DEF Loaded
        <4>2. mem'[p].network = FALSE /\ \A r \in Requests : mem'[p].status[r] = "none"
          BY <4>1 DEF NewLedger
        <4> QED BY <4>2 DEF Honest
      <3>2. CASE visible # NoFile
        BY <2>1, <3>2 DEF Loaded, Honest
      <3> QED BY <3>1, <3>2
    <2>3. Mine(p)' /\ DurableMine(p)' /\ Charged(p)'
      BY <2>1 DEF Mine, DurableMine, Charged, Uncertain, NoWorkers
    <2>4. Honest(visible)' /\ Honest(durable)'
      BY <2>1 DEF Honest
    <2> QED BY <1>0, <1>1, <2>2, <2>3, <2>4 DEF JInv, Reports
  <1>4. ASSUME NEW p \in Procs, Record(p) PROVE JInv'
    <2>1. PICK i \in Pending(p) :
            /\ cur' = [cur EXCEPT ![p] = Requested(p)[i]]
            /\ mem' = [mem EXCEPT ![p].status[Requested(p)[i]] = "uncertain"]
      BY <1>4 DEF Record
    <2> DEFINE r == Requested(p)[i]
    <2>2. /\ pc[p] = "schedule" /\ pc'[p] = "saveAttempt" /\ UNCHANGED <<files, worker, sent>> /\ cur'[p] = r
      BY <1>4, <2>1 DEF Record, TypeOK
    <2>3. preview[p] \in Previews /\ mem[p] \in Ledgers
      BY <2>2 DEF Knows, Shape, TypeOK, Working, Pcs
    <2>4. r \in Requests
      BY <2>3, RequestType DEF Pending, Requested
    <2>5. mem'[p] = [mem[p] EXCEPT !.status[r] = "uncertain"]
      BY <2>1 DEF TypeOK
    <2> HIDE DEF r
    <2>6. /\ mem'[p].network = mem[p].network
          /\ \A q \in Requests : mem'[p].status[q] = IF q = r THEN "uncertain" ELSE mem[p].status[q]
      BY <2>3, <2>4, <2>5 DEF Ledgers
    <2>7. mem[p] # NoFile
      BY <2>3, PoolAssumption
    <2>8. Honest(mem[p])'
      BY <2>2, <2>6, <2>7 DEF Reports, Honest
    <2>9. Mine(p)' /\ DurableMine(p)' /\ Charged(p)'
      <3>1. \A q \in Requests : mem[p].status[q] = "uncertain" => worker[p][q] # "none"
        BY <2>2 DEF Reports, Mine
      <3>2. Mine(p)'
        BY <2>2, <2>6, <3>1 DEF Mine
      <3>3. DurableMine(p)'
        BY <2>2 DEF Reports, DurableMine
      <3>4. Charged(p)'
        BY <2>2, <2>6 DEF Reports, Charged
      <3> QED BY <3>2, <3>3, <3>4
    <2>10. Honest(visible)' /\ Honest(durable)'
      BY <2>2 DEF Honest
    <2> QED BY <1>0, <1>1, <2>8, <2>9, <2>10 DEF JInv, Reports
  <1>5. ASSUME NEW p \in Procs, Start(p) \/ Scheduled(p) \/ Settled(p) \/ Finish(p) \/ Collect(p) PROVE JInv'
    <2>1. UNCHANGED <<files, mem, worker, sent>> /\ pc'[p] \in {"load", "schedule", "wait", "settle", "saveFinal"}
          /\ (pc[p] \in {"schedule", "settle", "wait"} \/ pc'[p] = "load")
      BY <1>5 DEF Start, Scheduled, Settled, Finish, Collect, TypeOK
    <2>2. Mine(p)'
      BY <2>1 DEF Reports, Mine
    <2>3. DurableMine(p)' /\ Charged(p)' /\ Honest(mem[p])'
      BY <2>1 DEF Reports, DurableMine, Charged, Honest
    <2>4. Honest(visible)' /\ Honest(durable)'
      BY <2>1 DEF Honest
    <2> QED BY <1>0, <1>1, <2>2, <2>3, <2>4 DEF JInv, Reports
  <1>6. ASSUME NEW p \in Procs, Settle(p) PROVE JInv'
    <2>1. PICK r \in done[p] :
            /\ worker' = [worker EXCEPT ![p][r] = "settled"]
            /\ mem' = [mem EXCEPT ![p].status[r] = StatusOf[worker[p][r]],
                                  ![p].network = NetworkUsed(mem[p], r, worker[p][r])]
      BY <1>6 DEF Settle
    <2>2. pc[p] = "settle" /\ pc'[p] = "saveResult" /\ UNCHANGED <<files, sent>>
      BY <1>6 DEF Settle, TypeOK
    <2>3. r \in Requests /\ worker[p][r] \in Finished /\ mem[p] \in Ledgers
      BY <2>1, <2>2 DEF Knows, Shape, TypeOK, Working, Pcs
    <2> DEFINE status == StatusOf[worker[p][r]]
               network == NetworkUsed(mem[p], r, worker[p][r])
    <2>4. mem'[p] = [mem[p] EXCEPT !.status[r] = status, !.network = network]
      BY <2>1 DEF TypeOK
    <2>5. /\ \A q \in Requests : worker'[p][q] = IF q = r THEN "settled" ELSE worker[p][q]
      BY <2>1, <2>3 DEF TypeOK
    <2>6. /\ mem[p].network => network
          /\ worker[p][r] # "unsent" => network
          /\ network => mem[p].network \/ worker[p][r] # "unsent"
          /\ worker[p][r] = "unsent" <=> status = "not_dispatched"
          /\ status = "succeeded" => worker[p][r] # "unsent"
      BY <2>3 DEF NetworkUsed, StatusOf, Finished
    <2> HIDE DEF status, network
    <2>7. /\ mem'[p].network = network
          /\ \A q \in Requests : mem'[p].status[q] = IF q = r THEN status ELSE mem[p].status[q]
      BY <2>3, <2>4 DEF Ledgers
    <2>8. worker[p][r] # "unsent" => sent[r] > 0
      BY <2>3 DEF Reports, Charged, Finished
    <2>9. mem[p] # NoFile
      BY <2>3, PoolAssumption
    <2>10. Honest(mem[p])'
      BY <2>2, <2>3, <2>6, <2>7, <2>8, <2>9 DEF Reports, Honest
    <2>11. Mine(p)'
      <3>1. \A q \in Requests : mem[p].status[q] = "uncertain" => worker[p][q] # "none"
        BY <2>2 DEF Reports, Mine
      <3>2. \A q \in Requests : mem'[p].status[q] = "uncertain" => worker'[p][q] # "none"
        BY <2>5, <2>7, <3>1
      <3> QED BY <3>2 DEF Mine
    <2>12. DurableMine(p)'
      BY <2>2, <2>3, <2>5 DEF Reports, DurableMine, Finished
    <2>13. Charged(p)'
      <3>1. worker[p][r] = "unsent" => ~(sent[r] > 0)
        BY <2>3 DEF Knows, FlightKnown
      <3> QED BY <2>2, <2>3, <2>5, <2>6, <2>7, <3>1 DEF Reports, Charged
    <2>14. Honest(visible)' /\ Honest(durable)'
      BY <2>2 DEF Honest
    <2> QED BY <1>0, <1>1, <2>10, <2>11, <2>12, <2>13, <2>14 DEF JInv, Reports
  <1>7. ASSUME NEW p \in Procs, Replace(p) PROVE JInv'
    <2>1. /\ visible' = mem[p] /\ pc[p] \in Saving /\ pc'[p] = SyncOf[pc[p]]
          /\ UNCHANGED <<durable, mem, cur, worker, sent>>
      BY <1>7 DEF Replace, TypeOK
    <2>2. Reports(p)'
      BY <2>1 DEF Reports, Mine, DurableMine, Charged, Honest
    <2>3. Honest(visible)' /\ Honest(durable)'
      BY <2>1 DEF Reports, Honest
    <2> QED BY <1>0, <1>1, <2>2, <2>3 DEF JInv
  <1>8. ASSUME NEW p \in Procs, Submit(p) PROVE JInv'
    <2>1. /\ pc[p] = "syncAttempt" /\ pc'[p] = "schedule" /\ durable' = visible /\ visible = mem[p]
          /\ worker' = [worker EXCEPT ![p][cur[p]] = "queued"] /\ cur[p] \in Requests
          /\ UNCHANGED <<visible, mem, sent>>
      BY <1>8 DEF Submit, Synced, Knows, Shape, CurrentKnown, TypeOK
    <2>2. \A q \in Requests : worker'[p][q] = IF q = cur[p] THEN "queued" ELSE worker[p][q]
      BY <2>1 DEF TypeOK
    <2>3. Mine(p)' /\ DurableMine(p)'
      <3>1. \A q \in Requests : mem[p].status[q] = "uncertain" => worker[p][q] # "none" \/ q = cur[p]
        BY <2>1 DEF Reports, Mine
      <3>2. \A q \in Requests : mem[p].status[q] = "uncertain" => worker'[p][q] # "none"
        BY <2>2, <3>1
      <3> QED BY <2>1, <3>2 DEF Mine, DurableMine
    <2>4. Charged(p)' /\ Honest(mem[p])'
      BY <2>1, <2>2 DEF Reports, Charged, Honest
    <2>5. Honest(visible)' /\ Honest(durable)'
      BY <2>1 DEF Honest
    <2> QED BY <1>0, <1>1, <2>3, <2>4, <2>5 DEF JInv, Reports
  <1>9. ASSUME NEW p \in Procs, Persisted(p) PROVE JInv'
    <2>1. /\ pc[p] \in {"syncResult", "syncFinal"} /\ durable' = visible /\ visible = mem[p]
          /\ pc'[p] \in {"settle", "done"} /\ UNCHANGED <<visible, mem, worker, sent>>
      BY <1>9 DEF Persisted, Synced, Knows, Shape, TypeOK
    <2>2. Mine(p)' /\ DurableMine(p)'
      <3>1. \A q \in Requests : mem[p].status[q] = "uncertain" => worker[p][q] # "none"
        BY <2>1 DEF Reports, Mine
      <3> QED BY <2>1, <3>1 DEF Mine, DurableMine
    <2>3. Charged(p)' /\ Honest(mem[p])'
      BY <2>1 DEF Reports, Charged, Honest
    <2>4. Honest(visible)' /\ Honest(durable)'
      BY <2>1 DEF Honest
    <2> QED BY <1>0, <1>1, <2>2, <2>3, <2>4 DEF JInv, Reports
  <1>10. ASSUME NEW p \in Procs, Raise(p) PROVE JInv'
    <2>1. UNCHANGED <<files, sent>>
      BY <1>10 DEF Raise
    <2>2. \A q \in Procs : Reports(q)'
      <3>1. CASE pc[p] \in Pooled
        <4>1. pc'[p] = "drain" /\ UNCHANGED <<mem, worker>>
          BY <1>10, <3>1 DEF Raise, TypeOK
        <4>2. Reports(p)'
          BY <2>1, <4>1 DEF Reports, Mine, DurableMine, Charged, Honest
        <4> QED BY <1>1, <4>2
      <3>2. CASE pc[p] \notin Pooled
        BY <1>2, <1>10, <3>2 DEF Raise
      <3> QED BY <3>1, <3>2
    <2>3. Honest(visible)' /\ Honest(durable)'
      BY <2>1 DEF Honest
    <2> QED BY <1>0, <2>2, <2>3 DEF JInv
  <1>11. ASSUME NEW p \in Procs, Refuse(p) \/ Blocked(p) \/ Drained(p) \/ Exit(p) \/ Crash(p) PROVE JInv'
    <2>1. Forget({p}) /\ UNCHANGED <<visible, sent>> /\ durable' \in {visible, durable}
      BY <1>11 DEF Refuse, Blocked, Drained, Exit, Crash, Synced
    <2>2. Honest(visible)' /\ Honest(durable)'
      BY <2>1 DEF Honest
    <2> QED BY <1>0, <1>2, <2>1, <2>2 DEF JInv
  <1>12. CASE PowerLoss
    <2>1. Honest(visible)' /\ Honest(durable)'
      BY <1>12 DEF PowerLoss, Honest
    <2> QED BY <1>0, <1>2, <1>12, <2>1 DEF PowerLoss, JInv
  <1>13. ASSUME NEW p \in Procs, NEW r \in Requests, Invoke(p, r) PROVE JInv'
    <2> DEFINE Moves(before, after) ==
                 /\ worker[p][r] = before
                 /\ \A q \in Requests : worker'[p][q] = IF q = r THEN after ELSE worker[p][q]
    <2>1. /\ UNCHANGED <<visible, durable, pc, mem, cur>>
          /\ \/ Moves("queued", "sent") /\ \A q \in Requests : sent'[q] = IF q = r THEN sent[r] + 1 ELSE sent[q]
             \/ Moves("queued", "unsent") /\ sent' = sent
             \/ Moves("sent", "ok") /\ sent' = sent
             \/ Moves("sent", "failed") /\ sent' = sent
      BY <1>13 DEF Invoke, Send, StaleEvidence, Answer, NoAnswer, Becomes, TypeOK
    <2>2. \A q \in Requests : sent[q] > 0 => sent'[q] > 0
      <3>1. \A q \in Requests : sent[q] \in Nat
        BY DEF TypeOK
      <3> QED BY <2>1, <3>1
    <2>3. Honest(visible)' /\ Honest(durable)' /\ Honest(mem[p])'
      BY <2>1, <2>2 DEF Reports, Honest
    <2>4. Mine(p)' /\ DurableMine(p)'
      BY <2>1 DEF Reports, Mine, DurableMine
    <2>5. Charged(p)'
      <3>1. sent[r] \in Nat
        BY DEF TypeOK
      <3> QED BY <2>1, <3>1 DEF Reports, Charged
    <2> QED BY <1>0, <1>1, <2>3, <2>4, <2>5 DEF JInv, Reports
  <1>14. CASE UNCHANGED vars
    BY <1>0, <1>14 DEF vars, JInv, Reports, Mine, DurableMine, Charged, Honest
  <1> QED
    BY <1>3, <1>4, <1>5, <1>6, <1>7, <1>8, <1>9, <1>10, <1>11, <1>12, <1>13, <1>14 DEF Next, Main

----------------------------------------------------------------------------
LEMMA Invariance == ASSUME OneAtATime PROVE Spec => []JInv
  <1>1. JInv /\ [Next]_vars => JInv'
    BY ReportStep
  <1> QED BY InitReports, <1>1, PTL DEF Spec

\* The variables of presence.execute_presence_preview keep their types, for any number of
\* previews, requests and workers.
THEOREM TypeCorrect == ASSUME OneAtATime PROVE Spec => []TypeOK
  <1>1. JInv => TypeOK
    BY DEF JInv, IInv
  <1> QED BY Invariance, <1>1, PTL

\* Executions that do not overlap send no request twice, for any number of previews,
\* requests and workers and every fault.
THEOREM SentAtMostOnce == ASSUME OneAtATime PROVE Spec => []SentOnce
  <1>1. JInv => SentOnce
    BY DEF JInv, IInv, Files
  <1> QED BY Invariance, <1>1, PTL

\* What was sent is named by the checkpoint that a power loss leaves, as uncertain or as
\* succeeded, and by no other preview's checkpoint.
THEOREM NothingDenied == ASSUME OneAtATime PROVE Spec => []SentIsAdmitted
  <1>1. JInv => SentIsAdmitted
    BY DEF JInv, IInv, Files, Admitted, Admits, InPreview, SentIsAdmitted
  <1> QED BY Invariance, <1>1, PTL

\* A durable checkpoint never changes its preview, drops an attempt or forgets an answer.
THEOREM NothingForgotten ==
  ASSUME OneAtATime PROVE Spec => [][Extends(durable', durable)]_durable
  <1>1. JInv /\ [Next]_vars => [Extends(durable', durable)]_durable
    BY FilesStep DEF JInv
  <1> QED BY Invariance, <1>1, PTL DEF Spec

\* An execution that returns reports what is on disk, and the truth about the network.
THEOREM TrueReports == ASSUME OneAtATime PROVE Spec => []ReportIsTrue
  <1>1. ASSUME JInv, NEW p \in Procs, pc[p] = "done"
        PROVE  mem[p] = durable /\ mem[p].network = (\E r \in Requests : sent[r] > 0)
    <2>1. TypeOK /\ Knows(p) /\ Reports(p)
      BY <1>1 DEF JInv, IInv
    <2>2. mem[p] # NoFile /\ mem[p] \in Ledgers /\ InFlight(p) = {}
      BY <1>1, <2>1 DEF Knows, Shape, Working, Pcs, TypeOK
    <2>3. ASSUME NEW r \in Requests, sent[r] > 0 PROVE mem[p].network
      <3>1. mem[p].status[r] \in {"uncertain", "succeeded"}
        BY <1>1, <2>1, <2>3 DEF Knows, Remembers, Admits, Working, Pcs
      <3>2. CASE mem[p].status[r] = "succeeded"
        BY <2>1, <2>2, <3>2 DEF Reports, Honest
      <3>3. CASE mem[p].status[r] = "uncertain"
        <4>1. worker[p][r] # "none"
          BY <1>1, <2>1, <3>3 DEF Reports, Mine, Sending
        <4>2. worker[p][r] \in {"none", "queued", "sent", "settled"} \union Finished
          BY <2>1 DEF TypeOK
        <4>3. worker[p][r] = "settled"
          BY <2>2, <4>1, <4>2 DEF InFlight, Running, Completed
        <4> QED BY <2>1, <2>3, <4>3 DEF Reports, Charged
      <3> QED BY <3>1, <3>2, <3>3
    <2>4. mem[p].network \in BOOLEAN
      BY <2>2 DEF Ledgers
    <2>5. mem[p].network => \E r \in Requests : sent[r] > 0
      BY <2>1, <2>2 DEF Reports, Honest
    <2>6. mem[p] = durable
      BY <1>1, <2>1 DEF Reports, Charged
    <2> QED BY <2>3, <2>4, <2>5, <2>6
  <1>2. JInv => ReportIsTrue
    BY <1>1 DEF ReportIsTrue, At
  <1> QED BY Invariance, <1>2, PTL

\* Nothing is sent while the durable checkpoint holds an uncertain attempt that is not of
\* the execution that sends.
THEOREM UncertaintyBlocks == ASSUME OneAtATime PROVE Spec => UncertainBlocks
  <1> DEFINE Blocks == \A r \in Requests : sent'[r] > sent[r] =>
                         \A q \in Requests : durable.status[q] = "uncertain" =>
                           \E p \in Procs : worker[p][q] # "none"
  <1>1. ASSUME JInv, [Next]_vars PROVE [Blocks]_sent
    <2>1. CASE \E p \in Procs, r \in Requests : Send(p, r)
      <3>1. PICK p \in Procs, r \in Requests : Send(p, r)
        BY <2>1
      <3>2. worker[p][r] = "queued"
        BY <3>1 DEF Send, Becomes
      <3>3. durable # NoFile
        BY <1>1, <3>2 DEF JInv, IInv, Knows, FlightKnown, Admits
      <3>4. \A q \in Requests : durable.status[q] = "uncertain" => worker[p][q] # "none"
        BY <1>1, <3>2, <3>3 DEF JInv, Reports, DurableMine
      <3> QED BY <3>4
    <2>2. CASE ~\E p \in Procs, r \in Requests : Send(p, r)
      <3>1. sent' = sent
        BY <1>1, <2>2
        DEF Next, Main, Invoke, StaleEvidence, Answer, NoAnswer, Start, Raise, Crash, PowerLoss, Load, Refuse,
            Record, Scheduled, Collect, Settle, Settled, Finish, Replace, Submit, Persisted, Blocked, Drained,
            Exit, vars
      <3> QED BY <3>1
    <2> QED BY <2>1, <2>2
  <1>2. JInv /\ [Next]_vars => [Blocks]_sent
    BY <1>1
  <1> QED BY Invariance, <1>2, PTL DEF Spec, UncertainBlocks

----------------------------------------------------------------------------
(* The pool's bound.  What an execution has submitted and does not have on *)
(* disk as succeeded (Open) fills at most the pool: it goes on only while  *)
(* everything it settled has succeeded, and the save that admits the next  *)
(* request also brings those results to disk.                              *)

Safe(r)    == durable # NoFile /\ durable.status[r] = "succeeded"
Open(p)    == {r \in Requests : worker[p][r] # "none" /\ ~Safe(r)}
Untroubled(p) ==
  ~stop[p] => \A r \in Requests : worker[p][r] = "settled" => mem[p].status[r] = "succeeded"
Recording(p) == pc[p] \in {"saveAttempt", "syncAttempt"} =>
  ~stop[p] /\ Cardinality(InFlight(p)) < MaxWorkers

Room(p) == Untroubled(p) /\ Recording(p) /\ Cardinality(Open(p)) <= MaxWorkers

BInv == JInv /\ BoundedExposure /\ \A p \in Procs : Room(p)

LEMMA SmallerIsBounded ==
  ASSUME NEW S, NEW T, S \subseteq T, T \subseteq Requests, Cardinality(T) <= MaxWorkers
  PROVE  Cardinality(S) <= MaxWorkers
  <1>1. IsFiniteSet(T)
    BY PoolAssumption, FS_Subset
  <1>2. Cardinality(S) <= Cardinality(T) /\ IsFiniteSet(S)
    BY <1>1, FS_Subset
  <1>3. Cardinality(S) \in Nat /\ Cardinality(T) \in Nat
    BY <1>1, <1>2, FS_CardinalityType
  <1> QED BY <1>2, <1>3, PoolAssumption

LEMMA NothingIsBounded == Cardinality({}) <= MaxWorkers
  BY FS_EmptySet, PoolAssumption

\* What is safe stays so, and without a send no request becomes exposed.
LEMMA SafeStays ==
  ASSUME OneAtATime, JInv, [Next]_vars, NEW r \in Requests, Safe(r)
  PROVE  Safe(r)'
  BY FilesStep DEF JInv, Extends, Safe

\* Executions that are over have room.
LEMMA ForgottenHasRoom ==
  ASSUME OneAtATime, NEW P, P = Procs \/ (\E p \in Procs : P = {p}), Forget(P)
  PROVE  \A q \in Procs : Room(q)'
  <1> SUFFICES ASSUME NEW q \in Procs PROVE Room(q)'
    OBVIOUS
  <1>1. pc'[q] = "idle" /\ worker'[q] = NoWorkers
    BY Forgotten
  <1>2. Open(q)' = {}
    BY <1>1 DEF Open, NoWorkers
  <1>3. Cardinality(Open(q)') <= MaxWorkers
    BY <1>2, NothingIsBounded
  <1>4. Untroubled(q)' /\ Recording(q)'
    BY <1>1 DEF Untroubled, Recording, NoWorkers
  <1> QED BY <1>3, <1>4 DEF Room

\* A step that submits nothing leaves the pool as full as it was.
LEMMA OpenShrinks ==
  ASSUME OneAtATime, JInv, [Next]_vars, NEW p \in Procs, Room(p),
         \A r \in Requests : worker'[p][r] # "none" => worker[p][r] # "none"
  PROVE  Cardinality(Open(p)') <= MaxWorkers
  <1>1. \A r \in Requests : Safe(r) => Safe(r)'
    BY SafeStays
  <1>2. Open(p)' = {r \in Requests : worker'[p][r] # "none" /\ ~Safe(r)'}
    BY DEF Open
  <1>3. Open(p)' \subseteq Open(p) /\ Open(p) \subseteq Requests
    BY <1>1, <1>2 DEF Open
  <1> QED BY <1>3, SmallerIsBounded DEF Room

LEMMA RoomStep ==
  ASSUME OneAtATime, JInv, \A p \in Procs : Room(p), [Next]_vars
  PROVE  \A q \in Procs : Room(q)'
  <1> TypeOK /\ \A p \in Procs : Knows(p) /\ Reports(p) /\ Room(p)
    BY DEF IInv, JInv
  <1>0. ASSUME NEW p \in Procs, Room(p)' PROVE \A q \in Procs : Room(q)'
    <2>1. \A q \in Procs : q = p
      BY DEF OneAtATime
    <2> QED BY <1>0, <2>1
  <1> USE LabelSets DEF At, Goto, files, locals, Pooled
  <1>1. ASSUME NEW p \in Procs, Load(p) PROVE Room(p)'
    <2>1. /\ worker[p] = NoWorkers /\ pc'[p] \notin {"saveAttempt", "syncAttempt"}
          /\ UNCHANGED worker
      BY <1>1 DEF Load, Knows, Shape, Sending, TypeOK
    <2>2. Untroubled(p)' /\ Recording(p)'
      BY <2>1 DEF Untroubled, Recording, NoWorkers
    <2>3. Cardinality(Open(p)') <= MaxWorkers
      BY <2>1, OpenShrinks
    <2> QED BY <2>2, <2>3 DEF Room
  <1>2. ASSUME NEW p \in Procs, Record(p) PROVE Room(p)'
    <2>1. PICK i \in Pending(p) :
            mem' = [mem EXCEPT ![p].status[Requested(p)[i]] = "uncertain"]
      BY <1>2 DEF Record
    <2> DEFINE r == Requested(p)[i]
    <2>2. /\ pc[p] = "schedule" /\ UNCHANGED <<files, worker, stop, sent>>
          /\ ~stop[p] /\ Cardinality(InFlight(p)) < MaxWorkers
      BY <1>2 DEF Record, MaySubmit
    <2>3. preview[p] \in Previews /\ mem[p] \in Ledgers
      BY <2>2 DEF Knows, Shape, TypeOK, Working, Pcs
    <2>4. r \in Requests /\ mem[p].status[r] = "none"
      BY <2>3, RequestType DEF Pending, Requested
    <2>5. mem'[p] = [mem[p] EXCEPT !.status[r] = "uncertain"]
      BY <2>1 DEF TypeOK
    <2> HIDE DEF r
    <2>6. \A q \in Requests : mem'[p].status[q] = IF q = r THEN "uncertain" ELSE mem[p].status[q]
      BY <2>3, <2>4, <2>5 DEF Ledgers
    <2>7. Untroubled(p)'
      BY <2>2, <2>4, <2>6 DEF Room, Untroubled
    <2>8. InFlight(p)' = InFlight(p)
      BY <2>2 DEF InFlight, Running, Completed
    <2>9. Recording(p)'
      BY <2>2, <2>8 DEF Recording
    <2>10. Cardinality(Open(p)') <= MaxWorkers
      BY <2>2, OpenShrinks
    <2> QED BY <2>7, <2>9, <2>10 DEF Room
  <1>3. ASSUME NEW p \in Procs, Start(p) \/ Scheduled(p) \/ Collect(p) \/ Settled(p) \/ Finish(p)
        PROVE  Room(p)'
    <2>1. UNCHANGED <<mem, worker, stop>> /\ pc'[p] \notin {"saveAttempt", "syncAttempt"}
      BY <1>3 DEF Start, Scheduled, Collect, Settled, Finish, TypeOK
    <2>2. Untroubled(p)' /\ Recording(p)'
      BY <2>1 DEF Room, Untroubled, Recording
    <2>3. Cardinality(Open(p)') <= MaxWorkers
      BY <2>1, OpenShrinks
    <2> QED BY <2>2, <2>3 DEF Room
  <1>4. ASSUME NEW p \in Procs, Settle(p) PROVE Room(p)'
    <2>1. PICK r \in done[p] :
            /\ worker' = [worker EXCEPT ![p][r] = "settled"]
            /\ stop' = [stop EXCEPT ![p] = @ \/ worker[p][r] # "ok"]
            /\ mem' = [mem EXCEPT ![p].status[r] = StatusOf[worker[p][r]],
                                  ![p].network = NetworkUsed(mem[p], r, worker[p][r])]
      BY <1>4 DEF Settle
    <2>2. pc[p] = "settle" /\ pc'[p] = "saveResult"
      BY <1>4 DEF Settle, TypeOK
    <2>3. r \in Requests /\ worker[p][r] \in Finished /\ mem[p] \in Ledgers
      BY <2>1, <2>2 DEF Knows, Shape, TypeOK, Working, Pcs
    <2> DEFINE status == StatusOf[worker[p][r]]
               network == NetworkUsed(mem[p], r, worker[p][r])
    <2>4. mem'[p] = [mem[p] EXCEPT !.status[r] = status, !.network = network]
      BY <2>1 DEF TypeOK
    <2>5. worker[p][r] = "ok" => status = "succeeded"
      BY DEF StatusOf
    <2>6. \A q \in Requests : worker'[p][q] = IF q = r THEN "settled" ELSE worker[p][q]
      BY <2>1, <2>3 DEF TypeOK
    <2>7. ~stop'[p] => ~stop[p] /\ worker[p][r] = "ok"
      BY <2>1 DEF TypeOK
    <2> HIDE DEF status, network
    <2>8. \A q \in Requests : mem'[p].status[q] = IF q = r THEN status ELSE mem[p].status[q]
      BY <2>3, <2>4 DEF Ledgers
    <2>9. Untroubled(p)'
      BY <2>5, <2>6, <2>7, <2>8 DEF Room, Untroubled
    <2>10. Recording(p)'
      BY <2>2 DEF Recording
    <2>11. \A q \in Requests : worker'[p][q] # "none" => worker[p][q] # "none"
      BY <2>3, <2>6 DEF Finished
    <2>12. Cardinality(Open(p)') <= MaxWorkers
      BY <2>11, OpenShrinks
    <2> QED BY <2>9, <2>10, <2>12 DEF Room
  <1>5. ASSUME NEW p \in Procs, Replace(p) \/ Persisted(p) PROVE Room(p)'
    <2>1. /\ UNCHANGED <<mem, worker, stop>>
          /\ pc'[p] \in {"saveAttempt", "syncAttempt"} => pc[p] \in {"saveAttempt", "syncAttempt"}
      BY <1>5 DEF Replace, Persisted, TypeOK
    <2>2. InFlight(p)' = InFlight(p)
      BY <2>1 DEF InFlight, Running, Completed
    <2>3. Untroubled(p)' /\ Recording(p)'
      BY <2>1, <2>2 DEF Room, Untroubled, Recording
    <2>4. Cardinality(Open(p)') <= MaxWorkers
      BY <2>1, OpenShrinks
    <2> QED BY <2>3, <2>4 DEF Room
  <1>6. ASSUME NEW p \in Procs, Submit(p) PROVE Room(p)'
    <2>1. /\ pc[p] = "syncAttempt" /\ pc'[p] = "schedule" /\ durable' = visible /\ visible = mem[p]
          /\ worker' = [worker EXCEPT ![p][cur[p]] = "queued"] /\ cur[p] \in Requests
          /\ UNCHANGED <<visible, mem, stop>> /\ mem[p] # NoFile
      BY <1>6 DEF Submit, Synced, Knows, Shape, CurrentKnown, TypeOK, Working, Pcs
    <2>2. \A q \in Requests : worker'[p][q] = IF q = cur[p] THEN "queued" ELSE worker[p][q]
      BY <2>1 DEF TypeOK
    <2>3. ~stop[p] /\ Cardinality(InFlight(p)) < MaxWorkers
      BY <2>1 DEF Room, Recording
    <2>4. Untroubled(p)' /\ Recording(p)'
      BY <2>1, <2>2 DEF Room, Untroubled, Recording
    <2>5. \A q \in Requests : worker[p][q] = "settled" => Safe(q)'
      BY <2>1, <2>3 DEF Room, Untroubled, Safe
    <2>6. Open(p)' = {q \in Requests : worker'[p][q] # "none" /\ ~Safe(q)'}
      BY DEF Open
    <2>7. \A q \in Requests : worker[p][q] \in {"none", "queued", "sent", "settled"} \union Finished
      BY DEF TypeOK
    <2>8. Open(p)' \subseteq InFlight(p) \union {cur[p]}
      BY <2>2, <2>5, <2>6, <2>7 DEF InFlight, Running, Completed
    <2>9. InFlight(p) \subseteq Requests
      BY DEF InFlight, Running, Completed
    <2>10. IsFiniteSet(InFlight(p))
      BY <2>9, PoolAssumption, FS_Subset
    <2>11. Cardinality(InFlight(p)) \in Nat
      BY <2>10, FS_CardinalityType
    <2>12. Cardinality(InFlight(p) \union {cur[p]}) <= MaxWorkers
      <3>1. Cardinality(InFlight(p) \union {cur[p]})
              = IF cur[p] \in InFlight(p) THEN Cardinality(InFlight(p))
                                          ELSE Cardinality(InFlight(p)) + 1
        BY <2>10, FS_AddElement
      <3> QED BY <2>3, <2>11, <3>1, PoolAssumption
    <2>13. InFlight(p) \union {cur[p]} \subseteq Requests
      BY <2>1, <2>9
    <2>14. Cardinality(Open(p)') <= MaxWorkers
      BY <2>8, <2>12, <2>13, SmallerIsBounded
    <2> QED BY <2>4, <2>14 DEF Room
  <1>7. ASSUME NEW p \in Procs, Raise(p) PROVE \A q \in Procs : Room(q)'
    <2>1. CASE pc[p] \in Pooled
      <3>1. pc'[p] = "drain" /\ UNCHANGED <<mem, worker, stop>>
        BY <1>7, <2>1 DEF Raise, TypeOK
      <3>2. Untroubled(p)' /\ Recording(p)'
        BY <3>1 DEF Room, Untroubled, Recording
      <3>3. Cardinality(Open(p)') <= MaxWorkers
        BY <3>1, OpenShrinks
      <3> QED BY <1>0, <3>2, <3>3 DEF Room
    <2>2. CASE pc[p] \notin Pooled
      BY <1>7, <2>2, ForgottenHasRoom DEF Raise
    <2> QED BY <2>1, <2>2
  <1>8. ASSUME NEW p \in Procs, Refuse(p) \/ Blocked(p) \/ Drained(p) \/ Exit(p) \/ Crash(p)
        PROVE  \A q \in Procs : Room(q)'
    BY <1>8, ForgottenHasRoom DEF Refuse, Blocked, Drained, Exit, Crash
  <1>9. CASE PowerLoss
    BY <1>9, ForgottenHasRoom DEF PowerLoss
  <1>10. ASSUME NEW p \in Procs, NEW r \in Requests, Invoke(p, r) PROVE Room(p)'
    <2>1. PICK before \in {"queued", "sent"}, after \in {"sent"} \union Finished :
            Becomes(p, r, before, after)
      BY <1>10 DEF Invoke, Send, StaleEvidence, Answer, NoAnswer, Finished
    <2>2. /\ worker[p][r] = before /\ UNCHANGED <<pc, mem, stop>>
          /\ \A q \in Requests : worker'[p][q] = IF q = r THEN after ELSE worker[p][q]
      BY <2>1 DEF Becomes, TypeOK
    <2>3. InFlight(p)' = {q \in Requests : worker'[p][q] \in {"queued", "sent"} \union Finished}
      BY DEF InFlight, Running, Completed
    <2>4. InFlight(p) = {q \in Requests : worker[p][q] \in {"queued", "sent"} \union Finished}
      BY DEF InFlight, Running, Completed
    <2>5. InFlight(p)' = InFlight(p)
      BY <2>1, <2>2, <2>3, <2>4
    <2>6. Untroubled(p)'
      BY <2>1, <2>2 DEF Room, Untroubled, Finished
    <2>7. Recording(p)'
      BY <2>2, <2>5 DEF Room, Recording
    <2>8. Cardinality(Open(p)') <= MaxWorkers
      BY <2>1, <2>2, OpenShrinks
    <2> QED BY <2>6, <2>7, <2>8 DEF Room
  <1>11. ASSUME UNCHANGED vars, NEW p \in Procs PROVE Room(p)'
    BY <1>11 DEF vars, Room, Untroubled, Recording, Open, Safe, InFlight, Running, Completed
  <1> QED
    BY <1>0, <1>1, <1>2, <1>3, <1>4, <1>5, <1>6, <1>7, <1>8, <1>9, <1>10, <1>11 DEF Next, Main

\* A request becomes exposed only by being sent, and then it is one of the open ones.
LEMMA ExposureStep ==
  ASSUME OneAtATime, BInv, [Next]_vars
  PROVE  BoundedExposure'
  <1>1. JInv /\ JInv' /\ (\A p \in Procs : Room(p)) /\ \A p \in Procs : Room(p)'
    BY ReportStep, RoomStep DEF BInv
  <1>2. Exposed = {r \in Requests : sent[r] > 0 /\ ~Safe(r)}
    BY DEF Exposed, Safe
  <1>3. Exposed' = {r \in Requests : sent'[r] > 0 /\ ~Safe(r)'}
    BY DEF Exposed, Safe
  <1>4. CASE sent' = sent
    <2>1. \A r \in Requests : Safe(r) => Safe(r)'
      BY <1>1, SafeStays
    <2>2. Exposed' \subseteq Exposed /\ Exposed \subseteq Requests
      BY <1>2, <1>3, <1>4, <2>1
    <2> QED BY <2>2, SmallerIsBounded DEF BInv, BoundedExposure
  <1>5. ASSUME NEW p \in Procs, NEW r \in Requests, Send(p, r) PROVE BoundedExposure'
    <2>1. worker'[p][r] = "sent"
      BY <1>1, <1>5 DEF Send, Becomes, JInv, IInv, TypeOK
    <2>2. DurableMine(p)' /\ Admitted' /\ Room(p)'
      BY <1>1 DEF JInv, IInv, Files, Reports
    <2>3. ASSUME NEW q \in Requests, sent'[q] > 0, ~Safe(q)' PROVE worker'[p][q] # "none"
      <3>1. Admits(durable, q)'
        BY <2>2, <2>3 DEF Admitted
      <3>2. durable' # NoFile /\ durable'.status[q] = "uncertain"
        BY <2>3, <3>1 DEF Admits, Safe
      <3> QED BY <2>1, <2>2, <3>2 DEF DurableMine
    <2>4. Open(p)' = {q \in Requests : worker'[p][q] # "none" /\ ~Safe(q)'}
      BY DEF Open
    <2>5. Exposed' \subseteq Open(p)' /\ Open(p)' \subseteq Requests
      BY <1>3, <2>3, <2>4
    <2>6. Cardinality(Open(p)') <= MaxWorkers
      BY <2>2 DEF Room
    <2>7. Cardinality(Exposed') <= MaxWorkers
      BY <2>5, <2>6, SmallerIsBounded
    <2> QED BY <2>7 DEF BoundedExposure
  <1>6. sent' = sent \/ \E p \in Procs, r \in Requests : Send(p, r)
    BY DEF Next, Main, Invoke, StaleEvidence, Answer, NoAnswer, Start, Raise, Crash, PowerLoss, Load,
           Refuse, Record, Scheduled, Collect, Settle, Settled, Finish, Replace, Submit, Persisted,
           Blocked, Drained, Exit, vars
  <1> QED BY <1>4, <1>5, <1>6

\* At most MaxWorkers requests have been sent without their answer being safe on disk,
\* counted over all executions of a checkpoint that do not overlap.
THEOREM ExposureIsBounded == ASSUME OneAtATime PROVE Spec => []BoundedExposure
  <1>1. Init => BInv
    <2> SUFFICES ASSUME Init PROVE BInv
      OBVIOUS
    <2>1. Exposed = {} /\ \A p \in Procs : Open(p) = {}
      BY DEF Init, Exposed, Open, NoWorkers
    <2>2. BoundedExposure /\ \A p \in Procs : Cardinality(Open(p)) <= MaxWorkers
      BY <2>1, NothingIsBounded DEF BoundedExposure
    <2>3. \A p \in Procs : Untroubled(p) /\ Recording(p)
      BY DEF Init, Untroubled, Recording, NoWorkers
    <2> QED BY <2>2, <2>3, InitReports DEF BInv, Room
  <1>2. BInv /\ [Next]_vars => BInv'
    BY ReportStep, RoomStep, ExposureStep DEF BInv
  <1>3. BInv => BoundedExposure
    BY DEF BInv
  <1> QED BY <1>1, <1>2, <1>3, PTL DEF Spec

----------------------------------------------------------------------------
(* What the checkpoint promises.  No ledger claims an answer that nobody   *)
(* paid for (Earned), so every save is a step of PaidRequests and every    *)
(* send another; a power loss is a save or nothing.                        *)

Earned(l) == l # NoFile => \A r \in Requests : l.status[r] = "succeeded" => sent[r] > 0
EInv == JInv /\ Earned(visible) /\ Earned(durable) /\ \A p \in Procs : Earned(mem[p])

LEMMA EarnedStep ==
  ASSUME OneAtATime, EInv, [Next]_vars
  PROVE  EInv'
  <1> JInv /\ IInv /\ TypeOK /\ Earned(visible) /\ Earned(durable)
      /\ \A p \in Procs : Knows(p) /\ Reports(p) /\ Earned(mem[p])
    BY DEF EInv, JInv, IInv
  <1>0. JInv'
    BY ReportStep
  <1>1. ASSUME NEW p \in Procs, Earned(mem[p])' PROVE \A q \in Procs : Earned(mem[q])'
    <2>1. \A q \in Procs : q = p
      BY DEF OneAtATime
    <2> QED BY <1>1, <2>1
  <1>2. ASSUME NEW P, P = Procs \/ (\E p \in Procs : P = {p}), Forget(P)
        PROVE  \A q \in Procs : Earned(mem[q])'
    BY <1>2, Forgotten DEF Earned
  <1> USE DEF files, locals
  <1>3. ASSUME NEW p \in Procs, Load(p) PROVE EInv'
    <2>1. mem'[p] = Loaded(p) /\ UNCHANGED <<files, sent>>
      BY <1>3 DEF Load, TypeOK
    <2>2. CASE visible = NoFile
      <3>1. \A r \in Requests : mem'[p].status[r] = "none"
        BY <2>1, <2>2 DEF Loaded, NewLedger
      <3>2. Earned(mem[p])'
        BY <3>1 DEF Earned
      <3> QED BY <1>0, <1>1, <2>1, <3>2 DEF EInv, Earned
    <2>3. CASE visible # NoFile
      <3>1. Earned(mem[p])'
        BY <2>1, <2>3 DEF Loaded, Earned
      <3> QED BY <1>0, <1>1, <2>1, <3>1 DEF EInv, Earned
    <2> QED BY <2>2, <2>3
  <1>4. ASSUME NEW p \in Procs, Record(p) PROVE EInv'
    <2>1. PICK i \in Pending(p) :
            mem' = [mem EXCEPT ![p].status[Requested(p)[i]] = "uncertain"]
      BY <1>4 DEF Record
    <2> DEFINE r == Requested(p)[i]
    <2>2. pc[p] = "schedule" /\ UNCHANGED <<files, sent>>
      BY <1>4 DEF Record, At
    <2>3. preview[p] \in Previews /\ mem[p] \in Ledgers
      BY <2>2 DEF Knows, Shape, TypeOK, Working, Pcs, Pooled
    <2>4. r \in Requests
      BY <2>3, RequestType DEF Pending, Requested
    <2>5. mem'[p] = [mem[p] EXCEPT !.status[r] = "uncertain"]
      BY <2>1 DEF TypeOK
    <2> HIDE DEF r
    <2>6. \A q \in Requests : mem'[p].status[q] = IF q = r THEN "uncertain" ELSE mem[p].status[q]
      BY <2>3, <2>4, <2>5 DEF Ledgers
    <2>7. mem[p] # NoFile
      BY <2>3, PoolAssumption
    <2>8. Earned(mem[p])'
      BY <2>2, <2>6, <2>7 DEF Earned
    <2> QED BY <1>0, <1>1, <2>2, <2>8 DEF EInv, Earned
  <1>5. ASSUME NEW p \in Procs, Settle(p) PROVE EInv'
    <2>1. PICK r \in done[p] :
            mem' = [mem EXCEPT ![p].status[r] = StatusOf[worker[p][r]],
                               ![p].network = NetworkUsed(mem[p], r, worker[p][r])]
      BY <1>5 DEF Settle
    <2>2. pc[p] = "settle" /\ UNCHANGED <<files, sent>>
      BY <1>5 DEF Settle, At
    <2>3. r \in Requests /\ worker[p][r] \in Finished /\ mem[p] \in Ledgers
      BY <2>1, <2>2 DEF Knows, Shape, TypeOK, Working, Pcs, Pooled
    <2> DEFINE status == StatusOf[worker[p][r]]
               network == NetworkUsed(mem[p], r, worker[p][r])
    <2>4. mem'[p] = [mem[p] EXCEPT !.status[r] = status, !.network = network]
      BY <2>1 DEF TypeOK
    <2>5. status = "succeeded" => worker[p][r] = "ok"
      BY <2>3 DEF StatusOf, Finished
    <2> HIDE DEF status, network
    <2>6. \A q \in Requests : mem'[p].status[q] = IF q = r THEN status ELSE mem[p].status[q]
      BY <2>3, <2>4 DEF Ledgers
    <2>7. worker[p][r] = "ok" => sent[r] > 0
      BY <2>3 DEF Reports, Charged
    <2>8. mem[p] # NoFile
      BY <2>3, PoolAssumption
    <2>9. Earned(mem[p])'
      BY <2>2, <2>5, <2>6, <2>7, <2>8 DEF Earned
    <2> QED BY <1>0, <1>1, <2>2, <2>9 DEF EInv, Earned
  <1>6. ASSUME NEW p \in Procs,
               \/ Start(p) \/ Scheduled(p) \/ Settled(p) \/ Finish(p) \/ Collect(p)
               \/ Replace(p) \/ Submit(p) \/ Persisted(p)
        PROVE  EInv'
    <2>1. /\ UNCHANGED <<mem, sent>> /\ visible' \in {visible, mem[p]}
          /\ durable' \in {durable, visible}
      BY <1>6 DEF Start, Scheduled, Settled, Finish, Collect, Replace, Submit, Persisted, Synced
    <2> QED BY <1>0, <2>1 DEF EInv, Earned
  <1>7. ASSUME NEW p \in Procs, Raise(p) PROVE EInv'
    <2>1. UNCHANGED <<files, sent>> /\ (UNCHANGED mem \/ Forget({p}))
      BY <1>7 DEF Raise
    <2>2. \A q \in Procs : Earned(mem[q])'
      BY <1>2, <2>1 DEF Earned
    <2> QED BY <1>0, <2>1, <2>2 DEF EInv, Earned
  <1>8. ASSUME NEW p \in Procs, Refuse(p) \/ Blocked(p) \/ Drained(p) \/ Exit(p) \/ Crash(p)
        PROVE  EInv'
    <2>1. Forget({p}) /\ UNCHANGED <<visible, sent>> /\ durable' \in {visible, durable}
      BY <1>8 DEF Refuse, Blocked, Drained, Exit, Crash, Synced
    <2> QED BY <1>0, <1>2, <2>1 DEF EInv, Earned
  <1>9. CASE PowerLoss
    BY <1>0, <1>2, <1>9 DEF PowerLoss, EInv, Earned
  <1>10. ASSUME NEW p \in Procs, NEW r \in Requests, Invoke(p, r) PROVE EInv'
    <2>1. UNCHANGED <<files, mem>> /\ (sent' = sent \/ sent' = [sent EXCEPT ![r] = @ + 1])
      BY <1>10 DEF Invoke, Send, StaleEvidence, Answer, NoAnswer, Becomes
    <2>2. \A q \in Requests : sent[q] \in Nat /\ (sent[q] > 0 => sent'[q] > 0)
      BY <2>1 DEF TypeOK
    <2> QED BY <1>0, <2>1, <2>2 DEF EInv, Earned
  <1>11. CASE UNCHANGED vars
    BY <1>0, <1>11 DEF vars, EInv, Earned
  <1> QED
    BY <1>3, <1>4, <1>5, <1>6, <1>7, <1>8, <1>9, <1>10, <1>11 DEF Next, Main

\* A send is a Send of PaidRequests, and any other step a Record or a stutter.
LEMMA CheckpointStep ==
  ASSUME OneAtATime, EInv, [Next]_vars
  PROVE  [Checkpoint!Next]_<<LedgerOf(durable), sent>>
  <1>1. EInv' /\ JInv /\ JInv' /\ TypeOK /\ TypeOK' /\ Files /\ Files' /\ Extends(durable', durable)
    BY EarnedStep, FilesStep, ReportStep DEF EInv, JInv, IInv, Files
  <1>2. ASSUME NEW p \in Procs, NEW r \in Requests, Send(p, r) PROVE Checkpoint!Send(r)
    <2>1. worker[p][r] = "queued" /\ UNCHANGED durable /\ sent' = [sent EXCEPT ![r] = @ + 1]
      BY <1>2 DEF Send, Becomes, files
    <2>2. Admits(durable, r) /\ sent[r] = 0
      BY <1>1, <2>1 DEF JInv, IInv, Knows, FlightKnown
    <2>3. durable.status[r] = "uncertain"
      BY <2>2 DEF EInv, Earned, Admits
    <2>4. LedgerOf(durable)[r] = "uncertain" /\ LedgerOf(durable)' = LedgerOf(durable)
      BY <2>1, <2>2, <2>3 DEF LedgerOf, Admits
    <2>5. sent' = [sent EXCEPT ![r] = 1]
      BY <2>1, <2>2 DEF TypeOK
    <2> QED BY <2>2, <2>4, <2>5 DEF Checkpoint!Send
  <1>3. CASE sent' = sent
    <2>1. LedgerOf(durable)' \in [Requests -> {"none", "uncertain"} \union Checkpoint!Settled]
      BY <1>1 DEF TypeOK, LedgerOf, Ledgers, Statuses, Checkpoint!Settled
    <2>2. ASSUME NEW r \in Requests
          PROVE  /\ LedgerOf(durable)[r] # "none" => LedgerOf(durable)'[r] # "none"
                 /\ LedgerOf(durable)[r] \in Checkpoint!Settled =>
                      LedgerOf(durable)'[r] = LedgerOf(durable)[r]
      BY <1>1 DEF Extends, LedgerOf, Checkpoint!Settled
    <2>3. ASSUME NEW r \in Requests
          PROVE  /\ LedgerOf(durable)'[r] = "succeeded" => sent[r] = 1
                 /\ LedgerOf(durable)'[r] = "not_dispatched" => sent[r] = 0
      <3>1. sent[r] \in Nat /\ sent[r] <= 1
        BY <1>1 DEF TypeOK, Files, SentOnce
      <3>2. Earned(durable)' /\ (sent'[r] > 0 => Admits(durable, r)')
        BY <1>1 DEF EInv, Files, Admitted
      <3> QED BY <1>3, <3>1, <3>2 DEF Earned, Admits, LedgerOf
    <2> QED BY <1>3, <2>1, <2>2, <2>3 DEF Checkpoint!Next, Checkpoint!Record
  <1>4. sent' = sent \/ \E p \in Procs, r \in Requests : Send(p, r)
    BY DEF Next, Main, Invoke, StaleEvidence, Answer, NoAnswer, Start, Raise, Crash, PowerLoss, Load,
           Refuse, Record, Scheduled, Collect, Settle, Settled, Finish, Replace, Submit, Persisted,
           Blocked, Drained, Exit, vars
  <1> QED BY <1>2, <1>3, <1>4 DEF Checkpoint!Next

\* The checkpoint of executions that do not overlap is an account of paid requests: each
\* is admitted on disk before it is sent, sent once, and what is settled is true and
\* stays, for any number of previews, requests and workers and under every fault.
THEOREM CheckpointIsAnAccount == ASSUME OneAtATime PROVE Spec => LedgerKept
  <1>1. Init => EInv /\ Checkpoint!Init
    BY InitReports DEF Init, EInv, Earned, LedgerOf, Checkpoint!Init
  <1>2. EInv /\ [Next]_vars => EInv' /\ [Checkpoint!Next]_<<LedgerOf(durable), sent>>
    BY EarnedStep, CheckpointStep
  <1> QED BY <1>1, <1>2, PTL DEF Spec, LedgerKept, Checkpoint!Spec
============================================================================
