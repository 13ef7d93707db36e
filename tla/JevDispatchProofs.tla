------------------------- MODULE JevDispatchProofs -------------------------
(***************************************************************************)
(* Why no request is sent twice.  The lock makes the ledger in memory at   *)
(* least as new as the checkpoint on disk (MemoryFresh); a checkpoint is   *)
(* at least as new as what a power loss leaves (VisibleFresh), and that    *)
(* names whatever was sent.  So a request that the ledger in memory does   *)
(* not name was never sent, and is named before it is (CurrentUnsent).     *)
(* Why no run exceeds its budget: what it counted covers what it sends     *)
(* (Covered).  Why each checkpoint is an account of PaidRequests: it holds *)
(* no answer that was not paid for (Earned).                               *)
(***************************************************************************)
EXTENDS JevDispatch, FiniteSetTheorems, SequenceTheorems, TLAPS

Held == {"read", "next", "send", "wait"} \union Saving \union Syncing
Working == Held \ {"read"}

LockHeld ==
  /\ \A p \in Procs : pc[p] \in Held => lock[Dir(p)] = p
  /\ \A p \in Procs, d \in Dirs : lock[d] = p => pc[p] \in Held /\ Dir(p) = d

MemoryFresh(p) ==
  pc[p] \in Working => /\ mem[p] # NoFile /\ mem[p].source = Preview(p)
                       /\ Extends(mem[p], visible[Dir(p)])

VisibleFresh == \A d \in Dirs : Extends(visible[d], durable[d])

CurrentUnsent(p) ==
  /\ pc[p] \in {"saveAttempt", "syncAttempt", "send"} =>
       mem[p].status[cur[p]] = "uncertain" /\ sent[Dir(p)][cur[p]] = <<>>
  /\ pc[p] \in {"saveAttempt", "syncAttempt", "send", "wait"} => cur[p] \in Wanted(Preview(p))

OnDisk(p) ==
  /\ pc[p] \in Syncing \union {"send", "wait"} => visible[Dir(p)] = mem[p]
  /\ pc[p] \in {"send", "wait"} => durable[Dir(p)] = mem[p]

Knows(p) == MemoryFresh(p) /\ CurrentUnsent(p) /\ OnDisk(p)

IInv ==
  /\ TypeOK /\ LockHeld /\ \A p \in Procs : Knows(p)
  /\ VisibleFresh /\ SentIsDurable /\ AtMostOnce

----------------------------------------------------------------------------
LEMMA ExtendsTransitive ==
  ASSUME NEW j, NEW k, NEW l, Extends(l, k), Extends(k, j)
  PROVE  Extends(l, j)
  BY DEF Extends, Follows

LEMMA ExtendsReflexive == \A l : Extends(l, l)
  BY DEF Extends, Follows

\* The batch of a process that has started.
LEMMA BatchType ==
  ASSUME TypeOK, NEW p \in Procs, pc[p] # "idle"
  PROVE  Dir(p) \in Dirs /\ Preview(p) \in Previews
  <1>1. cmd[p] \in Commands /\ at[p] \in 1..Len(cmd[p].batches)
    BY DEF TypeOK
  <1>2. cmd[p].batches \in Seq(Batches)
    BY <1>1, DispatchAssumption
  <1>3. cmd[p].batches[at[p]] \in Batches
    BY <1>1, <1>2
  <1> QED BY <1>3 DEF Batch, Dir, Preview, Batches

LEMMA WantedType == \A v \in Previews : Wanted(v) \subseteq Requests
  BY DispatchAssumption DEF Wanted

LEMMA RequestType ==
  ASSUME TypeOK, NEW p \in Procs, pc[p] # "idle", NEW i \in Pending(p)
  PROVE  /\ RequestAt(p, i) \in Wanted(Preview(p))
         /\ RequestAt(p, i) \in Requests
         /\ mem[p].status[RequestAt(p, i)] = "none"
  <1>1. Preview(p) \in Previews
    BY BatchType
  <1>2. RequestAt(p, i) \in Wanted(Preview(p)) /\ mem[p].status[RequestAt(p, i)] = "none"
    BY DEF Pending, RequestAt, Wanted
  <1> QED BY <1>1, <1>2, WantedType

\* The request that a process works on, and the ledger that it has in memory.
LEMMA CurrentType ==
  ASSUME IInv, NEW p \in Procs
  PROVE  /\ pc[p] \in Working => mem[p] \in Ledgers
         /\ pc[p] \in {"saveAttempt", "syncAttempt", "send", "wait"} => cur[p] \in Requests
  <1>1. pc[p] \in Working => mem[p] \in Ledgers
    BY DEF IInv, TypeOK, Knows, MemoryFresh
  <1>2. ASSUME pc[p] \in {"saveAttempt", "syncAttempt", "send", "wait"} PROVE cur[p] \in Requests
    BY <1>2, BatchType, WantedType DEF IInv, Knows, CurrentUnsent
  <1> QED BY <1>1, <1>2

LEMMA CountType == \A l : Cardinality(Attempts(l)) \in Nat
  BY DispatchAssumption, FS_Subset, FS_CardinalityType DEF Attempts

LEMMA OutstandingType ==
  ASSUME NEW d, NEW v \in Previews
  PROVE  Outstanding(d, v) \in Nat
  <1>1. Wanted(v) \ Attempts(visible[d]) \subseteq Requests
    BY WantedType
  <1> QED BY <1>1, DispatchAssumption, FS_Subset, FS_CardinalityType DEF Outstanding

----------------------------------------------------------------------------
LEMMA InitInvariant == Init => IInv
  <1> SUFFICES ASSUME Init PROVE IInv
    OBVIOUS
  <1>1. TypeOK
    BY DEF Init, TypeOK, Pcs, Saving, Syncing
  <1> QED
    BY <1>1, DispatchAssumption
    DEF Init, IInv, LockHeld, Knows, MemoryFresh, VisibleFresh, CurrentUnsent, OnDisk, SentIsDurable,
        AtMostOnce, Extends, Held, Working, Saving, Syncing

\* Every step keeps the types.
LEMMA TypeStep == IInv /\ [Next]_vars => TypeOK'
  <1> SUFFICES ASSUME IInv, [Next]_vars PROVE TypeOK'
    OBVIOUS
  <1> TypeOK
    BY DEF IInv
  <1> USE DispatchAssumption DEF At, Goto, files, Saving, Syncing, Pcs
  <1>1. ASSUME NEW p \in Procs, Start(p) PROVE TypeOK'
    BY <1>1, BatchType DEF Start, TypeOK
  <1>2. ASSUME NEW p \in Procs, CheckBatch(p) PROVE TypeOK'
    <2>1. Dir(p) \in Dirs /\ Preview(p) \in Previews
      BY <1>2, BatchType DEF CheckBatch
    <2>2. todo[p] + Outstanding(Dir(p), Preview(p)) \in Nat
      BY <2>1, OutstandingType DEF TypeOK
    <2> DEFINE found == todo[p] + Outstanding(Dir(p), Preview(p))
    <2>3. todo' = [todo EXCEPT ![p] = found] /\ found \in Nat
      BY <1>2, <2>2 DEF CheckBatch
    <2> HIDE DEF found
    <2>4. todo' \in [Procs -> Nat]
      BY <2>3 DEF TypeOK
    <2>5. CASE at' = [at EXCEPT ![p] = @ + 1] /\ UNCHANGED pc /\ ~LastBatch(p)
      BY <1>2, <2>4, <2>5 DEF CheckBatch, LastBatch, TypeOK
    <2>6. CASE at' = [at EXCEPT ![p] = 1] /\ Goto(p, "lock")
      BY <1>2, <2>4, <2>6 DEF CheckBatch, TypeOK
    <2> QED BY <1>2, <2>5, <2>6 DEF CheckBatch
  <1>3. ASSUME NEW p \in Procs, RefuseBudget(p) PROVE TypeOK'
    BY <1>3, BatchType DEF RefuseBudget, Ends, TypeOK
  <1>4. ASSUME NEW p \in Procs, Lock(p) PROVE TypeOK'
    BY <1>4, BatchType DEF Lock, LockFree, TypeOK
  <1>5. ASSUME NEW p \in Procs, LockBusy(p) PROVE TypeOK'
    BY <1>5, BatchType DEF LockBusy, Ends, TypeOK
  <1>6. ASSUME NEW p \in Procs, ReadCheckpoint(p) PROVE TypeOK'
    BY <1>6, BatchType, CountType DEF ReadCheckpoint, NewLedger, PriorCount, Ledgers, Statuses, TypeOK
  <1>7. ASSUME NEW p \in Procs, RefuseCheckpoint(p) PROVE TypeOK'
    BY <1>7, BatchType DEF RefuseCheckpoint, Ends, TypeOK
  <1>8. ASSUME NEW p \in Procs, Record(p) PROVE TypeOK'
    <2>1. PICK i \in Pending(p) : /\ cur' = [cur EXCEPT ![p] = RequestAt(p, i)]
                                 /\ SetStatus(p, RequestAt(p, i), "uncertain")
      BY <1>8 DEF Record
    <2>2. RequestAt(p, i) \in Requests /\ mem[p] \in Ledgers
      BY <1>8, RequestType, CurrentType DEF Record, Working, Held
    <2>3. cur' \in [Procs -> Requests \union {NoRequest}]
      BY <2>1, <2>2 DEF TypeOK
    <2>4. [mem[p] EXCEPT !.status[RequestAt(p, i)] = "uncertain"] \in Ledgers
      BY <2>2 DEF Ledgers, Statuses
    <2>5. mem' \in [Procs -> Ledgers \union {NoFile}]
      BY <2>1, <2>4 DEF SetStatus, TypeOK
    <2> QED BY <1>8, <2>3, <2>5 DEF Record, TypeOK
  <1>9. ASSUME NEW p \in Procs, Replace(p) PROVE TypeOK'
    BY <1>9, BatchType DEF Replace, Sync, TypeOK
  <1>10. ASSUME NEW p \in Procs, Saved(p) PROVE TypeOK'
    <2>1. durable' \in [Dirs -> Ledgers \union {NoFile}]
      BY <1>10, BatchType DEF Saved, SyncDir, TypeOK
    <2>2. lock' \in [Dirs -> Procs \union {Nobody}]
      BY <1>10 DEF Saved, Ends, TypeOK
    <2>3. pc' \in [Procs -> Pcs] /\ \A q \in Procs : pc'[q] = "idle" <=> pc[q] = "idle"
      BY <1>10 DEF Saved, Ends, TypeOK
    <2> QED BY <1>10, <2>1, <2>2, <2>3 DEF Saved, TypeOK
  <1>11. ASSUME NEW p \in Procs, SaveFails(p) PROVE TypeOK'
    BY <1>11, BatchType DEF SaveFails, Ends, TypeOK
  <1>12. ASSUME NEW p \in Procs, Send(p) PROVE TypeOK'
    <2>1. Dir(p) \in Dirs /\ cur[p] \in Requests
      BY <1>12, BatchType, CurrentType DEF Send
    <2>2. sent' \in [Dirs -> [Requests -> Seq(Procs)]]
      BY <1>12, <2>1 DEF Send, TypeOK
    <2> QED BY <1>12, <2>2 DEF Send, TypeOK
  <1>13. ASSUME NEW p \in Procs, Answer(p) PROVE TypeOK'
    <2>1. mem[p] \in Ledgers /\ cur[p] \in Requests
      BY <1>13, CurrentType DEF Answer, Working, Held
    <2>2. [mem[p] EXCEPT !.status[cur[p]] = "succeeded"] \in Ledgers
      BY <2>1 DEF Ledgers, Statuses
    <2>3. mem' \in [Procs -> Ledgers \union {NoFile}]
      BY <1>13, <2>2 DEF Answer, SetStatus, TypeOK
    <2> QED BY <1>13, <2>3 DEF Answer, TypeOK
  <1>14. ASSUME NEW p \in Procs, NoAnswer(p) PROVE TypeOK'
    BY <1>14, BatchType DEF NoAnswer, TypeOK
  <1>15. ASSUME NEW p \in Procs, EndBatch(p) PROVE TypeOK'
    <2>1. new' \in [Procs -> Int]
      BY <1>15, CountType DEF EndBatch, TypeOK
    <2>2. lock' \in [Dirs -> Procs \union {Nobody}]
      BY <1>15 DEF EndBatch, TypeOK
    <2>3. CASE ~LastBatch(p) /\ at' = [at EXCEPT ![p] = @ + 1] /\ Goto(p, "lock")
      BY <1>15, <2>1, <2>2, <2>3 DEF EndBatch, LastBatch, TypeOK
    <2>4. CASE Goto(p, "done") /\ UNCHANGED at
      BY <1>15, <2>1, <2>2, <2>4 DEF EndBatch, TypeOK
    <2> QED BY <1>15, <2>3, <2>4 DEF EndBatch
  <1>16. ASSUME NEW p \in Procs, Crash(p) PROVE TypeOK'
    BY <1>16, BatchType DEF Crash, Ends, Running, TypeOK
  <1>17. ASSUME PowerLoss PROVE TypeOK'
    BY <1>17 DEF PowerLoss, Running, TypeOK
  <1>18. CASE UNCHANGED vars
    BY <1>18 DEF vars, TypeOK
  <1> QED
    BY <1>1, <1>2, <1>3, <1>4, <1>5, <1>6, <1>7, <1>8, <1>9, <1>10, <1>11, <1>12,
       <1>13, <1>14, <1>15, <1>16, <1>17, <1>18
    DEF Next, Plan, Execute

----------------------------------------------------------------------------
\* Only two steps write a checkpoint: the rename, and the sync that makes it durable.
LEMMA WhoWrites ==
  ASSUME NEW q \in Procs, Plan(q) \/ Execute(q) \/ Crash(q)
  PROVE  /\ visible' = visible \/ Replace(q)
         /\ durable' = durable \/ Saved(q)
         /\ sent' = sent \/ Send(q)
  BY DEF Plan, Execute, Start, CheckBatch, RefuseBudget, Lock, LockBusy, ReadCheckpoint,
         RefuseCheckpoint, Record, Replace, Saved, SaveFails, Send, Answer, NoAnswer, EndBatch, Crash,
         files

\* A process sees nothing of the steps of another one where it holds the lock.
LEMMA Frame ==
  ASSUME IInv, NEW q \in Procs, NEW p \in Procs, p # q, Plan(q) \/ Execute(q) \/ Crash(q)
  PROVE  /\ pc'[p] = pc[p] /\ mem'[p] = mem[p] /\ cur'[p] = cur[p]
         /\ Dir(p)' = Dir(p) /\ Preview(p)' = Preview(p)
         /\ pc[p] \in Held => /\ visible'[Dir(p)] = visible[Dir(p)]
                              /\ durable'[Dir(p)] = durable[Dir(p)]
                              /\ sent'[Dir(p)] = sent[Dir(p)]
  <1> USE DEF At, Goto, files, Ends, SetStatus
  <1>1. /\ pc'[p] = pc[p] /\ mem'[p] = mem[p] /\ cur'[p] = cur[p]
        /\ cmd'[p] = cmd[p] /\ at'[p] = at[p]
    BY DEF IInv, TypeOK, Plan, Execute, Start, CheckBatch, RefuseBudget, Lock, LockBusy,
           ReadCheckpoint, RefuseCheckpoint, Record, Replace, Saved, SaveFails, Send, Answer,
           NoAnswer, EndBatch, Crash
  <1>2. Dir(p)' = Dir(p) /\ Preview(p)' = Preview(p)
    BY <1>1 DEF Dir, Preview, Batch
  <1>3. ASSUME pc[p] \in Held, pc[q] \in Held PROVE Dir(p) # Dir(q)
    BY <1>3 DEF IInv, LockHeld
  <1>4. /\ pc[p] \in Held => Dir(p) \in Dirs
        /\ DOMAIN visible = Dirs /\ DOMAIN durable = Dirs /\ DOMAIN sent = Dirs
    BY BatchType DEF IInv, TypeOK, Held, Saving, Syncing
  <1>5. pc[p] \in Held => visible'[Dir(p)] = visible[Dir(p)]
    <2>1. visible' = visible \/ Replace(q)
      BY WhoWrites
    <2>2. Replace(q) => pc[q] \in Held /\ visible' = [visible EXCEPT ![Dir(q)] = visible'[Dir(q)]]
      BY BatchType DEF Replace, IInv, TypeOK, Held, Saving
    <2> QED BY <1>3, <1>4, <2>1, <2>2
  <1>6. pc[p] \in Held => durable'[Dir(p)] = durable[Dir(p)]
    <2>1. durable' = durable \/ Saved(q)
      BY WhoWrites
    <2>2. Saved(q) => pc[q] \in Held /\ durable' = [durable EXCEPT ![Dir(q)] = durable'[Dir(q)]]
      BY BatchType DEF Saved, IInv, TypeOK, Held, SyncDir, Syncing
    <2> QED BY <1>3, <1>4, <2>1, <2>2
  <1>7. pc[p] \in Held => sent'[Dir(p)] = sent[Dir(p)]
    <2>1. sent' = sent \/ Send(q)
      BY WhoWrites
    <2>2. Send(q) => pc[q] \in Held /\ sent' = [sent EXCEPT ![Dir(q)] = sent'[Dir(q)]]
      BY BatchType DEF Send, IInv, TypeOK, Held
    <2> QED BY <1>3, <1>4, <2>1, <2>2
  <1> QED BY <1>1, <1>2, <1>5, <1>6, <1>7

\* The lock is held exactly while a process works on a checkpoint.
LEMMA LockStep == IInv /\ [Next]_vars => LockHeld'
  <1> SUFFICES ASSUME IInv, [Next]_vars PROVE LockHeld'
    OBVIOUS
  <1> LockHeld /\ TypeOK
    BY DEF IInv
  <1> USE DEF At, Goto, files, Held, Saving, Syncing, LockHeld
  <1>0. \A p \in Procs : pc[p] \in Held => Dir(p) \in Dirs
    BY BatchType
  <1>1. ASSUME NEW q \in Procs, Start(q) PROVE LockHeld'
    <2>1. \A p \in Procs : p # q => pc'[p] = pc[p] /\ Dir(p)' = Dir(p)
      BY <1>1, Frame DEF Plan, Execute
    <2> QED BY <1>1, <2>1 DEF Start, IInv, TypeOK
  <1>2. ASSUME NEW q \in Procs, CheckBatch(q) PROVE LockHeld'
    <2>1. \A p \in Procs : p # q => pc'[p] = pc[p] /\ Dir(p)' = Dir(p)
      BY <1>2, Frame DEF Plan, Execute
    <2>2. pc[q] \notin Held /\ pc'[q] \notin Held /\ lock' = lock
      BY <1>2 DEF CheckBatch, IInv, TypeOK
    <2> QED BY <2>1, <2>2
  <1>3. ASSUME NEW q \in Procs, RefuseBudget(q) PROVE LockHeld'
    <2>1. \A p \in Procs : p # q => pc'[p] = pc[p] /\ Dir(p)' = Dir(p)
      BY <1>3, Frame DEF Plan, Execute
    <2>2. Dir(q)' = Dir(q)
      BY <1>3 DEF RefuseBudget, Dir, Batch
    <2> QED BY <1>3, <2>1, <2>2, BatchType, DispatchAssumption DEF RefuseBudget, Ends, IInv, TypeOK
  <1>4. ASSUME NEW q \in Procs, Lock(q) PROVE LockHeld'
    <2>1. \A p \in Procs : p # q => pc'[p] = pc[p] /\ Dir(p)' = Dir(p)
      BY <1>4, Frame DEF Plan, Execute
    <2>2. Dir(q)' = Dir(q)
      BY <1>4 DEF Lock, Dir, Batch
    <2> QED BY <1>4, <2>1, <2>2, BatchType, DispatchAssumption DEF Lock, LockFree, IInv, TypeOK
  <1>5. ASSUME NEW q \in Procs, LockBusy(q) PROVE LockHeld'
    <2>1. \A p \in Procs : p # q => pc'[p] = pc[p] /\ Dir(p)' = Dir(p)
      BY <1>5, Frame DEF Plan, Execute
    <2>2. Dir(q)' = Dir(q)
      BY <1>5 DEF LockBusy, Dir, Batch
    <2> QED BY <1>5, <2>1, <2>2, BatchType, DispatchAssumption DEF LockBusy, Ends, IInv, TypeOK
  <1>6. ASSUME NEW q \in Procs, ReadCheckpoint(q) PROVE LockHeld'
    <2>1. \A p \in Procs : p # q => pc'[p] = pc[p] /\ Dir(p)' = Dir(p)
      BY <1>6, Frame DEF Plan, Execute
    <2>2. Dir(q)' = Dir(q)
      BY <1>6 DEF ReadCheckpoint, Dir, Batch
    <2> QED BY <1>6, <2>1, <2>2, BatchType, DispatchAssumption DEF ReadCheckpoint, IInv, TypeOK
  <1>7. ASSUME NEW q \in Procs, RefuseCheckpoint(q) PROVE LockHeld'
    <2>1. \A p \in Procs : p # q => pc'[p] = pc[p] /\ Dir(p)' = Dir(p)
      BY <1>7, Frame DEF Plan, Execute
    <2>2. Dir(q)' = Dir(q)
      BY <1>7 DEF RefuseCheckpoint, Dir, Batch
    <2> QED BY <1>7, <2>1, <2>2, BatchType, DispatchAssumption DEF RefuseCheckpoint, Ends, IInv, TypeOK
  <1>8. ASSUME NEW q \in Procs, Record(q) PROVE LockHeld'
    <2>1. \A p \in Procs : p # q => pc'[p] = pc[p] /\ Dir(p)' = Dir(p)
      BY <1>8, Frame DEF Plan, Execute
    <2>2. Dir(q)' = Dir(q)
      BY <1>8 DEF Record, Dir, Batch
    <2> QED BY <1>8, <2>1, <2>2, BatchType, DispatchAssumption DEF Record, IInv, TypeOK
  <1>9. ASSUME NEW q \in Procs, Replace(q) PROVE LockHeld'
    <2>1. \A p \in Procs : p # q => pc'[p] = pc[p] /\ Dir(p)' = Dir(p)
      BY <1>9, Frame DEF Plan, Execute
    <2>2. Dir(q)' = Dir(q)
      BY <1>9 DEF Replace, Dir, Batch
    <2> QED BY <1>9, <2>1, <2>2, BatchType, DispatchAssumption DEF Replace, Sync, IInv, TypeOK
  <1>10. ASSUME NEW q \in Procs, Saved(q) PROVE LockHeld'
    <2>1. \A p \in Procs : p # q => pc'[p] = pc[p] /\ Dir(p)' = Dir(p)
      BY <1>10, Frame DEF Plan, Execute
    <2>2. Dir(q)' = Dir(q)
      BY <1>10 DEF Saved, Dir, Batch
    <2>3. CASE At(q, "syncFailure") /\ Ends(q, "failed")
      <3>1. pc'[q] \notin Held
        BY <2>3 DEF Ends, TypeOK
      <3>2. \A d \in Dirs : lock'[d] # q
        BY <2>3, DispatchAssumption DEF Ends
      <3>3. \A d \in Dirs, p \in Procs : p # q => (lock'[d] = p <=> lock[d] = p)
        BY <2>3, DispatchAssumption DEF Ends
      <3>4. \A p \in Procs : pc'[p] \in Held => lock'[Dir(p)'] = p
        BY <1>0, <2>1, <3>1, <3>3
      <3>5. \A p \in Procs, d \in Dirs : lock'[d] = p => pc'[p] \in Held /\ Dir(p)' = d
        BY <2>1, <3>2, <3>3
      <3> QED BY <3>4, <3>5 DEF Dir, Batch
    <2>4. CASE lock' = lock /\ pc[q] \in Held /\ (Goto(q, "send") \/ Goto(q, "next"))
      <3>1. pc[q] \in Held /\ pc'[q] \in Held
        BY <2>4 DEF TypeOK
      <3> QED BY <2>4, <2>1, <2>2, <3>1 DEF Dir, Batch
    <2> QED BY <1>10, <2>3, <2>4 DEF Saved
  <1>11. ASSUME NEW q \in Procs, SaveFails(q) PROVE LockHeld'
    <2>1. \A p \in Procs : p # q => pc'[p] = pc[p] /\ Dir(p)' = Dir(p)
      BY <1>11, Frame DEF Plan, Execute
    <2>2. Dir(q)' = Dir(q)
      BY <1>11 DEF SaveFails, Dir, Batch
    <2> QED BY <1>11, <2>1, <2>2, BatchType, DispatchAssumption DEF SaveFails, Ends, IInv, TypeOK
  <1>12. ASSUME NEW q \in Procs, Send(q) PROVE LockHeld'
    <2>1. \A p \in Procs : p # q => pc'[p] = pc[p] /\ Dir(p)' = Dir(p)
      BY <1>12, Frame DEF Plan, Execute
    <2>2. Dir(q)' = Dir(q)
      BY <1>12 DEF Send, Dir, Batch
    <2> QED BY <1>12, <2>1, <2>2, BatchType, DispatchAssumption DEF Send, IInv, TypeOK
  <1>13. ASSUME NEW q \in Procs, Answer(q) PROVE LockHeld'
    <2>1. \A p \in Procs : p # q => pc'[p] = pc[p] /\ Dir(p)' = Dir(p)
      BY <1>13, Frame DEF Plan, Execute
    <2>2. Dir(q)' = Dir(q)
      BY <1>13 DEF Answer, Dir, Batch
    <2> QED BY <1>13, <2>1, <2>2, BatchType, DispatchAssumption DEF Answer, IInv, TypeOK
  <1>14. ASSUME NEW q \in Procs, NoAnswer(q) PROVE LockHeld'
    <2>1. \A p \in Procs : p # q => pc'[p] = pc[p] /\ Dir(p)' = Dir(p)
      BY <1>14, Frame DEF Plan, Execute
    <2>2. Dir(q)' = Dir(q)
      BY <1>14 DEF NoAnswer, Dir, Batch
    <2> QED BY <1>14, <2>1, <2>2, BatchType, DispatchAssumption DEF NoAnswer, IInv, TypeOK
  <1>15. ASSUME NEW q \in Procs, EndBatch(q) PROVE LockHeld'
    <2>1. \A p \in Procs : p # q => pc'[p] = pc[p] /\ Dir(p)' = Dir(p)
      BY <1>15, Frame DEF Plan, Execute
    <2>2. pc[q] \in Held /\ pc'[q] \notin Held /\ lock' = [lock EXCEPT ![Dir(q)] = Nobody]
      BY <1>15 DEF EndBatch, IInv, TypeOK
    <2>3. \A d \in Dirs : lock'[d] # q
      BY <2>2, DispatchAssumption, BatchType DEF IInv, TypeOK
    <2>4. \A d \in Dirs, p \in Procs : p # q => (lock'[d] = p <=> lock[d] = p)
      BY <2>2, BatchType, DispatchAssumption DEF IInv, TypeOK
    <2> QED BY <2>1, <2>2, <2>3, <2>4, <1>0 DEF Dir, Batch
  <1>16. ASSUME NEW q \in Procs, Crash(q) PROVE LockHeld'
    <2>1. \A p \in Procs : p # q => pc'[p] = pc[p] /\ Dir(p)' = Dir(p)
      BY <1>16, Frame DEF Plan, Execute
    <2>2. Dir(q)' = Dir(q)
      BY <1>16 DEF Crash, Dir, Batch
    <2> QED BY <1>16, <2>1, <2>2, BatchType, DispatchAssumption DEF Crash, Ends, Running, IInv, TypeOK
  <1>17. CASE PowerLoss
    BY <1>17, DispatchAssumption DEF PowerLoss, Running, IInv, TypeOK
  <1>18. CASE UNCHANGED vars
    BY <1>18 DEF vars, IInv, Dir, Batch
  <1> QED
    BY <1>1, <1>2, <1>3, <1>4, <1>5, <1>6, <1>7, <1>8, <1>9, <1>10, <1>11, <1>12,
       <1>13, <1>14, <1>15, <1>16, <1>17, <1>18
    DEF Next, Plan, Execute

----------------------------------------------------------------------------
\* What one process knows survives the steps of the others.
LEMMA OthersKnow ==
  ASSUME IInv, NEW q \in Procs, NEW p \in Procs, p # q, Plan(q) \/ Execute(q) \/ Crash(q)
  PROVE  Knows(p)'
  <1>1. Knows(p)
    BY DEF IInv
  <1> QED
    BY <1>1, Frame
    DEF Knows, MemoryFresh, CurrentUnsent, OnDisk, Extends, Working, Held, Saving, Syncing

\* A request that the ledger of a working process does not name was never sent.
LEMMA UnnamedUnsent ==
  ASSUME IInv, NEW q \in Procs, pc[q] \in Working,
         NEW r \in Requests, mem[q].status[r] = "none"
  PROVE  sent[Dir(q)][r] = <<>>
  <1>1. Dir(q) \in Dirs
    BY BatchType DEF IInv, Working, Held, Saving, Syncing
  <1>2. Extends(mem[q], visible[Dir(q)]) /\ Extends(visible[Dir(q)], durable[Dir(q)])
    BY <1>1 DEF IInv, Knows, MemoryFresh, VisibleFresh
  <1>3. Extends(mem[q], durable[Dir(q)])
    BY <1>2, ExtendsTransitive
  <1> QED BY <1>1, <1>3 DEF IInv, SentIsDurable, Extends, Follows

\* Each step leaves the process that takes it with what it knows.
LEMMA OwnKnows ==
  ASSUME IInv, NEW q \in Procs, Plan(q) \/ Execute(q) \/ Crash(q)
  PROVE  Knows(q)'
  <1> TypeOK /\ Knows(q)
    BY DEF IInv
  <1> USE DEF At, Goto, files, Working, Held, Saving, Syncing
  <1>1. CASE pc'[q] \notin Working
    BY <1>1 DEF Knows, MemoryFresh, CurrentUnsent, OnDisk
  <1>2. CASE ReadCheckpoint(q)
    <2>1. Dir(q)' = Dir(q) /\ Preview(q)' = Preview(q) /\ UNCHANGED visible
      BY <1>2 DEF ReadCheckpoint, Dir, Preview, Batch
    <2>2. /\ mem'[q] = IF visible[Dir(q)] = NoFile THEN NewLedger(Preview(q)) ELSE visible[Dir(q)]
          /\ pc'[q] = "next"
      BY <1>2 DEF ReadCheckpoint, TypeOK
    <2>3. mem'[q] # NoFile /\ mem'[q].source = Preview(q)
      <3>1. NewLedger(Preview(q)) \in Ledgers
        BY <1>2, BatchType DEF ReadCheckpoint, NewLedger, Ledgers, Statuses
      <3> QED BY <1>2, <2>2, <3>1, DispatchAssumption DEF ReadCheckpoint, Usable, NewLedger
    <2>4. Extends(mem'[q], visible[Dir(q)])
      BY <2>2, ExtendsReflexive DEF Extends
    <2> QED BY <2>1, <2>2, <2>3, <2>4 DEF Knows, MemoryFresh, CurrentUnsent, OnDisk, Extends
  <1>3. CASE Record(q)
    <2>1. PICK i \in Pending(q) : /\ cur' = [cur EXCEPT ![q] = RequestAt(q, i)]
                                 /\ SetStatus(q, RequestAt(q, i), "uncertain")
      BY <1>3 DEF Record
    <2> DEFINE r == RequestAt(q, i)
    <2>2. r \in Wanted(Preview(q)) /\ r \in Requests /\ mem[q].status[r] = "none"
      BY <1>3, RequestType DEF Record
    <2>3. mem[q] \in Ledgers /\ sent[Dir(q)][r] = <<>>
      BY <1>3, <2>2, CurrentType, UnnamedUnsent DEF Record
    <2> HIDE DEF r
    <2>4. /\ mem'[q] = [mem[q] EXCEPT !.status[r] = "uncertain"] /\ cur'[q] = r
          /\ pc'[q] = "saveAttempt"
      BY <1>3, <2>1 DEF Record, SetStatus, TypeOK, r
    <2>5. /\ mem'[q] \in Ledgers /\ mem'[q].source = mem[q].source
          /\ mem'[q].status = [mem[q].status EXCEPT ![r] = "uncertain"]
      BY <2>2, <2>3, <2>4 DEF Ledgers, Statuses
    <2>6. mem[q].status \in [Requests -> Statuses]
      BY <2>3 DEF Ledgers
    <2>7. Extends(mem'[q], visible[Dir(q)]) /\ mem'[q] # NoFile /\ mem'[q].source = Preview(q)
      BY <1>3, <2>2, <2>5, <2>6, DispatchAssumption
      DEF Record, Knows, MemoryFresh, Extends, Follows
    <2>8. mem'[q].status[r] = "uncertain"
      BY <2>2, <2>5, <2>6
    <2>9. Dir(q)' = Dir(q) /\ Preview(q)' = Preview(q) /\ UNCHANGED <<visible, sent>>
      BY <1>3 DEF Record, Dir, Preview, Batch
    <2> QED BY <2>2, <2>3, <2>4, <2>7, <2>8, <2>9
            DEF Knows, MemoryFresh, CurrentUnsent, OnDisk, Extends, Wanted
  <1>4. CASE Replace(q)
    <2>1. /\ Dir(q)' = Dir(q) /\ Preview(q)' = Preview(q) /\ UNCHANGED <<mem, cur, sent>>
          /\ visible'[Dir(q)] = mem[q]
      BY <1>4, BatchType DEF Replace, Dir, Preview, Batch, TypeOK
    <2>2. \/ pc[q] = "saveAttempt" /\ pc'[q] = "syncAttempt"
          \/ pc[q] # "saveAttempt" /\ pc'[q] \in {"syncAnswer", "syncFailure"}
      BY <1>4 DEF Replace, Sync, TypeOK
    <2>3. Extends(mem[q], mem[q])
      BY ExtendsReflexive
    <2> QED BY <1>4, <2>1, <2>2, <2>3
            DEF Replace, Knows, MemoryFresh, CurrentUnsent, OnDisk, Extends, Wanted
  <1>5. CASE Saved(q)
    <2>1. /\ Dir(q)' = Dir(q) /\ Preview(q)' = Preview(q) /\ UNCHANGED <<mem, cur, sent, visible>>
          /\ durable'[Dir(q)] = visible[Dir(q)]
      BY <1>5, BatchType DEF Saved, SyncDir, Dir, Preview, Batch, TypeOK
    <2>2. \/ pc[q] = "syncAttempt" /\ pc'[q] = "send"
          \/ pc[q] = "syncAnswer" /\ pc'[q] = "next"
          \/ pc'[q] \notin Working
      BY <1>5 DEF Saved, Ends, TypeOK
    <2> QED BY <1>5, <1>1, <2>1, <2>2
            DEF Saved, Knows, MemoryFresh, CurrentUnsent, OnDisk, Extends, Wanted
  <1>6. CASE Send(q)
    <2>1. /\ Dir(q)' = Dir(q) /\ Preview(q)' = Preview(q) /\ UNCHANGED <<mem, cur, files>>
          /\ pc[q] = "send" /\ pc'[q] = "wait"
      BY <1>6 DEF Send, Dir, Preview, Batch, TypeOK
    <2> QED BY <2>1 DEF Knows, MemoryFresh, CurrentUnsent, OnDisk, Extends, Wanted
  <1>7. CASE Answer(q)
    <2>1. /\ Dir(q)' = Dir(q) /\ Preview(q)' = Preview(q) /\ UNCHANGED visible
          /\ pc'[q] = "saveAnswer" /\ mem'[q] = [mem[q] EXCEPT !.status[cur[q]] = "succeeded"]
      BY <1>7 DEF Answer, SetStatus, Dir, Preview, Batch, TypeOK
    <2>2. mem[q] \in Ledgers /\ cur[q] \in Requests
      BY <1>7, CurrentType DEF Answer
    <2>3. /\ mem'[q] \in Ledgers /\ mem'[q].source = mem[q].source
          /\ mem'[q].status = [mem[q].status EXCEPT ![cur[q]] = "succeeded"]
          /\ mem[q].status \in [Requests -> Statuses]
      BY <2>1, <2>2 DEF Ledgers, Statuses
    <2>4. Extends(mem'[q], visible[Dir(q)]) /\ mem'[q] # NoFile /\ mem'[q].source = Preview(q)
      BY <1>7, <2>2, <2>3, DispatchAssumption DEF Answer, Knows, MemoryFresh, Extends, Follows
    <2> QED BY <2>1, <2>4 DEF Knows, MemoryFresh, CurrentUnsent, OnDisk, Extends
  <1>8. CASE NoAnswer(q)
    <2>1. /\ Dir(q)' = Dir(q) /\ Preview(q)' = Preview(q) /\ UNCHANGED <<mem, files>>
          /\ pc[q] = "wait" /\ pc'[q] = "saveFailure"
      BY <1>8 DEF NoAnswer, Dir, Preview, Batch, TypeOK
    <2> QED BY <2>1 DEF Knows, MemoryFresh, CurrentUnsent, OnDisk, Extends
  <1>9. ASSUME \/ Plan(q) \/ RefuseCheckpoint(q) \/ SaveFails(q) \/ EndBatch(q) \/ Crash(q)
        PROVE  pc'[q] \notin Working
    BY <1>9 DEF Plan, Start, CheckBatch, RefuseBudget, Lock, LockBusy, RefuseCheckpoint,
                SaveFails, EndBatch, Crash, Ends, TypeOK
  <1> QED BY <1>1, <1>2, <1>3, <1>4, <1>5, <1>6, <1>7, <1>8, <1>9 DEF Execute

LEMMA KnowledgeStep == IInv /\ [Next]_vars => \A p \in Procs : Knows(p)'
  <1> SUFFICES ASSUME IInv, [Next]_vars, NEW p \in Procs PROVE Knows(p)'
    OBVIOUS
  <1>1. ASSUME NEW q \in Procs, Plan(q) \/ Execute(q) \/ Crash(q) PROVE Knows(p)'
    BY <1>1, OthersKnow, OwnKnows
  <1>2. CASE PowerLoss
    BY <1>2
    DEF PowerLoss, Running, IInv, TypeOK, Pcs, Knows, MemoryFresh, CurrentUnsent, OnDisk, Working,
        Held, Saving, Syncing
  <1>3. CASE UNCHANGED vars
    <2>1. Knows(p) /\ Dir(p)' = Dir(p) /\ Preview(p)' = Preview(p)
      BY <1>3 DEF vars, IInv, Dir, Preview, Batch
    <2> QED BY <1>3, <2>1 DEF vars, files, Knows, MemoryFresh, CurrentUnsent, OnDisk, Extends, Wanted
  <1> QED BY <1>1, <1>2, <1>3 DEF Next

\* A directory's durable checkpoint moves forward only.
LEMMA DurableGrows ==
  ASSUME IInv, [Next]_vars, NEW d \in Dirs
  PROVE  Extends(durable'[d], durable[d])
  <1>0. Extends(visible[d], durable[d]) /\ Extends(durable[d], durable[d])
    BY ExtendsReflexive DEF IInv, VisibleFresh
  <1>1. ASSUME NEW q \in Procs, Plan(q) \/ Execute(q) \/ Crash(q)
        PROVE  Extends(durable'[d], durable[d])
    <2>1. CASE Saved(q)
      <3>1. durable'[d] = durable[d] \/ durable'[d] = visible[d]
        BY <2>1, BatchType DEF Saved, SyncDir, IInv, TypeOK, Syncing
      <3> QED BY <1>0, <3>1
    <2>2. CASE durable' = durable
      BY <1>0, <2>2
    <2> QED BY <1>1, <2>1, <2>2, WhoWrites
  <1>2. CASE PowerLoss
    <2>1. durable'[d] = durable[d] \/ durable'[d] = visible[d]
      BY <1>2 DEF PowerLoss
    <2> QED BY <1>0, <2>1
  <1>3. CASE UNCHANGED vars
    BY <1>0, <1>3 DEF vars, files
  <1> QED BY <1>1, <1>2, <1>3 DEF Next

LEMMA VisibleStep == IInv /\ [Next]_vars => VisibleFresh'
  <1> SUFFICES ASSUME IInv, [Next]_vars, NEW d \in Dirs PROVE Extends(visible'[d], durable'[d])
    BY DEF VisibleFresh, Extends
  <1>0. Extends(visible[d], durable[d])
    BY DEF IInv, VisibleFresh
  <1>1. ASSUME NEW q \in Procs, Replace(q) PROVE Extends(visible'[d], durable'[d])
    <2>1. Dir(q) \in Dirs /\ Extends(mem[q], visible[Dir(q)])
      BY <1>1, BatchType DEF Replace, IInv, Knows, MemoryFresh, Working, Held, Saving
    <2>2. visible'[d] = (IF d = Dir(q) THEN mem[q] ELSE visible[d]) /\ durable' = durable
      BY <1>1, <2>1 DEF Replace, IInv, TypeOK
    <2>3. CASE d = Dir(q)
      BY <1>0, <2>1, <2>2, <2>3, ExtendsTransitive
    <2> QED BY <1>0, <2>2, <2>3
  <1>2. ASSUME NEW q \in Procs, Saved(q) PROVE Extends(visible'[d], durable'[d])
    <2>1. visible' = visible /\ (durable'[d] = durable[d] \/ durable'[d] = visible[d])
      BY <1>2, BatchType DEF Saved, SyncDir, IInv, TypeOK, Syncing
    <2> QED BY <1>0, <2>1, ExtendsReflexive
  <1>3. CASE PowerLoss
    BY <1>3, ExtendsReflexive DEF PowerLoss
  <1>4. CASE UNCHANGED files
    BY <1>0, <1>4 DEF files
  <1> QED BY <1>1, <1>2, <1>3, <1>4, WhoWrites DEF Next, vars, files

\* A step that sends has named the request durably, and nobody sent it before.
LEMMA SendStep ==
  ASSUME IInv, NEW q \in Procs, Send(q)
  PROVE  /\ Dir(q) \in Dirs /\ cur[q] \in Requests
         /\ sent[Dir(q)][cur[q]] = <<>>
         /\ durable[Dir(q)] # NoFile /\ durable[Dir(q)].status[cur[q]] = "uncertain"
         /\ sent' = [sent EXCEPT ![Dir(q)][cur[q]] = Append(@, q)] /\ durable' = durable
  <1>1. pc[q] = "send"
    BY DEF Send, At
  <1>2. Dir(q) \in Dirs /\ cur[q] \in Requests
    BY <1>1, BatchType, CurrentType DEF IInv
  <1>3. /\ durable[Dir(q)] = mem[q] /\ mem[q] # NoFile
        /\ mem[q].status[cur[q]] = "uncertain" /\ sent[Dir(q)][cur[q]] = <<>>
    BY <1>1 DEF IInv, Knows, OnDisk, CurrentUnsent, MemoryFresh, Working, Held
  <1> QED BY <1>2, <1>3 DEF Send, files

LEMMA SentStep == IInv /\ [Next]_vars => SentIsDurable' /\ AtMostOnce'
  <1> SUFFICES ASSUME IInv, [Next]_vars, NEW d \in Dirs, NEW r \in Requests
               PROVE  /\ sent'[d][r] # <<>> => durable'[d] # NoFile /\ durable'[d].status[r] # "none"
                      /\ Len(sent'[d][r]) <= 1
    BY DEF SentIsDurable, AtMostOnce
  <1>1. /\ sent[d][r] # <<>> => durable[d] # NoFile /\ durable[d].status[r] # "none"
        /\ Len(sent[d][r]) <= 1
    BY DEF IInv, SentIsDurable, AtMostOnce
  <1>2. CASE sent' = sent
    BY <1>1, <1>2, DurableGrows DEF Extends, Follows
  <1>3. ASSUME NEW q \in Procs, Send(q)
        PROVE  /\ sent'[d][r] # <<>> => durable'[d] # NoFile /\ durable'[d].status[r] # "none"
               /\ Len(sent'[d][r]) <= 1
    <2>1. CASE d = Dir(q) /\ r = cur[q]
      <3>1. sent'[d][r] = Append(<<>>, q)
        BY <1>3, <2>1, SendStep DEF IInv, TypeOK
      <3> QED BY <1>3, <2>1, <3>1, SendStep
    <2>2. CASE ~(d = Dir(q) /\ r = cur[q])
      BY <1>1, <1>3, <2>2, SendStep DEF IInv, TypeOK
    <2> QED BY <2>1, <2>2
  <1> QED BY <1>2, <1>3, WhoWrites DEF Next, vars, PowerLoss

LEMMA NextInvariant == IInv /\ [Next]_vars => IInv'
  BY TypeStep, LockStep, KnowledgeStep, VisibleStep, SentStep DEF IInv

LEMMA Invariance == Spec => []IInv
  BY InitInvariant, NextInvariant, PTL DEF Spec

----------------------------------------------------------------------------
\* Every variable keeps its type, and a batch index names a batch of the command.
THEOREM TypeCorrect == Spec => []TypeOK
  <1>1. IInv => TypeOK
    BY DEF IInv
  <1> QED BY <1>1, Invariance, PTL

\* However many runs, previews and directories there are, and whatever dies or fails, no
\* request of a checkpoint is sent twice.
THEOREM SentAtMostOnce == Spec => []AtMostOnce
  <1>1. IInv => AtMostOnce
    BY DEF IInv
  <1> QED BY <1>1, Invariance, PTL

\* A request that was sent is named by the checkpoint that a power loss leaves.
THEOREM NamedBeforeSent == Spec => []SentIsDurable
  <1>1. IInv => SentIsDurable
    BY DEF IInv
  <1> QED BY <1>1, Invariance, PTL

\* A run that sends works on a checkpoint of its own preview, which nobody else writes.
THEOREM OwnPreviewOnly == Spec => []SendsOwnPreview
  <1>1. IInv => SendsOwnPreview
    BY DEF IInv, SendsOwnPreview, Knows, MemoryFresh, CurrentUnsent, OnDisk, Working, Held
  <1> QED BY <1>1, Invariance, PTL

\* A durable checkpoint keeps its preview, its attempts and its answers.
THEOREM NothingForgotten == Spec => AnswersKept
  <1>1. IInv /\ [Next]_vars => [\A d \in Dirs : Extends(durable'[d], durable[d])]_durable
    BY DurableGrows
  <1> QED BY <1>1, Invariance, PTL DEF Spec, AnswersKept

----------------------------------------------------------------------------
(* The budget.  What a resume counted as outstanding, before it had any    *)
(* lock, covers whatever it sends later (Covered): checkpoints only grow   *)
(* as long as it lives, and it sends what they do not name.  Its summary   *)
(* follows the attempts of the ledger in memory (Tally).                   *)

Naming == {"saveAttempt", "syncAttempt", "send"}

\* The batches whose outstanding requests are counted.
Ahead(p) ==
  {i \in DOMAIN cmd[p].batches :
     \/ pc[p] = "check" /\ i < at[p]
     \/ pc[p] \in {"lock"} \union Held /\ cmd[p].kind = "resume"
     \/ pc[p] \in Working /\ cmd[p].kind = "relate"}

Left(b, files_) == Wanted(b.preview) \ Attempts(files_[b.dir])

Allowance(p) == IF pc[p] = "check" THEN todo[p]
                ELSE IF cmd[p].kind = "resume" THEN cmd[p].budget ELSE MaxRequests

\* The sendings in A are what p has sent and may still send.
Paid(p, A) ==
  /\ IsFiniteSet(A) /\ Cardinality(A) <= Allowance(p) /\ Sendings(p) \subseteq A
  /\ pc[p] \in Naming => <<Dir(p), cur[p], 1>> \in A
  /\ \A i \in Ahead(p) : \A r \in Left(cmd[p].batches[i], visible) :
       <<cmd[p].batches[i].dir, r, 1>> \in A

Covered(p) == IF pc[p] = "idle" THEN Sendings(p) = {} ELSE \E A : Paid(p, A)

Tally(p) ==
  /\ pc[p] = "check" => cmd[p].kind = "resume"
  /\ pc[p] = "check" \/ (pc[p] \in {"lock", "read"} /\ cmd[p].kind = "relate")
       => Sendings(p) = {}
  /\ pc[p] = "wait" => mem[p].status[cur[p]] # "none"
  /\ pc[p] \in {"idle", "check", "lock", "read", "done"} => new[p] = SentBy(p)
  /\ pc[p] \in Working =>
       new[p] + Cardinality(Attempts(mem[p]))
         = SentBy(p) + (IF pc[p] \in Naming THEN 1 ELSE 0)

BudgetInv == IInv /\ \A p \in Procs : Covered(p) /\ Tally(p)

LEMMA SendingsAre ==
  ASSUME NEW p
  PROVE  \A t : t \in Sendings(p) <=>
                  \E d \in Dirs, r \in Requests : \E i \in DOMAIN sent[d][r] :
                    sent[d][r][i] = p /\ t = <<d, r, i>>
  <1>1. \A t : \A d, r : t \in SendingsOf(p, d, r) <=>
          \E i \in DOMAIN sent[d][r] : sent[d][r][i] = p /\ t = <<d, r, i>>
    BY DEF SendingsOf
  <1>2. \A t : t \in Sendings(p) <=>
          \E d \in Dirs, r \in Requests : t \in SendingsOf(p, d, r)
    BY DEF Sendings
  <1> QED BY <1>1, <1>2

\* A send adds one sending to those of its process, and none to the others'.
LEMMA SendingsStep ==
  ASSUME IInv, NEW q \in Procs, Send(q), NEW p \in Procs
  PROVE  IF p = q THEN /\ Sendings(p)' = Sendings(p) \union {<<Dir(q), cur[q], 1>>}
                       /\ <<Dir(q), cur[q], 1>> \notin Sendings(p)
                  ELSE Sendings(p)' = Sendings(p)
  <1> DEFINE D == Dir(q)
             c == cur[q]
  <1>1. /\ D \in Dirs /\ c \in Requests /\ sent[D][c] = <<>>
        /\ sent' = [sent EXCEPT ![D][c] = Append(@, q)]
    BY SendStep
  <1>2. sent \in [Dirs -> [Requests -> Seq(Procs)]]
    BY DEF IInv, TypeOK
  <1> HIDE DEF D, c
  <1>3. /\ sent'[D][c] = <<q>>
        /\ \A d \in Dirs, r \in Requests : ~(d = D /\ r = c) => sent'[d][r] = sent[d][r]
    BY <1>1, <1>2
  <1>4. \A t : t \in Sendings(p)' <=>
                 \E d \in Dirs, r \in Requests : \E i \in DOMAIN sent'[d][r] :
                   sent'[d][r][i] = p /\ t = <<d, r, i>>
    <2>1. \A t : \A d, r : t \in SendingsOf(p, d, r)' <=>
            \E i \in DOMAIN sent'[d][r] : sent'[d][r][i] = p /\ t = <<d, r, i>>
      BY DEF SendingsOf
    <2>2. \A t : t \in Sendings(p)' <=>
            \E d \in Dirs, r \in Requests : t \in SendingsOf(p, d, r)'
      BY DEF Sendings
    <2> QED BY <2>1, <2>2
  <1>5. \A t : t \in Sendings(p)' <=> t \in Sendings(p) \/ (p = q /\ t = <<D, c, 1>>)
    <2> SUFFICES ASSUME NEW t
                 PROVE  t \in Sendings(p)' <=> t \in Sendings(p) \/ (p = q /\ t = <<D, c, 1>>)
      OBVIOUS
    <2>1. ASSUME NEW d \in Dirs, NEW r \in Requests
          PROVE  (\E i \in DOMAIN sent'[d][r] : sent'[d][r][i] = p /\ t = <<d, r, i>>)
                 <=> \/ \E i \in DOMAIN sent[d][r] : sent[d][r][i] = p /\ t = <<d, r, i>>
                     \/ d = D /\ r = c /\ p = q /\ t = <<d, r, 1>>
      <3>1. CASE d = D /\ r = c
        <4>1. DOMAIN sent'[d][r] = {1} /\ sent'[d][r][1] = q /\ DOMAIN sent[d][r] = {}
          BY <1>1, <1>3, <3>1
        <4> QED BY <3>1, <4>1
      <3>2. CASE ~(d = D /\ r = c)
        BY <1>3, <3>2
      <3> QED BY <3>1, <3>2
    <2>2. t \in Sendings(p) <=>
            \E d \in Dirs, r \in Requests : \E i \in DOMAIN sent[d][r] :
              sent[d][r][i] = p /\ t = <<d, r, i>>
      BY SendingsAre
    <2>3. t \in Sendings(p)' <=>
            \E d \in Dirs, r \in Requests :
              \/ \E i \in DOMAIN sent[d][r] : sent[d][r][i] = p /\ t = <<d, r, i>>
              \/ d = D /\ r = c /\ p = q /\ t = <<d, r, 1>>
      BY <1>4, <2>1
    <2> QED BY <1>1, <2>2, <2>3
  <1>6. <<D, c, 1>> \notin Sendings(p)
    <2>1. SUFFICES ASSUME <<D, c, 1>> \in Sendings(p) PROVE FALSE
      OBVIOUS
    <2>2. PICK d \in Dirs, r \in Requests : \E i \in DOMAIN sent[d][r] :
            sent[d][r][i] = p /\ <<D, c, 1>> = <<d, r, i>>
      BY <2>1, SendingsAre
    <2>3. d = D /\ r = c /\ DOMAIN sent[d][r] # {}
      BY <2>2
    <2> QED BY <1>1, <2>3
  <1> QED BY <1>5, <1>6 DEF D, c

LEMMA SendingsKept ==
  ASSUME UNCHANGED sent, NEW p
  PROVE  Sendings(p)' = Sendings(p)
  BY DEF Sendings, SendingsOf

\* A checkpoint that grows names whatever it named.
LEMMA AttemptsGrow ==
  ASSUME NEW k, NEW l, Extends(l, k)
  PROVE  Attempts(k) \subseteq Attempts(l)
  BY DEF Extends, Follows, Attempts

\* While no power is lost, what opening a checkpoint reads only grows.
LEMMA VisibleGrows ==
  ASSUME IInv, NEW q \in Procs, Plan(q) \/ Execute(q) \/ Crash(q), NEW d \in Dirs
  PROVE  Extends(visible'[d], visible[d])
  <1>1. CASE visible' = visible
    BY <1>1, ExtendsReflexive
  <1>2. CASE Replace(q)
    <2>1. Dir(q) \in Dirs /\ Extends(mem[q], visible[Dir(q)])
      BY <1>2, BatchType DEF Replace, IInv, Knows, MemoryFresh, Working, Held, Saving
    <2>2. visible'[d] = IF d = Dir(q) THEN mem[q] ELSE visible[d]
      BY <1>2, <2>1 DEF Replace, IInv, TypeOK
    <2>3. CASE d = Dir(q)
      BY <2>1, <2>2, <2>3
    <2>4. CASE d # Dir(q)
      BY <2>2, <2>4, ExtendsReflexive
    <2> QED BY <2>3, <2>4
  <1> QED BY <1>1, <1>2, WhoWrites

\* The batches of a command that has started.
LEMMA CommandType ==
  ASSUME TypeOK, NEW p \in Procs, pc[p] # "idle"
  PROVE  /\ cmd[p] \in Commands /\ cmd[p].kind \in {"relate", "resume"} /\ cmd[p].budget \in Nat
         /\ cmd[p].batches \in Seq(Batches) /\ Len(cmd[p].batches) \in Nat \ {0}
         /\ DOMAIN cmd[p].batches = 1 .. Len(cmd[p].batches)
         /\ at[p] \in DOMAIN cmd[p].batches
         /\ \A i \in DOMAIN cmd[p].batches :
              cmd[p].batches[i].dir \in Dirs /\ cmd[p].batches[i].preview \in Previews
         /\ cmd[p].kind = "relate" => Len(cmd[p].batches) = 1 /\ at[p] = 1
  <1>1. cmd[p] \in Commands /\ at[p] \in 1..Len(cmd[p].batches)
    BY DEF TypeOK
  <1>2. /\ cmd[p].kind \in {"relate", "resume"} /\ cmd[p].batches \in Seq(Batches)
        /\ Len(cmd[p].batches) > 0 /\ cmd[p].budget \in Nat
        /\ cmd[p].kind = "relate" => Len(cmd[p].batches) = 1
    BY <1>1, DispatchAssumption
  <1>3. DOMAIN cmd[p].batches = 1 .. Len(cmd[p].batches) /\ Len(cmd[p].batches) \in Nat
    BY <1>2
  <1>4. \A i \in DOMAIN cmd[p].batches : cmd[p].batches[i] \in Batches
    BY <1>2, <1>3
  <1> QED BY <1>1, <1>2, <1>3, <1>4 DEF Batches

\* What pays for a process pays for it after a step that opens nothing new.
LEMMA PaidKeeps ==
  ASSUME IInv, NEW p \in Procs, pc[p] # "idle", NEW A, Paid(p, A),
         Sendings(p)' = Sendings(p), cmd'[p] = cmd[p], Allowance(p)' = Allowance(p),
         Ahead(p)' \subseteq Ahead(p),
         pc'[p] \in Naming => <<Dir(p)', cur'[p], 1>> \in A,
         \A d \in Dirs : Extends(visible'[d], visible[d])
  PROVE  Paid(p, A)'
  <1>1. \A i \in DOMAIN cmd[p].batches : cmd[p].batches[i].dir \in Dirs
    BY CommandType DEF IInv
  <1>2. Ahead(p) \subseteq DOMAIN cmd[p].batches
    BY DEF Ahead
  <1>3. ASSUME NEW i \in Ahead(p)', NEW r \in Left(cmd'[p].batches[i], visible')
        PROVE  <<cmd'[p].batches[i].dir, r, 1>> \in A
    <2> DEFINE d == cmd[p].batches[i].dir
    <2>1. i \in Ahead(p) /\ d \in Dirs
      BY <1>1, <1>2, <1>3
    <2>2. Attempts(visible[d]) \subseteq Attempts(visible'[d])
      BY <2>1, AttemptsGrow
    <2>3. r \in Left(cmd[p].batches[i], visible)
      BY <1>3, <2>2 DEF Left
    <2> QED BY <2>1, <2>3 DEF Paid
  <1>4. Cardinality(A) <= Allowance(p)' /\ Sendings(p)' \subseteq A /\ IsFiniteSet(A)
    BY DEF Paid
  <1> QED BY <1>3, <1>4 DEF Paid

\* The steps of another process.
LEMMA CountersFrame ==
  ASSUME IInv, NEW q \in Procs, NEW p \in Procs, p # q, Plan(q) \/ Execute(q) \/ Crash(q)
  PROVE  /\ cmd'[p] = cmd[p] /\ at'[p] = at[p] /\ todo'[p] = todo[p] /\ new'[p] = new[p]
         /\ Sendings(p)' = Sendings(p)
  <1>1. /\ cmd'[p] = cmd[p] /\ at'[p] = at[p] /\ todo'[p] = todo[p] /\ new'[p] = new[p]
    BY DEF IInv, TypeOK, Plan, Execute, Start, CheckBatch, RefuseBudget, Lock, LockBusy,
           ReadCheckpoint, RefuseCheckpoint, Record, Replace, Saved, SaveFails, Send, Answer,
           NoAnswer, EndBatch, Crash
  <1>2. Sendings(p)' = Sendings(p)
    BY WhoWrites, SendingsStep, SendingsKept
  <1> QED BY <1>1, <1>2

LEMMA OthersPaid ==
  ASSUME BudgetInv, NEW q \in Procs, NEW p \in Procs, p # q, Plan(q) \/ Execute(q) \/ Crash(q)
  PROVE  Covered(p)' /\ Tally(p)'
  <1> IInv /\ Covered(p) /\ Tally(p)
    BY DEF BudgetInv
  <1>1. /\ pc'[p] = pc[p] /\ mem'[p] = mem[p] /\ cur'[p] = cur[p] /\ Dir(p)' = Dir(p)
        /\ cmd'[p] = cmd[p] /\ at'[p] = at[p] /\ todo'[p] = todo[p] /\ new'[p] = new[p]
        /\ Sendings(p)' = Sendings(p)
    BY Frame, CountersFrame
  <1>2. Tally(p)'
    BY <1>1 DEF Tally, SentBy
  <1>3. ASSUME pc[p] # "idle" PROVE Covered(p)'
    <2>1. PICK A : Paid(p, A)
      BY <1>3 DEF Covered
    <2>2. Allowance(p)' = Allowance(p) /\ Ahead(p)' \subseteq Ahead(p)
      BY <1>1 DEF Allowance, Ahead
    <2>3. pc'[p] \in Naming => <<Dir(p)', cur'[p], 1>> \in A
      BY <1>1, <2>1 DEF Paid
    <2>4. \A d \in Dirs : Extends(visible'[d], visible[d])
      BY VisibleGrows
    <2>5. Paid(p, A)'
      BY <1>1, <1>3, <2>1, <2>2, <2>3, <2>4, PaidKeeps
    <2> QED BY <1>1, <1>3, <2>5 DEF Covered
  <1>4. pc[p] = "idle" => Covered(p)'
    BY <1>1 DEF Covered
  <1> QED BY <1>2, <1>3, <1>4

\* A process that sent nothing and counts nothing is covered.
LEMMA NothingPaid ==
  ASSUME NEW p \in Procs, TypeOK', Sendings(p)' = {}, pc'[p] # "idle",
         pc'[p] \notin Naming, Ahead(p)' = {}
  PROVE  Covered(p)'
  <1>1. Allowance(p)' \in Nat
    <2>1. cmd'[p] \in Commands /\ todo'[p] \in Nat
      BY DEF TypeOK
    <2> QED BY <2>1, DispatchAssumption DEF Allowance
  <1>2. IsFiniteSet({}) /\ Cardinality({}) <= Allowance(p)'
    BY <1>1, FS_EmptySet
  <1>3. Paid(p, {})'
    BY <1>2 DEF Paid
  <1> QED BY <1>3 DEF Covered

\* Sendings are as many as the requests they are for.
LEMMA AsManySendings ==
  ASSUME NEW d, NEW S, IsFiniteSet(S)
  PROVE  /\ IsFiniteSet({<<d, r, 1>> : r \in S})
         /\ Cardinality({<<d, r, 1>> : r \in S}) <= Cardinality(S)
  <1> DEFINE T == {<<d, r, 1>> : r \in S}
             f == [r \in S |-> <<d, r, 1>>]
  <1>1. f \in Surjection(S, T)
    BY DEF Surjection
  <1> HIDE DEF f, T
  <1>2. IsFiniteSet(T) /\ Cardinality(T) <= Cardinality(S)
    BY <1>1, FS_Surjection
  <1> QED BY <1>2 DEF T

\* A preview names no more requests than it has positions.
LEMMA WantedFits ==
  ASSUME NEW v \in Previews, FitsLimit(v)
  PROVE  IsFiniteSet(Wanted(v)) /\ Cardinality(Wanted(v)) <= MaxRequests
  <1> DEFINE n == Len(RequestsOf[v])
  <1>1. RequestsOf[v] \in Seq(Requests)
    BY DispatchAssumption
  <1>2. n \in Nat /\ n <= MaxRequests /\ DOMAIN RequestsOf[v] = 1 .. n
    BY <1>1 DEF FitsLimit
  <1>3. RequestsOf[v] \in Surjection(1 .. n, Wanted(v))
    <2>1. RequestsOf[v] \in [1 .. n -> Requests]
      BY <1>1
    <2>2. RequestsOf[v] \in [1 .. n -> Wanted(v)]
      BY <1>2, <2>1 DEF Wanted
    <2> QED BY <1>2, <2>2 DEF Surjection, Wanted
  <1>4. IsFiniteSet(1 .. n) /\ Cardinality(1 .. n) = n
    BY <1>2, FS_Interval
  <1>5. IsFiniteSet(Wanted(v)) /\ Cardinality(Wanted(v)) <= Cardinality(1 .. n)
    BY <1>3, <1>4, FS_Surjection
  <1>6. Cardinality(Wanted(v)) \in Nat
    BY <1>5, FS_CardinalityType
  <1> QED BY <1>2, <1>4, <1>5, <1>6, DispatchAssumption

\* Counting the outstanding requests of one more batch.
LEMMA CheckIsCovered ==
  ASSUME BudgetInv, NEW p \in Procs, CheckBatch(p), TypeOK'
  PROVE  Covered(p)'
  <1> IInv /\ TypeOK /\ Covered(p) /\ Tally(p)
    BY DEF BudgetInv, IInv
  <1> DEFINE d == Dir(p)
             v == Preview(p)
             b == cmd[p].batches
             L == Wanted(v) \ Attempts(visible[d])
             N == {<<d, r, 1>> : r \in L}
  <1>1. pc[p] = "check" /\ cmd[p].kind = "resume" /\ Sendings(p) = {} /\ d \in Dirs /\ v \in Previews
    BY BatchType DEF CheckBatch, At, Tally
  <1>2. PICK A : Paid(p, A)
    BY <1>1 DEF Covered
  <1>3. IsFiniteSet(L) /\ Outstanding(d, v) = Cardinality(L)
    <2>1. L \subseteq Requests
      BY <1>1, WantedType
    <2> QED BY <2>1, DispatchAssumption, FS_Subset DEF Outstanding
  <1>4. IsFiniteSet(N) /\ Cardinality(N) <= Cardinality(L)
    BY <1>3, AsManySendings
  <1>5. IsFiniteSet(A) /\ Cardinality(A) <= todo[p]
    BY <1>1, <1>2 DEF Paid, Allowance
  <1>6. /\ IsFiniteSet(A \cup N) /\ IsFiniteSet(A \cap N)
        /\ Cardinality(A \cup N) = Cardinality(A) + Cardinality(N) - Cardinality(A \cap N)
    BY <1>4, <1>5, FS_Union, FS_Intersection
  <1>7. /\ Cardinality(A) \in Nat /\ Cardinality(N) \in Nat /\ Cardinality(L) \in Nat
        /\ Cardinality(A \cap N) \in Nat /\ todo[p] \in Nat
    BY <1>3, <1>4, <1>5, <1>6, FS_CardinalityType DEF TypeOK
  <1>8. todo'[p] = todo[p] + Cardinality(L)
    BY <1>3 DEF CheckBatch, TypeOK
  <1>9. Cardinality(A \cup N) <= todo'[p]
    BY <1>4, <1>5, <1>6, <1>7, <1>8
  <1>10. /\ cmd'[p] = cmd[p] /\ UNCHANGED <<visible, sent>> /\ Sendings(p)' = {}
         /\ \/ pc'[p] = "check" /\ at'[p] = at[p] + 1
            \/ pc'[p] = "lock" /\ LastBatch(p) /\ todo'[p] <= cmd[p].budget
    <2>1. Sendings(p)' = {}
      BY <1>1, SendingsKept DEF CheckBatch
    <2> QED BY <1>8, <1>3, <2>1 DEF CheckBatch, files, Goto, At, TypeOK
  <1>11. Allowance(p)' = todo'[p] \/ (todo'[p] <= Allowance(p)' /\ Allowance(p)' \in Nat)
    BY <1>1, <1>10, CommandType DEF Allowance
  <1>12. Cardinality(A \cup N) <= Allowance(p)'
    BY <1>6, <1>7, <1>8, <1>9, <1>11
  <1>13. DOMAIN b = 1 .. Len(b) /\ at[p] \in DOMAIN b /\ Len(b) \in Nat
    BY <1>1, CommandType
  <1>14. \A i \in Ahead(p)' : i \in DOMAIN b /\ (i \in Ahead(p) \/ i = at[p])
    BY <1>1, <1>10, <1>13 DEF Ahead, LastBatch, Held, Saving, Syncing
  <1>15. ASSUME NEW i \in Ahead(p)', NEW r \in Left(b[i], visible)
         PROVE  <<b[i].dir, r, 1>> \in A \cup N
    <2>1. CASE i \in Ahead(p)
      BY <1>2, <1>15, <2>1 DEF Paid
    <2>2. CASE i = at[p]
      BY <1>15, <2>2 DEF Left, Dir, Preview, Batch
    <2> QED BY <1>14, <2>1, <2>2
  <1>16. pc'[p] \notin Naming /\ pc'[p] # "idle"
    BY <1>10 DEF Naming
  <1> HIDE DEF N
  <1>17. PICK C : C = A \cup N
    OBVIOUS
  <1>18. \A i \in Ahead(p)' : \A r \in Left(b[i], visible) : <<b[i].dir, r, 1>> \in C
    BY <1>15, <1>17
  <1>19. Paid(p, C)'
    BY <1>6, <1>10, <1>12, <1>16, <1>17, <1>18 DEF Paid
  <1> QED BY <1>16, <1>19 DEF Covered

\* relate has its limit to spend.
LEMMA ReadIsCovered ==
  ASSUME BudgetInv, NEW p \in Procs, ReadCheckpoint(p), TypeOK'
  PROVE  Covered(p)'
  <1> IInv /\ TypeOK /\ Covered(p) /\ Tally(p)
    BY DEF BudgetInv, IInv
  <1>1. /\ pc[p] = "read" /\ pc'[p] = "next" /\ UNCHANGED <<visible, sent>>
        /\ cmd'[p] = cmd[p] /\ FitsLimit(Preview(p)) /\ Sendings(p)' = Sendings(p)
    BY SendingsKept DEF ReadCheckpoint, At, Goto, files, Usable, TypeOK
  <1>2. /\ cmd[p].kind \in {"relate", "resume"}
        /\ cmd[p].kind = "relate" => DOMAIN cmd[p].batches = {1} /\ at[p] = 1
    BY <1>1, CommandType
  <1>3. CASE cmd[p].kind = "resume"
    <2>1. PICK A : Paid(p, A)
      BY <1>1 DEF Covered
    <2>2. Allowance(p)' = Allowance(p) /\ Ahead(p)' \subseteq Ahead(p) /\ pc'[p] \notin Naming
      BY <1>1, <1>3 DEF Allowance, Ahead, Held, Working, Naming
    <2>3. \A d \in Dirs : Extends(visible'[d], visible[d])
      BY <1>1, ExtendsReflexive
    <2>4. Paid(p, A)'
      BY <1>1, <2>1, <2>2, <2>3, PaidKeeps
    <2> QED BY <1>1, <2>4 DEF Covered
  <1>4. CASE cmd[p].kind = "relate"
    <2> DEFINE A == {<<Dir(p), r, 1>> : r \in Wanted(Preview(p))}
    <2>1. Preview(p) \in Previews
      BY <1>1, BatchType
    <2>2. IsFiniteSet(Wanted(Preview(p))) /\ Cardinality(Wanted(Preview(p))) <= MaxRequests
      BY <1>1, <2>1, WantedFits
    <2>3. IsFiniteSet(A) /\ Cardinality(A) <= Cardinality(Wanted(Preview(p)))
      BY <2>2, AsManySendings
    <2>4. Cardinality(A) <= MaxRequests
      <3>1. Cardinality(A) \in Nat /\ Cardinality(Wanted(Preview(p))) \in Nat
        BY <2>2, <2>3, FS_CardinalityType
      <3> QED BY <2>2, <2>3, <3>1, DispatchAssumption
    <2>5. Allowance(p)' = MaxRequests
      BY <1>1, <1>4 DEF Allowance
    <2>6. Sendings(p)' = {}
      BY <1>1, <1>4 DEF Tally
    <2>7. \A i \in Ahead(p)' : i = at[p]
      BY <1>1, <1>2, <1>4 DEF Ahead
    <2>8. ASSUME NEW i \in Ahead(p)', NEW r \in Left(cmd[p].batches[i], visible)
          PROVE  <<cmd[p].batches[i].dir, r, 1>> \in A
      BY <2>7, <2>8 DEF Left, Dir, Preview, Batch
    <2> HIDE DEF A
    <2>9. PICK C : C = A
      OBVIOUS
    <2>10. \A i \in Ahead(p)' : \A r \in Left(cmd[p].batches[i], visible) :
             <<cmd[p].batches[i].dir, r, 1>> \in C
      BY <2>8, <2>9
    <2>11. Paid(p, C)'
      BY <1>1, <2>3, <2>4, <2>5, <2>6, <2>9, <2>10 DEF Paid, Naming
    <2> QED BY <1>1, <2>11 DEF Covered
  <1> QED BY <1>2, <1>3, <1>4

\* The request that Record names is one of those that were counted.
LEMMA RecordIsCovered ==
  ASSUME BudgetInv, NEW p \in Procs, Record(p), TypeOK'
  PROVE  Covered(p)'
  <1> IInv /\ TypeOK /\ Covered(p) /\ Tally(p) /\ Knows(p)
    BY DEF BudgetInv, IInv
  <1>1. /\ pc[p] = "next" /\ pc'[p] = "saveAttempt" /\ UNCHANGED <<visible, sent>>
        /\ cmd'[p] = cmd[p] /\ Dir(p)' = Dir(p) /\ Sendings(p)' = Sendings(p)
        /\ at'[p] = at[p]
    BY SendingsKept DEF Record, At, Goto, files, TypeOK, Dir, Batch
  <1>2. PICK i \in Pending(p) : cur' = [cur EXCEPT ![p] = RequestAt(p, i)]
    BY DEF Record
  <1> DEFINE r == RequestAt(p, i)
  <1>3. r \in Wanted(Preview(p)) /\ r \in Requests /\ mem[p].status[r] = "none" /\ cur'[p] = r
    BY <1>1, <1>2, RequestType DEF TypeOK
  <1> HIDE DEF r
  <1>4. Extends(mem[p], visible[Dir(p)])
    BY <1>1 DEF Knows, MemoryFresh, Working, Held
  <1>5. r \notin Attempts(visible[Dir(p)])
    BY <1>3, <1>4 DEF Extends, Follows, Attempts
  <1>6. PICK A : Paid(p, A)
    BY <1>1 DEF Covered
  <1>7. at[p] \in DOMAIN cmd[p].batches /\ cmd[p].kind \in {"relate", "resume"}
    BY <1>1, CommandType
  <1>8. at[p] \in Ahead(p)
    BY <1>1, <1>7 DEF Ahead, Held, Working
  <1>9. r \in Left(cmd[p].batches[at[p]], visible)
    BY <1>3, <1>5 DEF Left, Dir, Preview, Batch
  <1>10. <<cmd[p].batches[at[p]].dir, r, 1>> \in A
    BY <1>6, <1>8, <1>9 DEF Paid
  <1>11. <<Dir(p)', cur'[p], 1>> \in A
    BY <1>1, <1>3, <1>10 DEF Dir, Batch
  <1>12. Allowance(p)' = Allowance(p) /\ Ahead(p)' \subseteq Ahead(p)
    BY <1>1 DEF Allowance, Ahead, Held, Working, Saving
  <1>13. \A d \in Dirs : Extends(visible'[d], visible[d])
    BY <1>1, ExtendsReflexive
  <1>14. Paid(p, A)'
    BY <1>1, <1>6, <1>11, <1>12, <1>13, PaidKeeps
  <1> QED BY <1>1, <1>14 DEF Covered

\* A step that sends nothing, names nothing new and counts nothing more.
LEMMA OthersAreCovered ==
  ASSUME BudgetInv, NEW p \in Procs, pc[p] \notin {"idle", "check"}, pc'[p] \notin {"idle", "check"},
         Plan(p) \/ Execute(p) \/ Crash(p), ~Send(p), cmd'[p] = cmd[p], cur'[p] = cur[p],
         pc'[p] \in Naming => pc[p] \in Naming /\ Dir(p)' = Dir(p),
         Ahead(p)' \subseteq Ahead(p)
  PROVE  Covered(p)'
  <1> IInv /\ Covered(p)
    BY DEF BudgetInv
  <1>1. PICK A : Paid(p, A)
    BY DEF Covered
  <1>2. Sendings(p)' = Sendings(p)
    BY WhoWrites, SendingsKept
  <1>3. Allowance(p)' = Allowance(p)
    BY DEF Allowance
  <1>4. \A d \in Dirs : Extends(visible'[d], visible[d])
    BY VisibleGrows
  <1>5. pc'[p] \in Naming => <<Dir(p)', cur'[p], 1>> \in A
    BY <1>1 DEF Paid
  <1>6. Paid(p, A)'
    BY <1>1, <1>2, <1>3, <1>4, <1>5, PaidKeeps
  <1> QED BY <1>6 DEF Covered

LEMMA SendIsCovered ==
  ASSUME BudgetInv, NEW p \in Procs, Send(p)
  PROVE  Covered(p)'
  <1> IInv /\ TypeOK /\ Covered(p)
    BY DEF BudgetInv, IInv
  <1>1. /\ pc[p] = "send" /\ pc'[p] = "wait" /\ UNCHANGED visible /\ cmd'[p] = cmd[p]
        /\ at'[p] = at[p]
    BY DEF Send, At, Goto, files, TypeOK
  <1>2. PICK A : Paid(p, A)
    BY <1>1 DEF Covered
  <1>3. Sendings(p)' = Sendings(p) \union {<<Dir(p), cur[p], 1>>}
    BY SendingsStep
  <1>4. Sendings(p)' \subseteq A
    BY <1>1, <1>2, <1>3 DEF Paid, Naming
  <1>5. Allowance(p)' = Allowance(p) /\ Ahead(p)' \subseteq Ahead(p)
    BY <1>1 DEF Allowance, Ahead, Held, Working
  <1>6. Paid(p, A)'
    BY <1>1, <1>2, <1>4, <1>5 DEF Paid, Naming
  <1> QED BY <1>1, <1>6 DEF Covered

\* Every step leaves the process that takes it covered.
LEMMA OwnCovered ==
  ASSUME BudgetInv, NEW p \in Procs, Plan(p) \/ Execute(p) \/ Crash(p), TypeOK'
  PROVE  Covered(p)'
  <1> IInv /\ TypeOK /\ Covered(p) /\ Tally(p)
    BY DEF BudgetInv, IInv
  <1> USE DEF At, Goto, files, Held, Working, Saving, Syncing, Naming
  <1>1. CASE Start(p)
    <2>1. /\ pc[p] = "idle" /\ Sendings(p)' = {} /\ at'[p] = 1 /\ cmd'[p] \in Commands
          /\ pc'[p] = IF cmd'[p].kind = "resume" THEN "check" ELSE "lock"
      BY <1>1, SendingsKept DEF Start, Covered, TypeOK
    <2>2. cmd'[p].batches \in Seq(Batches)
      BY <2>1, DispatchAssumption
    <2>3. DOMAIN cmd'[p].batches = 1 .. Len(cmd'[p].batches) /\ Len(cmd'[p].batches) \in Nat
      BY <2>2
    <2>4. Ahead(p)' = {}
      BY <2>1, <2>3 DEF Ahead
    <2> QED BY <2>1, <2>4, NothingPaid
  <1>2. CASE CheckBatch(p)
    BY <1>2, CheckIsCovered
  <1>3. ASSUME RefuseBudget(p) \/ Crash(p), pc[p] = "check"
        PROVE  Covered(p)'
    <2>1. Sendings(p)' = {} /\ pc'[p] \in {"failed", "dead"}
      BY <1>3, SendingsKept DEF RefuseBudget, Crash, Ends, Tally, TypeOK
    <2>2. Ahead(p)' = {}
      BY <2>1 DEF Ahead
    <2> QED BY <2>1, <2>2, NothingPaid
  <1>4. CASE ReadCheckpoint(p)
    BY <1>4, ReadIsCovered
  <1>5. CASE Record(p)
    BY <1>5, RecordIsCovered
  <1>6. CASE Send(p)
    BY <1>6, SendIsCovered
  <1>7. ASSUME \/ LockBusy(p) \/ RefuseCheckpoint(p) \/ SaveFails(p)
               \/ (Crash(p) /\ pc[p] # "check")
        PROVE  Covered(p)'
    <2>1. /\ pc[p] \notin {"idle", "check"} /\ pc'[p] \in {"failed", "dead"}
          /\ UNCHANGED <<cmd, cur, sent>>
      BY <1>7 DEF LockBusy, RefuseCheckpoint, SaveFails, Crash, Ends, Running, TypeOK
    <2>2. ~Send(p)
      BY <2>1 DEF Send, TypeOK
    <2>3. Ahead(p)' = {}
      BY <2>1 DEF Ahead
    <2> QED BY <2>1, <2>2, <2>3, OthersAreCovered
  <1>8. ASSUME Lock(p) \/ Replace(p) \/ Answer(p) \/ NoAnswer(p)
        PROVE  Covered(p)'
    <2>1. /\ pc[p] \in {"lock", "wait"} \union Saving /\ pc'[p] \in {"read", "saveAnswer", "saveFailure"} \union Syncing
          /\ UNCHANGED <<cmd, at, cur>>
          /\ pc'[p] \in Naming => pc[p] \in Naming
          /\ pc[p] = "lock" => pc'[p] = "read"
      BY <1>8 DEF Lock, Replace, Answer, NoAnswer, Sync, TypeOK
    <2>2. ~Send(p)
      BY <2>1 DEF Send, TypeOK
    <2>3. Ahead(p)' \subseteq Ahead(p)
      BY <2>1 DEF Ahead
    <2>4. Dir(p)' = Dir(p)
      BY <2>1 DEF Dir, Batch
    <2> QED BY <1>8, <2>1, <2>2, <2>3, <2>4, OthersAreCovered DEF Execute, Plan
  <1>9. CASE Saved(p)
    <2>1. /\ pc[p] \in Syncing /\ pc'[p] \in {"send", "next", "failed"}
          /\ UNCHANGED <<cmd, at, cur>> /\ (pc'[p] = "send" => pc[p] = "syncAttempt")
      BY <1>9 DEF Saved, Ends, TypeOK
    <2>2. ~Send(p)
      BY <2>1 DEF Send, TypeOK
    <2>3. Ahead(p)' \subseteq Ahead(p)
      BY <2>1 DEF Ahead
    <2>4. Dir(p)' = Dir(p)
      BY <2>1 DEF Dir, Batch
    <2> QED BY <1>9, <2>1, <2>2, <2>3, <2>4, OthersAreCovered DEF Execute
  <1>10. CASE EndBatch(p)
    <2>1. /\ pc[p] = "next" /\ UNCHANGED <<cmd, cur>>
          /\ pc'[p] = "done" \/ (pc'[p] = "lock" /\ ~LastBatch(p))
      BY <1>10 DEF EndBatch, TypeOK
    <2>2. ~Send(p)
      BY <2>1 DEF Send, TypeOK
    <2>3. cmd[p].kind = "relate" => LastBatch(p)
      BY <2>1, CommandType DEF LastBatch
    <2>4. Ahead(p)' \subseteq Ahead(p)
      BY <2>1, <2>3 DEF Ahead
    <2> QED BY <1>10, <2>1, <2>2, <2>4, OthersAreCovered DEF Execute
  <1>11. RefuseBudget(p) => pc[p] = "check"
    BY DEF RefuseBudget
  <1> QED
    BY <1>1, <1>2, <1>3, <1>4, <1>5, <1>6, <1>7, <1>8, <1>9, <1>10, <1>11 DEF Plan, Execute

LEMMA SentByType ==
  ASSUME NEW p \in Procs, Covered(p)
  PROVE  IsFiniteSet(Sendings(p)) /\ SentBy(p) \in Nat
  <1>1. IsFiniteSet(Sendings(p))
    BY FS_EmptySet, FS_Subset DEF Covered, Paid
  <1> QED BY <1>1, FS_CardinalityType DEF SentBy

\* Opening a checkpoint: the attempts it names come off the summary.
LEMMA ReadIsTallied ==
  ASSUME BudgetInv, NEW p \in Procs, ReadCheckpoint(p)
  PROVE  Tally(p)'
  <1> IInv /\ TypeOK /\ Covered(p) /\ Tally(p)
    BY DEF BudgetInv, IInv
  <1>1. /\ pc[p] = "read" /\ pc'[p] = "next" /\ Sendings(p)' = Sendings(p)
        /\ new'[p] = new[p] - Cardinality(Attempts(visible[Dir(p)]))
        /\ mem'[p] = IF visible[Dir(p)] = NoFile THEN NewLedger(Preview(p)) ELSE visible[Dir(p)]
    BY SendingsKept DEF ReadCheckpoint, PriorCount, At, Goto, TypeOK
  <1>2. Attempts(mem'[p]) = Attempts(visible[Dir(p)])
    <2>1. CASE visible[Dir(p)] = NoFile
      <3>1. Attempts(NewLedger(Preview(p))) = {}
        BY DEF Attempts, NewLedger
      <3>2. Attempts(NoFile) = {}
        BY DEF Attempts
      <3> QED BY <1>1, <2>1, <3>1, <3>2
    <2>2. CASE visible[Dir(p)] # NoFile
      BY <1>1, <2>2
    <2> QED BY <2>1, <2>2
  <1>3. new[p] = SentBy(p) /\ SentBy(p)' = SentBy(p) /\ SentBy(p) \in Nat
    BY <1>1, SentByType DEF Tally, SentBy
  <1>4. Cardinality(Attempts(visible[Dir(p)])) \in Nat
    BY CountType
  <1> HIDE DEF Tally
  <1>5. new'[p] + Cardinality(Attempts(mem'[p])) = SentBy(p)'
    BY <1>1, <1>2, <1>3, <1>4
  <1> QED BY <1>1, <1>3, <1>5 DEF Tally, Naming, SentBy

\* Naming a request: it is an attempt more than there are sendings.
LEMMA RecordIsTallied ==
  ASSUME BudgetInv, NEW p \in Procs, Record(p)
  PROVE  Tally(p)'
  <1> IInv /\ TypeOK /\ Covered(p) /\ Tally(p)
    BY DEF BudgetInv, IInv
  <1>1. /\ pc[p] = "next" /\ pc'[p] = "saveAttempt" /\ Sendings(p)' = Sendings(p)
        /\ new'[p] = new[p] /\ mem[p] \in Ledgers
    BY SendingsKept, CurrentType DEF Record, At, Goto, TypeOK, Working, Held
  <1>2. PICK i \in Pending(p) : SetStatus(p, RequestAt(p, i), "uncertain")
    BY DEF Record
  <1> DEFINE r == RequestAt(p, i)
  <1>3. r \in Requests /\ mem[p].status[r] = "none"
    BY <1>1, RequestType
  <1>4. mem'[p] = [mem[p] EXCEPT !.status[r] = "uncertain"]
    BY <1>2 DEF SetStatus, TypeOK
  <1> HIDE DEF r
  <1>5. mem'[p] \in Ledgers /\ mem'[p] # NoFile /\ mem[p] # NoFile
    <2>1. [mem[p] EXCEPT !.status[r] = "uncertain"] \in Ledgers
      BY <1>1, <1>3 DEF Ledgers, Statuses
    <2> QED BY <1>1, <1>4, <2>1, DispatchAssumption
  <1>6. Attempts(mem'[p]) = Attempts(mem[p]) \union {r} /\ r \notin Attempts(mem[p])
    BY <1>1, <1>3, <1>4, <1>5 DEF Attempts, Ledgers, Statuses
  <1>7. IsFiniteSet(Attempts(mem[p]))
    BY DispatchAssumption, FS_Subset DEF Attempts
  <1>8. Cardinality(Attempts(mem'[p])) = Cardinality(Attempts(mem[p])) + 1
    BY <1>6, <1>7, FS_AddElement
  <1>9. new[p] + Cardinality(Attempts(mem[p])) = SentBy(p) + 0
    BY <1>1 DEF Tally, Working, Held, Naming
  <1>10. /\ SentBy(p) \in Nat /\ SentBy(p)' = SentBy(p) /\ new[p] \in Int
         /\ Cardinality(Attempts(mem[p])) \in Nat
    BY <1>1, SentByType, CountType DEF SentBy, TypeOK
  <1> HIDE DEF Tally
  <1>11. new'[p] + Cardinality(Attempts(mem'[p])) = SentBy(p)' + 1
    BY <1>1, <1>8, <1>9, <1>10
  <1> QED BY <1>1, <1>11 DEF Tally, Naming

LEMMA SendIsTallied ==
  ASSUME BudgetInv, NEW p \in Procs, Send(p)
  PROVE  Tally(p)'
  <1> IInv /\ TypeOK /\ Covered(p) /\ Tally(p) /\ Knows(p)
    BY DEF BudgetInv, IInv
  <1>1. /\ pc[p] = "send" /\ pc'[p] = "wait" /\ mem'[p] = mem[p] /\ cur'[p] = cur[p]
        /\ new'[p] = new[p]
    BY DEF Send, At, Goto, TypeOK
  <1>2. mem[p].status[cur[p]] = "uncertain"
    BY <1>1 DEF Knows, CurrentUnsent
  <1>3. /\ Sendings(p)' = Sendings(p) \union {<<Dir(p), cur[p], 1>>}
        /\ <<Dir(p), cur[p], 1>> \notin Sendings(p)
    BY SendingsStep
  <1>4. IsFiniteSet(Sendings(p)) /\ SentBy(p) \in Nat
    BY SentByType
  <1>5. SentBy(p)' = SentBy(p) + 1
    BY <1>3, <1>4, FS_AddElement DEF SentBy
  <1>6. new[p] + Cardinality(Attempts(mem[p])) = SentBy(p) + 1
    BY <1>1 DEF Tally, Working, Held, Naming
  <1> HIDE DEF Tally
  <1>7. new'[p] + Cardinality(Attempts(mem'[p])) = SentBy(p)' + 0
    BY <1>1, <1>4, <1>5, <1>6
  <1> QED BY <1>1, <1>2, <1>7 DEF Tally, Naming

\* An answer changes the status of a request that the ledger already names.
LEMMA AnswerIsTallied ==
  ASSUME BudgetInv, NEW p \in Procs, Answer(p)
  PROVE  Tally(p)'
  <1> IInv /\ TypeOK /\ Covered(p) /\ Tally(p)
    BY DEF BudgetInv, IInv
  <1>1. /\ pc[p] = "wait" /\ pc'[p] = "saveAnswer" /\ Sendings(p)' = Sendings(p)
        /\ new'[p] = new[p] /\ mem[p] \in Ledgers /\ cur[p] \in Requests
        /\ mem[p].status[cur[p]] # "none"
        /\ mem'[p] = [mem[p] EXCEPT !.status[cur[p]] = "succeeded"]
    BY SendingsKept, CurrentType DEF Answer, At, Goto, TypeOK, Working, Held, Tally, SetStatus
  <1>2. mem'[p] \in Ledgers /\ mem'[p] # NoFile /\ mem[p] # NoFile
    <2>1. [mem[p] EXCEPT !.status[cur[p]] = "succeeded"] \in Ledgers
      BY <1>1 DEF Ledgers, Statuses
    <2> QED BY <1>1, <2>1, DispatchAssumption
  <1>3. Attempts(mem'[p]) = Attempts(mem[p])
    BY <1>1, <1>2 DEF Attempts, Ledgers, Statuses
  <1> QED BY <1>1, <1>3 DEF Tally, SentBy, Working, Held, Naming, Saving

LEMMA EndIsTallied ==
  ASSUME BudgetInv, NEW p \in Procs, EndBatch(p)
  PROVE  Tally(p)'
  <1> IInv /\ TypeOK /\ Covered(p) /\ Tally(p)
    BY DEF BudgetInv, IInv
  <1>1. /\ pc[p] = "next" /\ Sendings(p)' = Sendings(p) /\ cmd'[p] = cmd[p]
        /\ new'[p] = new[p] + Cardinality(Attempts(mem[p]))
        /\ pc'[p] = "done" \/ (pc'[p] = "lock" /\ ~LastBatch(p))
    BY SendingsKept DEF EndBatch, At, Goto, TypeOK
  <1>2. cmd[p].kind = "relate" => LastBatch(p)
    BY <1>1, CommandType DEF LastBatch
  <1>3. new[p] + Cardinality(Attempts(mem[p])) = SentBy(p) + 0 /\ SentBy(p) \in Nat
    BY <1>1, SentByType DEF Tally, Working, Held, Naming
  <1>4. new'[p] = SentBy(p)'
    BY <1>1, <1>3 DEF SentBy
  <1> QED BY <1>1, <1>2, <1>4 DEF Tally, Working, Held, Naming, Saving, Syncing

\* Every step leaves the summary of the process that takes it in tune with what it sent.
LEMMA OwnTallied ==
  ASSUME BudgetInv, NEW p \in Procs, Plan(p) \/ Execute(p) \/ Crash(p)
  PROVE  Tally(p)'
  <1> IInv /\ TypeOK /\ Covered(p) /\ Tally(p)
    BY DEF BudgetInv, IInv
  <1> USE DEF At, Goto, files, Held, Working, Saving, Syncing, Naming
  <1>1. CASE Start(p)
    <2>1. /\ pc[p] = "idle" /\ Sendings(p) = {} /\ Sendings(p)' = {} /\ new'[p] = new[p]
          /\ pc'[p] = IF cmd'[p].kind = "resume" THEN "check" ELSE "lock"
          /\ cmd'[p].kind \in {"relate", "resume"}
      BY <1>1, SendingsKept, DispatchAssumption DEF Start, Covered, TypeOK
    <2> QED BY <2>1 DEF Tally, SentBy
  <1>2. CASE ReadCheckpoint(p)
    BY <1>2, ReadIsTallied
  <1>3. CASE Record(p)
    BY <1>3, RecordIsTallied
  <1>4. CASE Send(p)
    BY <1>4, SendIsTallied
  <1>5. CASE Answer(p)
    BY <1>5, AnswerIsTallied
  <1>6. CASE EndBatch(p)
    BY <1>6, EndIsTallied
  <1>7. CASE CheckBatch(p)
    <2>1. /\ pc[p] = "check" /\ pc'[p] \in {"check", "lock"} /\ new'[p] = new[p]
          /\ cmd'[p] = cmd[p] /\ Sendings(p)' = Sendings(p)
      BY <1>7, SendingsKept DEF CheckBatch, TypeOK
    <2> QED BY <2>1 DEF Tally, SentBy
  <1>8. ASSUME RefuseBudget(p) \/ LockBusy(p) \/ RefuseCheckpoint(p) \/ SaveFails(p) \/ Crash(p)
        PROVE  Tally(p)'
    <2>1. pc'[p] \in {"failed", "dead"}
      BY <1>8 DEF RefuseBudget, LockBusy, RefuseCheckpoint, SaveFails, Crash, Ends, TypeOK
    <2> QED BY <2>1 DEF Tally
  <1>9. CASE Lock(p)
    <2>1. /\ pc[p] = "lock" /\ pc'[p] = "read" /\ new'[p] = new[p]
          /\ cmd'[p] = cmd[p] /\ Sendings(p)' = Sendings(p)
      BY <1>9, SendingsKept DEF Lock, TypeOK
    <2> QED BY <2>1 DEF Tally, SentBy
  <1>10. ASSUME Replace(p) \/ Saved(p) \/ NoAnswer(p) PROVE Tally(p)'
    <2>1. /\ pc[p] \in Saving \union Syncing \union {"wait"}
          /\ pc'[p] \in Syncing \union {"send", "next", "saveFailure", "failed"}
          /\ pc'[p] # "failed" => (pc'[p] \in Naming <=> pc[p] \in Naming)
          /\ UNCHANGED <<new, cmd, mem, cur, sent>>
      BY <1>10 DEF Replace, Saved, NoAnswer, Ends, Sync, TypeOK
    <2>2. Sendings(p)' = Sendings(p) /\ SentBy(p)' = SentBy(p)
      BY <2>1, SendingsKept DEF SentBy
    <2> QED BY <2>1, <2>2 DEF Tally
  <1> QED
    BY <1>1, <1>2, <1>3, <1>4, <1>5, <1>6, <1>7, <1>8, <1>9, <1>10 DEF Plan, Execute

\* A power loss ends whoever could still send something.
LEMMA PowerIsCovered ==
  ASSUME BudgetInv, PowerLoss, TypeOK', NEW p \in Procs
  PROVE  Covered(p)' /\ Tally(p)'
  <1> IInv /\ TypeOK /\ Covered(p) /\ Tally(p)
    BY DEF BudgetInv, IInv
  <1>1. /\ cmd'[p] = cmd[p] /\ new'[p] = new[p] /\ todo'[p] = todo[p]
        /\ pc'[p] = IF Running(p) THEN "dead" ELSE pc[p]
        /\ Sendings(p)' = Sendings(p) /\ SentBy(p)' = SentBy(p)
    BY SendingsKept DEF PowerLoss, SentBy
  <1>2. pc'[p] \in {"idle", "done", "failed", "dead"} /\ (pc'[p] = "idle" <=> pc[p] = "idle")
    BY <1>1 DEF Running
  <1>3. Tally(p)'
    BY <1>1, <1>2 DEF Tally, Working, Held, Saving, Syncing
  <1>4. Ahead(p)' = {} /\ pc'[p] \notin Naming
    BY <1>2 DEF Ahead, Working, Held, Saving, Syncing, Naming
  <1>5. CASE pc[p] = "idle"
    BY <1>1, <1>2, <1>3, <1>5 DEF Covered
  <1>6. CASE pc[p] = "check"
    <2>1. Sendings(p)' = {} /\ pc'[p] # "idle"
      BY <1>1, <1>2, <1>6 DEF Tally
    <2>2. Covered(p)'
      BY <1>4, <2>1, NothingPaid
    <2> QED BY <1>3, <2>2
  <1>7. CASE pc[p] \notin {"idle", "check"}
    <2>1. PICK A : Paid(p, A)
      BY <1>7 DEF Covered
    <2>2. Allowance(p)' = Allowance(p)
      BY <1>1, <1>2, <1>7 DEF Allowance
    <2>3. Paid(p, A)'
      BY <1>1, <1>4, <2>1, <2>2 DEF Paid
    <2> QED BY <1>2, <1>3, <1>7, <2>3 DEF Covered
  <1> QED BY <1>5, <1>6, <1>7

LEMMA BudgetStarts == Init => BudgetInv
  <1> SUFFICES ASSUME Init PROVE BudgetInv
    OBVIOUS
  <1>1. IInv
    BY InitInvariant
  <1>2. ASSUME NEW p \in Procs PROVE Covered(p) /\ Tally(p)
    <2>1. Sendings(p) = {}
      <3>1. \A d \in Dirs, r \in Requests : DOMAIN sent[d][r] = {}
        BY DEF Init
      <3> QED BY <3>1, SendingsAre
    <2>2. SentBy(p) = 0
      BY <2>1, FS_EmptySet DEF SentBy
    <2> QED BY <2>1, <2>2 DEF Init, Covered, Tally, Working, Held, Saving, Syncing
  <1> QED BY <1>1, <1>2 DEF BudgetInv

LEMMA BudgetStep == BudgetInv /\ [Next]_vars => BudgetInv'
  <1> SUFFICES ASSUME BudgetInv, [Next]_vars PROVE BudgetInv'
    OBVIOUS
  <1>1. IInv' /\ TypeOK'
    BY NextInvariant DEF BudgetInv, IInv
  <1>2. ASSUME NEW p \in Procs PROVE Covered(p)' /\ Tally(p)'
    <2>1. CASE PowerLoss
      BY <1>1, <2>1, PowerIsCovered
    <2>2. ASSUME NEW q \in Procs, Plan(q) \/ Execute(q) \/ Crash(q)
          PROVE  Covered(p)' /\ Tally(p)'
      <3>1. CASE p = q
        BY <1>1, <2>2, <3>1, OwnCovered, OwnTallied
      <3>2. CASE p # q
        BY <2>2, <3>2, OthersPaid
      <3> QED BY <3>1, <3>2
    <2>3. CASE UNCHANGED vars
      <3>1. Covered(p) /\ Tally(p)
        BY DEF BudgetInv
      <3>2. Sendings(p)' = Sendings(p) /\ SentBy(p)' = SentBy(p) /\ UNCHANGED vars
        BY <2>3, SendingsKept DEF vars, SentBy
      <3>3. Tally(p)'
        BY <3>1, <3>2 DEF vars, Tally
      <3>4. ASSUME NEW A, Paid(p, A) PROVE Paid(p, A)'
        BY <3>2, <3>4 DEF vars, files, Paid, Allowance, Ahead, Left, Attempts, Dir, Batch
      <3>5. Covered(p)'
        BY <3>1, <3>2, <3>4 DEF vars, Covered
      <3> QED BY <3>3, <3>5
    <2> QED BY <2>1, <2>2, <2>3 DEF Next
  <1> QED BY <1>1, <1>2 DEF BudgetInv

\* However many processes, batches and directories there are, and whatever fails: a resume
\* stays below the budget it checked before it had a lock, a relate below its limit, and a
\* run that ends well reports exactly what it sent.
THEOREM BudgetIsKept == Spec => []WithinBudget
  <1>1. BudgetInv => WithinBudget
    <2> SUFFICES ASSUME BudgetInv, NEW p \in Procs
                 PROVE  /\ cmd[p] # NoCommand =>
                             SentBy(p) <= IF cmd[p].kind = "resume" THEN cmd[p].budget
                                                                    ELSE MaxRequests
                        /\ At(p, "done") => new[p] = SentBy(p)
      BY DEF WithinBudget
    <2>1. TypeOK /\ Covered(p) /\ Tally(p)
      BY DEF BudgetInv, IInv
    <2>2. At(p, "done") => new[p] = SentBy(p)
      BY <2>1 DEF Tally, At
    <2>3. ASSUME cmd[p] # NoCommand
          PROVE  SentBy(p) <= IF cmd[p].kind = "resume" THEN cmd[p].budget ELSE MaxRequests
      <3>1. pc[p] # "idle"
        BY <2>1, <2>3 DEF TypeOK
      <3>2. cmd[p].budget \in Nat /\ MaxRequests \in Nat
        BY <2>1, <3>1, CommandType, DispatchAssumption
      <3>3. CASE pc[p] = "check"
        <4>1. SentBy(p) = 0
          BY <2>1, <3>3, FS_EmptySet DEF Tally, SentBy
        <4> QED BY <3>2, <4>1
      <3>4. CASE pc[p] # "check"
        <4>1. PICK A : Paid(p, A)
          BY <2>1, <3>1 DEF Covered
        <4>2. SentBy(p) <= Cardinality(A) /\ Cardinality(A) \in Nat /\ SentBy(p) \in Nat
          BY <2>1, <4>1, FS_Subset, FS_CardinalityType, SentByType DEF Paid, SentBy
        <4>3. Cardinality(A) <= IF cmd[p].kind = "resume" THEN cmd[p].budget ELSE MaxRequests
          BY <3>4, <4>1 DEF Paid, Allowance
        <4> QED BY <3>2, <4>2, <4>3
      <3> QED BY <3>3, <3>4
    <2> QED BY <2>2, <2>3
  <1> QED BY <1>1, BudgetStarts, BudgetStep, PTL DEF Spec

----------------------------------------------------------------------------
(* What a checkpoint promises.  No ledger claims an answer to a request    *)
(* that was not sent (Earned), so a send is a Send of PaidRequests, a sync *)
(* a Record, and every other step of anyone a stutter or a Record.         *)

EarnedBy(l, d) == l # NoFile => \A r \in Requests : l.status[r] = "succeeded" => sent[d][r] # <<>>
EarnedIn(p) ==
  /\ pc[p] \in Working => EarnedBy(mem[p], Dir(p))
  /\ pc[p] = "wait" => sent[Dir(p)][cur[p]] # <<>>
EarnedFiles == \A d \in Dirs : EarnedBy(visible[d], d) /\ EarnedBy(durable[d], d)
EarnedInv   == IInv /\ EarnedFiles /\ \A p \in Procs : EarnedIn(p)

LedgerOf(l) == IF l = NoFile THEN [r \in Requests |-> "none"] ELSE l.status
CheckpointOf(d) == INSTANCE PaidRequests WITH
  ledger <- LedgerOf(durable[d]), paid <- [r \in Requests |-> Len(sent[d][r])]

\* Nothing that was sent is ever unsent.
LEMMA SentStays ==
  ASSUME IInv, [Next]_vars, NEW d \in Dirs, NEW r \in Requests, sent[d][r] # <<>>
  PROVE  sent'[d][r] # <<>>
  <1>1. ASSUME NEW q \in Procs, Send(q) PROVE sent'[d][r] # <<>>
    <2>1. /\ Dir(q) \in Dirs /\ cur[q] \in Requests /\ ~(d = Dir(q) /\ r = cur[q])
          /\ sent' = [sent EXCEPT ![Dir(q)][cur[q]] = Append(@, q)]
      BY <1>1, SendStep
    <2>2. sent'[d][r] = sent[d][r]
      BY <2>1 DEF IInv, TypeOK
    <2> QED BY <2>2
  <1>2. CASE sent' = sent
    BY <1>2
  <1> QED BY <1>1, <1>2, WhoWrites DEF Next, vars, PowerLoss

LEMMA OwnEarned ==
  ASSUME EarnedInv, NEW q \in Procs, Plan(q) \/ Execute(q) \/ Crash(q)
  PROVE  EarnedIn(q)'
  <1> IInv /\ TypeOK /\ EarnedFiles /\ EarnedIn(q) /\ [Next]_vars
    BY DEF EarnedInv, IInv, Next
  <1> USE DEF At, Goto, files, Working, Held, Saving, Syncing
  <1>1. CASE pc'[q] \notin Working
    BY <1>1 DEF EarnedIn
  <1>2. CASE ReadCheckpoint(q)
    <2>1. /\ Dir(q)' = Dir(q) /\ pc'[q] = "next" /\ UNCHANGED sent
          /\ mem'[q] = IF visible[Dir(q)] = NoFile THEN NewLedger(Preview(q)) ELSE visible[Dir(q)]
      BY <1>2 DEF ReadCheckpoint, Dir, Batch, TypeOK
    <2>2. EarnedBy(visible[Dir(q)], Dir(q))
      BY <1>2, BatchType DEF ReadCheckpoint, EarnedFiles
    <2>3. \A r \in Requests : mem'[q].status[r] = "succeeded" => sent[Dir(q)][r] # <<>>
      BY <2>1, <2>2 DEF EarnedBy, NewLedger
    <2> QED BY <2>1, <2>3 DEF EarnedIn, EarnedBy
  <1>3. CASE Record(q)
    <2>1. PICK i \in Pending(q) : SetStatus(q, RequestAt(q, i), "uncertain")
      BY <1>3 DEF Record
    <2> DEFINE r == RequestAt(q, i)
    <2>2. r \in Requests /\ mem[q] \in Ledgers
      BY <1>3, RequestType, CurrentType DEF Record
    <2> HIDE DEF r
    <2>3. mem'[q] = [mem[q] EXCEPT !.status[r] = "uncertain"] /\ pc[q] = "next" /\ pc'[q] = "saveAttempt"
      BY <1>3, <2>1 DEF Record, SetStatus, TypeOK, r
    <2>4. \A s \in Requests : mem'[q].status[s] = IF s = r THEN "uncertain" ELSE mem[q].status[s]
      BY <2>2, <2>3 DEF Ledgers
    <2>5. Dir(q)' = Dir(q) /\ UNCHANGED sent
      BY <1>3 DEF Record, Dir, Batch
    <2>6. mem[q] # NoFile
      BY <2>2, DispatchAssumption
    <2> QED BY <2>3, <2>4, <2>5, <2>6 DEF EarnedIn, EarnedBy
  <1>4. CASE Replace(q) \/ Saved(q) \/ (NoAnswer(q) /\ pc'[q] \in Working)
    <2>1. /\ Dir(q)' = Dir(q) /\ UNCHANGED <<mem, sent>> /\ pc[q] \in Working
      BY <1>4 DEF Replace, Saved, NoAnswer, Dir, Batch
    <2>2. pc'[q] # "wait"
      BY <1>4 DEF Replace, Saved, NoAnswer, Sync, Ends, TypeOK
    <2> QED BY <2>1, <2>2 DEF EarnedIn, EarnedBy
  <1>5. CASE Send(q)
    <2>1. /\ Dir(q)' = Dir(q) /\ UNCHANGED <<mem, cur>> /\ pc[q] = "send"
      BY <1>5 DEF Send, Dir, Batch
    <2>2. Dir(q) \in Dirs /\ cur[q] \in Requests
      BY <1>5, SendStep
    <2>3. sent'[Dir(q)][cur[q]] # <<>>
      <3>1. sent'[Dir(q)][cur[q]] = Append(<<>>, q)
        BY <1>5, <2>2, SendStep DEF TypeOK
      <3> QED BY <3>1
    <2>4. \A r \in Requests : sent[Dir(q)][r] # <<>> => sent'[Dir(q)][r] # <<>>
      BY <2>2, SentStays
    <2> QED BY <2>1, <2>3, <2>4 DEF EarnedIn, EarnedBy
  <1>6. CASE Answer(q)
    <2>1. /\ Dir(q)' = Dir(q) /\ UNCHANGED sent /\ pc[q] = "wait" /\ pc'[q] = "saveAnswer"
          /\ mem' = [mem EXCEPT ![q].status[cur[q]] = "succeeded"]
      BY <1>6 DEF Answer, SetStatus, Dir, Batch, TypeOK
    <2>2. mem[q] \in Ledgers /\ cur[q] \in Requests /\ mem[q] # NoFile
      BY <2>1, CurrentType, DispatchAssumption
    <2>3. mem'[q] = [mem[q] EXCEPT !.status[cur[q]] = "succeeded"]
      BY <2>1 DEF TypeOK
    <2>4. \A r \in Requests : mem'[q].status[r] = IF r = cur[q] THEN "succeeded" ELSE mem[q].status[r]
      BY <2>2, <2>3 DEF Ledgers
    <2> QED BY <2>1, <2>2, <2>4 DEF EarnedIn, EarnedBy
  <1>7. ASSUME pc'[q] \in Working,
               \/ Start(q) \/ CheckBatch(q) \/ RefuseBudget(q) \/ Lock(q) \/ LockBusy(q)
               \/ RefuseCheckpoint(q) \/ SaveFails(q) \/ EndBatch(q) \/ Crash(q)
        PROVE  FALSE
    BY <1>7 DEF Start, CheckBatch, RefuseBudget, Lock, LockBusy, RefuseCheckpoint, SaveFails,
                EndBatch, Crash, Ends, TypeOK
  <1> QED BY <1>1, <1>2, <1>3, <1>4, <1>5, <1>6, <1>7 DEF Plan, Execute

LEMMA EarnedStep == EarnedInv /\ [Next]_vars => EarnedInv'
  <1> SUFFICES ASSUME EarnedInv, [Next]_vars PROVE EarnedInv'
    OBVIOUS
  <1> IInv /\ TypeOK /\ EarnedFiles /\ \A p \in Procs : EarnedIn(p)
    BY DEF EarnedInv, IInv
  <1>1. IInv'
    BY NextInvariant
  <1>2. EarnedFiles'
    <2> SUFFICES ASSUME NEW d \in Dirs PROVE EarnedBy(visible[d], d)' /\ EarnedBy(durable[d], d)'
      BY DEF EarnedFiles
    <2>1. EarnedBy(visible[d], d) /\ EarnedBy(durable[d], d)
      BY DEF EarnedFiles
    <2>2. \A r \in Requests : sent[d][r] # <<>> => sent'[d][r] # <<>>
      BY SentStays
    <2>3. ASSUME NEW q \in Procs, Replace(q), d = Dir(q)
          PROVE  visible'[d] = mem[q] /\ EarnedBy(mem[q], d)
      BY <2>3 DEF Replace, Saving, EarnedIn, Working, Held, TypeOK
    <2>4. ASSUME NEW q \in Procs, Replace(q), d # Dir(q) PROVE visible'[d] = visible[d]
      BY <2>4 DEF Replace, TypeOK
    <2>5. ASSUME NEW q \in Procs, Saved(q) PROVE durable'[d] \in {durable[d], visible[d]}
      BY <2>5, BatchType DEF Saved, SyncDir, TypeOK, Syncing
    <2>6. ASSUME PowerLoss PROVE visible'[d] \in {durable[d], visible[d]} /\ durable' = visible'
      BY <2>6 DEF PowerLoss
    <2>7. ASSUME NEW q \in Procs, Plan(q) \/ Execute(q) \/ Crash(q)
          PROVE  EarnedBy(visible[d], d)' /\ EarnedBy(durable[d], d)'
      BY <2>1, <2>2, <2>3, <2>4, <2>5, <2>7, WhoWrites DEF EarnedBy
    <2>8. CASE PowerLoss
      BY <2>1, <2>2, <2>6, <2>8 DEF EarnedBy
    <2>9. CASE UNCHANGED vars
      BY <2>1, <2>9 DEF vars, EarnedBy
    <2> QED BY <2>7, <2>8, <2>9 DEF Next
  <1>3. ASSUME NEW p \in Procs PROVE EarnedIn(p)'
    <2>1. ASSUME NEW q \in Procs, Plan(q) \/ Execute(q) \/ Crash(q), p # q PROVE EarnedIn(p)'
      BY <2>1, Frame DEF EarnedIn, EarnedBy, Working, Held, Saving, Syncing
    <2>2. ASSUME NEW q \in Procs, Plan(q) \/ Execute(q) \/ Crash(q), p = q PROVE EarnedIn(p)'
      BY <2>2, OwnEarned
    <2>3. CASE PowerLoss
      <3>1. pc'[p] \notin Working
        BY <2>3 DEF PowerLoss, Running, TypeOK, Working, Held, Saving, Syncing
      <3> QED BY <3>1 DEF EarnedIn, Working, Held, Saving, Syncing
    <2>4. CASE UNCHANGED vars
      BY <2>4 DEF vars, EarnedIn, EarnedBy, Dir, Batch
    <2> QED BY <2>1, <2>2, <2>3, <2>4 DEF Next
  <1> QED BY <1>1, <1>2, <1>3 DEF EarnedInv

LEMMA CheckpointStep ==
  ASSUME EarnedInv, [Next]_vars, NEW d \in Dirs
  PROVE  [CheckpointOf(d)!Next]_<<LedgerOf(durable[d]), [r \in Requests |-> Len(sent[d][r])]>>
  <1> DEFINE paid == [r \in Requests |-> Len(sent[d][r])]
             ledger == LedgerOf(durable[d])
  <1>1. EarnedInv' /\ IInv /\ IInv' /\ TypeOK /\ TypeOK' /\ Extends(durable'[d], durable[d])
    BY EarnedStep, NextInvariant, DurableGrows DEF EarnedInv, IInv
  <1>2. ASSUME NEW q \in Procs, Send(q), d = Dir(q) PROVE CheckpointOf(d)!Next
    <2>1. PICK c \in Requests :
            /\ sent[d][c] = <<>> /\ durable' = durable
            /\ durable[d] # NoFile /\ durable[d].status[c] = "uncertain"
            /\ sent' = [sent EXCEPT ![d][c] = Append(@, q)]
      BY <1>1, <1>2, SendStep
    <2>2. ledger' = ledger /\ ledger[c] = "uncertain" /\ paid[c] = 0
      BY <2>1 DEF LedgerOf
    <2>3. \A r \in Requests : sent'[d][r] = IF r = c THEN <<q>> ELSE sent[d][r]
      BY <1>1, <2>1 DEF TypeOK
    <2>4. \A r \in Requests : Len(sent'[d][r]) = IF r = c THEN 1 ELSE paid[r]
      <3>1. Len(<<q>>) = 1
        OBVIOUS
      <3> QED BY <2>3, <3>1
    <2>5. paid' = [paid EXCEPT ![c] = 1]
      BY <2>1, <2>4
    <2>6. CheckpointOf(d)!Send(c)
      BY <2>2, <2>5 DEF CheckpointOf!Send
    <2> QED BY <2>1, <2>6 DEF CheckpointOf!Next
  <1>3. CASE sent'[d] = sent[d]
    <2>1. paid' = paid
      BY <1>3
    <2>2. ledger' \in [Requests -> {"none", "uncertain"} \union CheckpointOf(d)!Settled]
      BY <1>1 DEF TypeOK, LedgerOf, Ledgers, Statuses, CheckpointOf!Settled
    <2>3. ASSUME NEW r \in Requests
          PROVE  /\ ledger[r] # "none" => ledger'[r] # "none"
                 /\ ledger[r] \in CheckpointOf(d)!Settled => ledger'[r] = ledger[r]
                 /\ ledger'[r] = "succeeded" => paid[r] = 1
                 /\ ledger'[r] = "not_dispatched" => paid[r] = 0
      <3>1. ledger[r] \in Statuses /\ ledger'[r] \in Statuses
        BY <1>1 DEF TypeOK, LedgerOf, Ledgers, Statuses
      <3>2. Follows(ledger'[r], ledger[r])
        BY <1>1 DEF Extends, LedgerOf, Follows
      <3>3. ledger'[r] = "succeeded" => sent[d][r] # <<>>
        BY <1>1, <1>3 DEF EarnedInv, EarnedFiles, EarnedBy, LedgerOf
      <3>4. sent[d][r] \in Seq(Procs) /\ Len(sent[d][r]) <= 1
        BY <1>1 DEF TypeOK, IInv, AtMostOnce
      <3>5. sent[d][r] # <<>> => Len(sent[d][r]) # 0 /\ Len(sent[d][r]) \in Nat
        BY <3>4, EmptySeq
      <3>6. sent[d][r] # <<>> => Len(sent[d][r]) = 1
        <4>1. \A n \in Nat : n # 0 /\ n <= 1 => n = 1
          OBVIOUS
        <4> QED BY <3>4, <3>5, <4>1, Zenon
      <3> QED BY <3>1, <3>2, <3>3, <3>6 DEF Follows, Statuses, CheckpointOf!Settled
    <2> QED BY <2>1, <2>2, <2>3 DEF CheckpointOf!Next, CheckpointOf!Record
  <1>4. sent'[d] = sent[d] \/ \E q \in Procs : Send(q) /\ d = Dir(q)
    <2>1. ASSUME NEW q \in Procs, Send(q), d # Dir(q) PROVE sent'[d] = sent[d]
      BY <1>1, <2>1, SendStep DEF TypeOK
    <2> QED BY <2>1, WhoWrites DEF Next, vars, PowerLoss
  <1> QED BY <1>2, <1>3, <1>4

\* The checkpoint of every directory is an account of paid requests, whatever runs work on
\* it: each request is admitted on disk before it is sent, sent once, and an answer is
\* there only if it was paid for.
THEOREM CheckpointsAreAccounts ==
  ASSUME NEW d \in Dirs PROVE Spec => CheckpointOf(d)!Spec
  <1>1. Init => EarnedInv
    <2>1. Init => IInv
      BY InitInvariant
    <2>2. Init => EarnedFiles /\ \A p \in Procs : EarnedIn(p)
      BY DEF Init, EarnedFiles, EarnedBy, EarnedIn, Working, Held, Saving, Syncing
    <2> QED BY <2>1, <2>2 DEF EarnedInv
  <1>2. Init => CheckpointOf(d)!Init
    BY DEF Init, LedgerOf, CheckpointOf!Init
  <1>3. EarnedInv /\ [Next]_vars =>
          EarnedInv' /\ [CheckpointOf(d)!Next]_<<LedgerOf(durable[d]), [r \in Requests |-> Len(sent[d][r])]>>
    BY EarnedStep, CheckpointStep
  <1> QED BY <1>1, <1>2, <1>3, PTL DEF Spec, CheckpointOf!Spec
============================================================================
