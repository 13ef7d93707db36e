---------------------- MODULE CreatorCapabilityProofs ----------------------
(***************************************************************************)
(* Proofs about CreatorCapability, for any jobs, pids and releases, any    *)
(* number of restarts and of attempts: what a capability grants was        *)
(* attested for no older process than the one that launchd reported, and   *)
(* no restart of a creator passes between two resolutions, or inside a     *)
(* wait, unseen; processes with legacy receipts, and those of the wait,    *)
(* are told apart by the second in which they started.                     *)
(*                                                                         *)
(* The argument is about births, which only grow, and with them the        *)
(* seconds: whoever has a pid later is the same process or a younger one,  *)
(* and a receipt is never younger than the newest process of its creator.  *)
(***************************************************************************)
EXTENDS CreatorCapability, TLAPS

CapabilitySpec == CapabilityInit /\ [][CapabilityNext]_capabilityVars

----------------------------------------------------------------------------
(* The creators. *)

Processes == [pid : Pids, born : Nat, image : {"wrapper", "daemon"},
              code : Releases \cup {Absent}]
Receipts  == [label : Labels, mark : Nat, code : Releases \cup {Absent}, native : BOOLEAN]

MachineTyped ==
  /\ births \in 0 .. MaxBirths
  /\ started \in [0 .. MaxBirths -> Nat]
  /\ latest \in [Labels -> 0 .. births]
  /\ process \in [Labels -> Processes \cup {Absent}]
  /\ attestation \in [Pids -> Receipts \cup {Absent}]
  /\ installed \in [Roots -> Releases \cup {Absent}]

\* A process that runs is the newest of its label.
RunsNewest == \A l \in Labels : process[l] # Absent => process[l].born = latest[l]

OwnPid ==
  \A l, k \in Labels :
    process[l] # Absent /\ process[k] # Absent /\ process[l].pid = process[k].pid => l = k

\* A receipt was written by a process of its label.
ReceiptsAreOld ==
  \A pid \in Pids : attestation[pid] # Absent =>
    attestation[pid].mark <= Shown(latest[attestation[pid].label], attestation[pid].native)

\* Who was born later started no earlier.
SecondsGrow == \A i, j \in 0 .. births : i <= j => started[i] <= started[j]

MachineInv == MachineTyped /\ RunsNewest /\ OwnPid /\ ReceiptsAreOld /\ SecondsGrow

LEMMA MachineInit ==
  ASSUME CapabilityInit
  PROVE  MachineInv
  BY CapabilityAssumption
  DEF CapabilityInit, MachineInv, MachineTyped, RunsNewest, OwnPid, ReceiptsAreOld, SecondsGrow,
      Roots

\* What a receipt shows of a process is a number, and grows with the births.
LEMMA ShownTyped ==
  ASSUME births \in 0 .. MaxBirths, started \in [0 .. MaxBirths -> Nat],
         NEW i \in 0 .. births, NEW native
  PROVE  Shown(i, native) \in Nat
  <1>1. started[i] \in Nat /\ i \in Nat
    BY CapabilityAssumption
  <1>2. QED
    BY <1>1 DEF Shown

\* Births grow: a process is the one that was there, or younger than all before.
Younger ==
  /\ births' >= births
  /\ \A i \in 0 .. births : started'[i] = started[i]
  /\ \A l \in Labels : latest'[l] = latest[l] \/ latest'[l] > births
  /\ \A l \in Labels : process'[l] # Absent =>
       \/ process'[l].born > births
       \/ /\ process[l] # Absent
          /\ process'[l].pid = process[l].pid /\ process'[l].born = process[l].born

LEMMA CreatorsStep ==
  ASSUME MachineInv, Creators
  PROVE  MachineInv' /\ Younger
  <1> USE CapabilityAssumption
      DEF MachineInv, MachineTyped, RunsNewest, OwnPid, ReceiptsAreOld, SecondsGrow, Younger
  <1>1. ASSUME NEW l \in Labels, NEW pid \in Pids, Launch(l, pid)
        PROVE  MachineInv' /\ Younger
    <2> DEFINE new == [pid |-> pid, born |-> births + 1, image |-> "wrapper", code |-> Absent]
    <2>1. /\ births' = births + 1 /\ latest' = [latest EXCEPT ![l] = births + 1]
          /\ process' = [process EXCEPT ![l] = new]
          /\ births + 1 \in 0 .. MaxBirths
          /\ UNCHANGED <<attestation, installed>>
      BY <1>1 DEF Launch
    <2>10. PICK later \in {0, 1} :
             started' = [started EXCEPT ![births + 1] = started[births] + later]
      BY <1>1 DEF Launch
    <2>2. new \in Processes /\ new.pid = pid /\ new.born = births + 1
      BY DEF Processes
    <2>3. \A k \in Labels : process[k] # Absent => process[k].pid # pid
      BY <1>1 DEF Launch, Taken
    <2> HIDE DEF new
    <2>8. /\ started' \in [0 .. MaxBirths -> Nat] /\ started'[births + 1] >= started[births]
          /\ \A i \in 0 .. births : started'[i] = started[i]
      BY <2>1, <2>10
    <2>4. MachineTyped' /\ RunsNewest' /\ Younger
      BY <2>1, <2>2, <2>8
    <2>9. SecondsGrow'
      <3> SUFFICES ASSUME NEW i \in 0 .. births + 1, NEW j \in 0 .. births + 1, i <= j
                   PROVE  started'[i] <= started'[j]
        BY <2>1
      <3>1. CASE j = births + 1 /\ i # j
        <4>1. i \in 0 .. births /\ births \in 0 .. births /\ started[i] <= started[births]
          BY <3>1
        <4>2. started[i] \in Nat /\ started[births] \in Nat /\ started'[j] \in Nat
          BY <2>1, <2>8, <3>1, <4>1
        <4>3. QED
          BY <2>8, <3>1, <4>1, <4>2
      <3>2. CASE j # births + 1
        BY <2>8, <3>2
      <3>3. CASE i = j
        BY <2>1, <2>8, <3>3
      <3>4. QED
        BY <3>1, <3>2, <3>3
    <2>5. OwnPid'
      BY <2>1, <2>2, <2>3
    <2>6. ReceiptsAreOld'
      <3> SUFFICES ASSUME NEW q \in Pids, attestation[q] # Absent,
                          NEW k, k = attestation[q].label, NEW n, n = attestation[q].native
                   PROVE  attestation[q].mark <= IF n THEN latest'[k] ELSE started'[latest'[k]]
        BY <2>1 DEF Shown
      <3>1. k \in Labels /\ attestation[q].mark \in Nat
        BY DEF Receipts
      <3>2. attestation[q].mark <= IF n THEN latest[k] ELSE started[latest[k]]
        BY DEF Shown
      <3>3. latest[k] \in 0 .. births /\ latest'[k] \in {latest[k], births + 1}
        BY <2>1, <3>1
      <3>4. /\ started[latest[k]] \in Nat /\ started'[latest'[k]] \in Nat
            /\ started[latest[k]] <= started'[latest'[k]]
        <4>1. CASE latest'[k] = latest[k]
          BY <2>8, <3>3, <4>1
        <4>2. CASE latest'[k] = births + 1
          BY <2>1, <2>8, <3>3, <4>2
        <4>3. QED
          BY <3>3, <4>1, <4>2
      <3>5. QED
        BY <3>1, <3>2, <3>3, <3>4
    <2>7. QED
      BY <2>4, <2>5, <2>6, <2>9
  <1>2. ASSUME NEW l \in Labels, Exec(l) PROVE MachineInv' /\ Younger
    <2> DEFINE new == [process[l] EXCEPT !.image = "daemon", !.code = installed[RootOf[l]]]
    <2>1. /\ process[l] \in Processes /\ process[l] # Absent
          /\ process' = [process EXCEPT ![l] = new]
          /\ UNCHANGED <<births, started, latest, attestation, installed>>
      BY <1>2 DEF Exec
    <2>2. installed[RootOf[l]] \in Releases \cup {Absent}
      BY DEF Roots
    <2>3. new \in Processes /\ new.pid = process[l].pid /\ new.born = process[l].born
      BY <2>1, <2>2 DEF Processes
    <2> HIDE DEF new
    <2>4. QED
      BY <2>1, <2>3 DEF Shown
  <1>3. ASSUME NEW l \in Labels, Exit(l) PROVE MachineInv' /\ Younger
    BY <1>3 DEF Exit, Shown
  <1>4. ASSUME NEW l \in Labels, Disable(l) PROVE MachineInv' /\ Younger
    BY <1>4 DEF Disable, Shown
  <1>5. ASSUME NEW l \in Labels, NEW native \in BOOLEAN, Attest(l, native)
        PROVE  MachineInv' /\ Younger
    <2> DEFINE pid == process[l].pid
    <2>1. /\ process[l] \in Processes /\ process[l] # Absent
          /\ attestation' = [attestation EXCEPT ![pid] = Receipt(l, native)]
          /\ UNCHANGED <<births, started, latest, process, installed>>
      BY <1>5 DEF Attest
    <2>2. /\ Receipt(l, native) \in Receipts
          /\ Receipt(l, native).mark = Shown(latest[l], native)
          /\ Receipt(l, native).label = l /\ Receipt(l, native).native = native
      <3>1. process[l].born = latest[l] /\ latest[l] \in 0 .. MaxBirths
        BY <2>1
      <3>2. Shown(process[l].born, native) \in Nat
        BY <3>1 DEF Shown
      <3>3. QED
        BY <2>1, <3>1, <3>2 DEF Receipt, Receipts, Processes
    <2>4. Shown(latest[l], native) \in Nat
      BY DEF Shown
    <2>5. \A n, b : Shown(b, n)' = Shown(b, n)
      BY <2>1 DEF Shown
    <2>7. pid \in Pids
      BY <2>1 DEF Processes
    <2> HIDE DEF pid
    <2>6. ReceiptsAreOld'
      BY <2>1, <2>2, <2>4, <2>5
    <2>8. attestation' \in [Pids -> Receipts \cup {Absent}]
      BY <2>1, <2>2, <2>7
    <2>3. QED
      BY <2>1, <2>6, <2>8
  <1>6. ASSUME NEW r \in Roots, NEW release \in Releases \cup {Absent}, Install(r, release)
        PROVE  MachineInv' /\ Younger
    BY <1>6 DEF Install, Shown
  <1>7. QED
    BY <1>1, <1>2, <1>3, <1>4, <1>5, <1>6 DEF Creators

----------------------------------------------------------------------------
(* The resolver. *)

Probing == {"command", "start", "attestation"}

ResolverTyped ==
  /\ step \in {"none", "static", "print", "decide"} \cup Probing
  /\ attempt \in 0 .. Attempts
  /\ left \subseteq Labels
  /\ since \in [Labels -> Nat] /\ until \in [Labels -> Nat] /\ met \in Nat

\* A pass has verified the labels that are no longer left.
Progress ==
  /\ DOMAIN jobs = IF step = "none" THEN {} ELSE Labels \ left
  /\ step \in {"static", "print"} \cup Probing => left # {}
  /\ step = "static" => left = Labels
  /\ step = "decide" => left = {}
  /\ step = "none" => first = Absent

\* The files of the pass were reviewed as it read them.
FilesReviewed ==
  step \notin {"none", "static"} =>
    \A r \in Roots : static[r] \in Reviewed \/ (r = Train /\ static[r] = Absent)

\* A command that is still being resolved has no answer yet.
Undecided == step # "none" => granted = Absent /\ verdict = "none"

\* Whoever has the pid is not older than the label's process was at the look.
Probed ==
  /\ \A l \in Labels : since[l] <= latest[l] /\ until[l] <= latest[l]
  /\ step \in Probing =>
       /\ seen.pid \in Pids
       /\ \A p \in AtPid(seen.pid) : p.born >= since[NextLabel]
  /\ step = "attestation" =>
       seen.start \in Nat /\ seen.start >= started[since[NextLabel]]

\* An entry of a label: its receipt is of that label and of the code at its root.
Attested(l, entry, root) ==
  /\ entry.receipt \in Receipts /\ entry.receipt.label = l /\ entry.receipt.code = root
  /\ entry.start \in Nat

NotBefore(receipt, birth) == Shown(birth, receipt.native) <= receipt.mark
NotAfter(receipt, birth)  == receipt.mark <= Shown(birth, receipt.native)

\* A verified entry is as young as its look, and at most as young as the label was then.
JobsProved ==
  \A l \in DOMAIN jobs : jobs[l].kind = "daemon" =>
    /\ Attested(l, jobs[l], static[RootOf[l]])
    /\ NotBefore(jobs[l].receipt, since[l])
    /\ started[since[l]] <= jobs[l].start
    /\ expected = Absent => NotAfter(jobs[l].receipt, until[l])

\* The entries of the expected capability are not younger than its proof.
ExpectedProved ==
  expected # Absent =>
    \A l \in Labels : expected.jobs[l].kind = "daemon" =>
      expected.jobs[l].receipt \in Receipts /\ NotAfter(expected.jobs[l].receipt, until[l])

\* The wait goes on with the start of the process that it met first.
WaitRemembers ==
  /\ met \in 0 .. births
  /\ first # Absent => first.start = started[met]

GrantedComplete ==
  granted # Absent => /\ DOMAIN granted.capability.jobs = Labels
                      /\ granted.capability.static[Train] \in Reviewed \cup {Absent}

Promises == NoStaleReceipt /\ NoRestartUnseen /\ WaitCrossesNoRestart /\ GrantedComplete

ResolverInv ==
  /\ ResolverTyped /\ Progress /\ FilesReviewed /\ Undecided /\ Probed
  /\ JobsProved /\ ExpectedProved /\ WaitRemembers

CapabilityInv == MachineInv /\ ResolverInv /\ Promises

----------------------------------------------------------------------------
(* Every step keeps the invariant. *)

LEMMA CapabilityInvInit ==
  ASSUME CapabilityInit
  PROVE  CapabilityInv
  <1>1. MachineInv
    BY MachineInit
  <1>2. ResolverInv
    BY CapabilityAssumption
    DEF CapabilityInit, ResolverInv, ResolverTyped, Probing, Progress, FilesReviewed, Undecided,
        Probed, JobsProved, ExpectedProved, WaitRemembers
  <1>3. Promises
    BY DEF CapabilityInit, Promises, NoStaleReceipt, NoRestartUnseen, WaitCrossesNoRestart,
           GrantedComplete
  <1>4. QED
    BY <1>1, <1>2, <1>3 DEF CapabilityInv

LEMMA NextLabelIsLeft ==
  ASSUME left # {}
  PROVE  NextLabel \in left
  BY DEF NextLabel

\* The promises speak of granted, expected, verdict and three histories only.
LEMMA PromisesStand ==
  ASSUME Promises, UNCHANGED <<granted, expected, verdict, since, until, met, started>>
  PROVE  Promises'
  BY DEF Promises, NoStaleReceipt, NoRestartUnseen, WaitCrossesNoRestart, GrantedComplete, Shown

\* A process that starts does not change what was shown of the others.
LEMMA PromisesOutlast ==
  ASSUME CapabilityInv, Younger, UNCHANGED <<granted, expected, verdict, since, until, met>>
  PROVE  Promises'
  <1> USE DEF CapabilityInv, ResolverInv
  <1>1. \A l \in Labels : since[l] \in 0 .. births /\ until[l] \in 0 .. births
    BY DEF Probed, MachineInv, MachineTyped, ResolverTyped
  <1>2. met \in 0 .. births
    BY DEF WaitRemembers
  <1>3. \A i \in 0 .. births : \A native : Shown(i, native)' = Shown(i, native)
    BY DEF Younger, Shown
  <1>4. NoStaleReceipt' /\ NoRestartUnseen'
    BY <1>1, <1>3 DEF Promises, NoStaleReceipt, NoRestartUnseen
  <1>5. WaitCrossesNoRestart'
    BY <1>1, <1>2, CapabilityAssumption DEF Younger, Promises, WaitCrossesNoRestart
  <1>6. GrantedComplete'
    BY DEF Promises, GrantedComplete
  <1>7. QED
    BY <1>4, <1>5, <1>6 DEF Promises

\* While a capability is being resolved nothing is promised.
LEMMA NothingPromised ==
  ASSUME granted' = Absent, verdict' # "current"
  PROVE  Promises'
  BY DEF Promises, NoStaleReceipt, NoRestartUnseen, WaitCrossesNoRestart, GrantedComplete

LEMMA CreatorsKeep ==
  ASSUME CapabilityInv, Creators, UNCHANGED <<resolver, granted, expected, verdict, since, until, met>>
  PROVE  CapabilityInv'
  <1> USE DEF CapabilityInv, ResolverInv, resolver
  <1>1. MachineInv' /\ Younger
    BY CreatorsStep
  <1>2. NextLabel' = NextLabel
    BY DEF NextLabel
  <1>3. \A pid, b : (\A p \in AtPid(pid) : p.born >= b) /\ b \in Nat /\ b <= births
                     => \A p \in AtPid(pid)' : p.born >= b
    BY <1>1 DEF AtPid, Younger, MachineInv, MachineTyped, Processes
  <1>4. Probed'
    <2>1. \A l \in Labels : /\ since[l] <= latest'[l] /\ since[l] <= births
                             /\ until[l] <= latest'[l]
      BY <1>1 DEF Probed, Younger, MachineInv, MachineTyped, ResolverTyped
    <2>2. CASE step \in Probing
      <3>1. NextLabel \in Labels
        BY <2>2, NextLabelIsLeft DEF Progress, ResolverTyped
      <3>2. \A p \in AtPid(seen.pid)' : p.born >= since[NextLabel]
        BY <1>3, <2>1, <2>2, <3>1 DEF Probed, ResolverTyped
      <3>3. step = "attestation" =>
              seen.start \in Nat /\ seen.start >= started'[since[NextLabel]]
        BY <1>1, <2>1, <3>1 DEF Probed, Younger, MachineInv, MachineTyped, ResolverTyped
      <3>4. births' \in Nat
        BY <1>1 DEF MachineInv, MachineTyped
      <3>5. QED
        BY <1>2, <2>1, <2>2, <3>2, <3>3, <3>4 DEF Probed
    <2>3. CASE step \notin Probing
      BY <2>1, <2>3 DEF Probed, Probing
    <2>4. QED
      BY <2>2, <2>3
  <1>5. WaitRemembers'
    BY <1>1 DEF WaitRemembers, Younger, MachineInv, MachineTyped
  <1>6. /\ ResolverTyped' /\ Progress' /\ FilesReviewed' /\ Undecided'
    BY DEF ResolverTyped, Progress, FilesReviewed, Undecided
  <1>8. /\ \A l \in Labels : since[l] \in 0 .. births /\ until[l] \in 0 .. births
        /\ DOMAIN jobs \subseteq Labels
    BY DEF Probed, MachineInv, MachineTyped, ResolverTyped, Progress
  <1>9. \A i \in 0 .. births : \A native :
          Shown(i, native)' = Shown(i, native) /\ started'[i] = started[i]
    BY <1>1 DEF Younger, Shown
  <1>10. JobsProved' /\ ExpectedProved'
    BY <1>8, <1>9 DEF JobsProved, ExpectedProved, Attested, NotBefore, NotAfter
  <1>7. QED
    BY <1>1, <1>4, <1>5, <1>6, <1>10, PromisesOutlast

\* What the resolver reads does not change the creators.
LEMMA MachineStands ==
  ASSUME MachineInv, UNCHANGED machine
  PROVE  MachineInv'
  BY DEF machine, MachineInv, MachineTyped, RunsNewest, OwnPid, ReceiptsAreOld, SecondsGrow, Shown

LEMMA RefuseKeeps ==
  ASSUME CapabilityInv, step # "none", Refuse
  PROVE  CapabilityInv'
  <1> USE DEF CapabilityInv, ResolverInv, Refuse
  <1>1. MachineInv'
    BY MachineStands
  <1>2. granted' = Absent /\ verdict' # "current"
    BY DEF Undecided
  <1>3. ResolverInv'
    BY CapabilityAssumption
    DEF Leave, machine, ResolverTyped, Progress, FilesReviewed, Undecided, Probed, Probing,
        JobsProved, ExpectedProved, WaitRemembers, NotAfter, Shown
  <1>4. QED
    BY <1>1, <1>2, <1>3, NothingPromised

LEMMA ResolveKeeps ==
  ASSUME CapabilityInv, Resolve
  PROVE  CapabilityInv'
  <1> USE DEF CapabilityInv, ResolverInv, Resolve
  <1>1. MachineInv'
    BY MachineStands
  <1>2. granted' = Absent /\ verdict' # "current"
    OBVIOUS
  <1>3. ResolverInv'
    BY CapabilityAssumption
    DEF Again, machine, MachineInv, MachineTyped, ResolverTyped, Progress, FilesReviewed,
        Undecided, Probed, Probing, JobsProved, ExpectedProved, WaitRemembers, NotAfter, Shown
  <1>4. QED
    BY <1>1, <1>2, <1>3, NothingPromised

LEMMA ReadStaticKeeps ==
  ASSUME CapabilityInv, ReadStatic
  PROVE  CapabilityInv'
  <1>1. CASE ~StaticReviewed
    BY <1>1, RefuseKeeps DEF ReadStatic
  <1>2. CASE StaticReviewed
    <2> USE <1>2 DEF CapabilityInv, ResolverInv
    <2>1. /\ step = "static" /\ step' = "print" /\ static' = installed
          /\ UNCHANGED <<attempt, first, left, seen, jobs, granted, expected, verdict,
                         since, until, met, machine>>
      BY DEF ReadStatic
    <2>2. MachineInv'
      BY <2>1, MachineStands
    <2>3. FilesReviewed'
      BY <2>1 DEF FilesReviewed, StaticReviewed
    <2>4. DOMAIN jobs = {} /\ DOMAIN jobs' = {}
      BY <2>1 DEF Progress
    <2>5. /\ ResolverTyped' /\ Progress' /\ Undecided' /\ Probed' /\ JobsProved'
          /\ ExpectedProved' /\ WaitRemembers'
      BY <2>1, <2>4
      DEF machine, ResolverTyped, Progress, Undecided, Probed, Probing, JobsProved,
          ExpectedProved, WaitRemembers, NotAfter, Shown
    <2>6. QED
      BY <2>1, <2>2, <2>3, <2>5, PromisesStand DEF machine
  <1>3. QED
    BY <1>1, <1>2

LEMMA EndCapabilityKeeps ==
  ASSUME CapabilityInv, EndCapability
  PROVE  CapabilityInv'
  <1> USE DEF CapabilityInv, ResolverInv, EndCapability
  <1>1. MachineInv'
    BY MachineStands
  <1>2. granted' = Absent /\ verdict' # "current"
    OBVIOUS
  <1>3. ResolverInv'
    BY CapabilityAssumption
    DEF resolver, machine, MachineInv, MachineTyped, ResolverTyped, Progress, FilesReviewed,
        Undecided, Probed, Probing, JobsProved, ExpectedProved, WaitRemembers
  <1>4. QED
    BY <1>1, <1>2, <1>3, NothingPromised

\* A label that is verified leaves left; the entries of the others stay.
LEMMA VerifiedProgress ==
  ASSUME ResolverInv, step \in {"print"} \cup Probing, NEW entry, Verified(entry)
  PROVE  /\ NextLabel \in left /\ NextLabel \in Labels /\ NextLabel \notin DOMAIN jobs
         /\ DOMAIN jobs' = DOMAIN jobs \cup {NextLabel}
         /\ jobs'[NextLabel] = entry
         /\ \A l \in DOMAIN jobs : jobs'[l] = jobs[l]
         /\ left' = left \ {NextLabel}
         /\ step' = IF left' = {} THEN "decide" ELSE "print"
         /\ UNCHANGED <<attempt, first, static>>
         /\ Progress'
  <1> USE DEF ResolverInv, Progress, ResolverTyped, Probing
  <1>1. NextLabel \in left
    BY NextLabelIsLeft
  <1> HIDE DEF NextLabel
  <1>2. QED
    BY <1>1 DEF Verified

LEMMA PrintJobKeeps ==
  ASSUME CapabilityInv, PrintJob
  PROVE  CapabilityInv'
  <1> USE DEF CapabilityInv, ResolverInv
  <1>1. /\ NextLabel \in left /\ NextLabel \in Labels /\ NextLabel \notin DOMAIN jobs
    BY NextLabelIsLeft DEF PrintJob, Progress, ResolverTyped
  <1>2. /\ step = "print" /\ since' = [since EXCEPT ![NextLabel] = latest[NextLabel]]
        /\ UNCHANGED <<machine, granted, expected, verdict, until, met>>
    BY DEF PrintJob
  <1>3. MachineInv'
    BY <1>2, MachineStands
  <1>4. granted' = Absent /\ verdict' # "current"
    BY <1>2 DEF Undecided
  <1>5. /\ since' \in [Labels -> Nat] /\ \A l \in Labels : since'[l] <= latest'[l]
        /\ \A l \in DOMAIN jobs : since'[l] = since[l]
    BY <1>1, <1>2, CapabilityAssumption
    DEF machine, MachineInv, MachineTyped, ResolverTyped, Probed, Progress
  <1>6. CASE \E entry : Verified(entry) /\ entry.kind \in {"disabled", "idle"}
    <2>1. PICK entry : Verified(entry) /\ entry.kind \in {"disabled", "idle"}
      BY <1>6
    <2>2. /\ DOMAIN jobs' = DOMAIN jobs \cup {NextLabel} /\ jobs'[NextLabel] = entry
          /\ \A l \in DOMAIN jobs : jobs'[l] = jobs[l]
          /\ left' \subseteq left /\ step' \in {"decide", "print"}
          /\ UNCHANGED <<attempt, first, static>> /\ Progress'
      BY <1>2, <2>1, VerifiedProgress
    <2>3. JobsProved'
      BY <1>2, <1>5, <2>1, <2>2 DEF JobsProved, Attested, NotBefore, NotAfter, Shown, machine
    <2>4. Probed' /\ ResolverTyped'
      BY <1>2, <1>5, <2>2 DEF Probed, Probing, ResolverTyped, machine
    <2>5. FilesReviewed' /\ Undecided' /\ ExpectedProved' /\ WaitRemembers'
      BY <1>2, <1>5, <2>2
      DEF machine, FilesReviewed, Undecided, ExpectedProved, WaitRemembers, NotAfter, Shown
    <2>6. QED
      BY <1>3, <1>4, <2>2, <2>3, <2>4, <2>5, NothingPromised
  <1>7. CASE /\ process[NextLabel] # Absent
             /\ seen' = [pid |-> process[NextLabel].pid] /\ step' = "command"
             /\ UNCHANGED <<attempt, first, static, left, jobs>>
    <2>1. NextLabel' = NextLabel
      BY <1>7 DEF NextLabel
    <2>2. /\ seen'.pid \in Pids /\ AtPid(seen'.pid) = {process[NextLabel]}
          /\ process[NextLabel].born = latest[NextLabel]
      BY <1>1, <1>7 DEF AtPid, MachineInv, MachineTyped, RunsNewest, OwnPid, Processes
    <2>3. AtPid(seen.pid)' = AtPid(seen'.pid)
      BY <1>2 DEF AtPid, machine
    <2>4. \A p \in AtPid(seen.pid)' : p.born >= since'[NextLabel]
      BY <1>1, <1>2, <2>2, <2>3 DEF ResolverTyped, MachineInv, MachineTyped
    <2>5. Probed'
      BY <1>2, <1>5, <1>7, <2>1, <2>2, <2>4 DEF Probed, machine
    <2>6. /\ ResolverTyped' /\ Progress' /\ FilesReviewed' /\ Undecided' /\ ExpectedProved'
          /\ WaitRemembers'
      BY <1>1, <1>2, <1>5, <1>7
      DEF machine, ResolverTyped, Progress, Probing, FilesReviewed, Undecided, ExpectedProved,
          WaitRemembers, NotAfter, Shown
    <2>7. JobsProved'
      BY <1>2, <1>5, <1>7 DEF JobsProved, Attested, NotBefore, NotAfter, Shown, machine
    <2>8. QED
      BY <1>3, <1>4, <2>5, <2>6, <2>7, NothingPromised
  <1>8. QED
    BY <1>6, <1>7 DEF PrintJob

LEMMA ProbeCommandKeeps ==
  ASSUME CapabilityInv, ProbeCommand
  PROVE  CapabilityInv'
  <1> USE DEF CapabilityInv, ResolverInv
  <1>1. CASE Refuse
    BY <1>1, RefuseKeeps DEF ProbeCommand
  <1>2. CASE ~Refuse
    <2>1. /\ step = "command" /\ step' = "start" /\ seen'.pid = seen.pid
          /\ UNCHANGED <<attempt, first, static, left, jobs, granted, expected, verdict,
                         since, until, met, machine>>
      <3>1. PICK p \in AtPid(seen.pid) : seen' = [pid |-> p.pid, image |->
               IF p = process[NextLabel] THEN p.image ELSE "other"]
        BY <1>2 DEF ProbeCommand
      <3>2. p.pid = seen.pid
        BY DEF AtPid
      <3>3. seen'.pid = p.pid
        BY <3>1
      <3>4. QED
        BY <1>2, <3>2, <3>3 DEF ProbeCommand
    <2>2. NextLabel' = NextLabel /\ AtPid(seen.pid)' = AtPid(seen.pid)
      BY <2>1 DEF NextLabel, AtPid, machine
    <2>3. Probed'
      BY <2>1, <2>2 DEF Probed, Probing, machine
    <2>4. /\ ResolverTyped' /\ Progress' /\ FilesReviewed' /\ Undecided' /\ ExpectedProved'
          /\ WaitRemembers' /\ JobsProved'
      BY <2>1
      DEF machine, ResolverTyped, Progress, Probing, FilesReviewed, Undecided, ExpectedProved,
          WaitRemembers, JobsProved, Attested, NotBefore, NotAfter, Shown
    <2>5. QED
      BY <2>1, <2>3, <2>4, MachineStands, PromisesStand DEF machine
  <1>3. QED
    BY <1>1, <1>2

\* The first wrapper that is met sets the mark; later ones are the same.
LEMMA AwaitWrapperKeeps ==
  ASSUME CapabilityInv, step = "start", NEW p \in AtPid(seen.pid),
         NEW evidence, evidence.start = started[p.born], AwaitWrapper(evidence, p.born)
  PROVE  CapabilityInv'
  <1> USE DEF CapabilityInv, ResolverInv
  <1>1. CASE Refuse
    BY <1>1, RefuseKeeps
  <1>2. CASE ~Refuse
    <2>1. /\ first # Absent => evidence = first
          /\ attempt < Attempts
          /\ Again /\ attempt' = attempt + 1 /\ first' = evidence
          /\ met' = IF first = Absent THEN p.born ELSE met
          /\ UNCHANGED <<machine, granted, expected, verdict, since, until>>
      BY <1>2, CapabilityAssumption DEF AwaitWrapper, ResolverTyped
    <2>2. p.born \in 0 .. births
      BY DEF AtPid, MachineInv, MachineTyped, RunsNewest, Processes
    <2>3. WaitRemembers'
      BY <2>1, <2>2 DEF WaitRemembers, machine
    <2>4. MachineInv'
      BY <2>1, MachineStands
    <2>5. granted' = Absent /\ verdict' # "current"
      BY <2>1 DEF Undecided
    <2>6. /\ ResolverTyped' /\ Progress' /\ FilesReviewed' /\ Undecided' /\ Probed'
          /\ JobsProved' /\ ExpectedProved'
      <3>1. ResolverTyped'
        BY <2>1, <2>2, CapabilityAssumption
        DEF Again, machine, MachineInv, MachineTyped, ResolverTyped, Probing
      <3>2. Progress' /\ FilesReviewed' /\ Undecided'
        BY <2>1, CapabilityAssumption
        DEF Again, machine, Progress, Probing, FilesReviewed, Undecided
      <3>3. Probed' /\ JobsProved'
        BY <2>1 DEF Again, machine, Probed, JobsProved, Probing
      <3>4. ExpectedProved'
        BY <2>1 DEF Again, machine, ExpectedProved, NotAfter, Shown
      <3>5. QED
        BY <3>1, <3>2, <3>3, <3>4
    <2>7. QED
      BY <2>3, <2>4, <2>5, <2>6, NothingPromised
  <1>3. QED
    BY <1>1, <1>2

LEMMA ProbeStartKeeps ==
  ASSUME CapabilityInv, ProbeStart
  PROVE  CapabilityInv'
  <1> USE DEF CapabilityInv, ResolverInv
  <1>1. step = "start"
    BY DEF ProbeStart
  <1>2. CASE Refuse
    BY <1>1, <1>2, RefuseKeeps
  <1>3. ASSUME NEW p \in AtPid(seen.pid),
               AwaitWrapper([pid |-> seen.pid, start |-> started[p.born], static |-> static],
                            p.born)
        PROVE  CapabilityInv'
    BY <1>1, <1>3, AwaitWrapperKeeps
  <1>4. ASSUME NEW p \in AtPid(seen.pid),
               seen' = [pid |-> seen.pid, start |-> started[p.born]], step' = "attestation",
               UNCHANGED <<attempt, first, static, left, jobs, granted, expected, verdict,
                           since, until, met, machine>>
        PROVE  CapabilityInv'
    <2>1. /\ NextLabel' = NextLabel /\ AtPid(seen.pid)' = AtPid(seen.pid)
          /\ seen'.pid = seen.pid /\ seen'.start = started[p.born]
      BY <1>4 DEF NextLabel, AtPid, machine
    <2>2. /\ p.born \in 0 .. births /\ p.born >= since[NextLabel] /\ NextLabel \in Labels
          /\ since[NextLabel] \in 0 .. births
      <3>1. NextLabel \in Labels
        BY <1>1, NextLabelIsLeft DEF Progress, Probing, ResolverTyped
      <3>2. p.born \in 0 .. births
        BY DEF AtPid, MachineInv, MachineTyped, RunsNewest, Processes
      <3>3. QED
        BY <1>1, <3>1, <3>2 DEF Probed, Probing, MachineInv, MachineTyped, ResolverTyped
    <2>6. started[p.born] \in Nat /\ started[since[NextLabel]] <= started[p.born]
      BY <2>2, CapabilityAssumption DEF MachineInv, MachineTyped, SecondsGrow
    <2>3. Probed'
      BY <1>1, <1>4, <2>1, <2>2, <2>6 DEF Probed, Probing, machine
    <2>4. /\ ResolverTyped' /\ Progress' /\ FilesReviewed' /\ Undecided' /\ ExpectedProved'
          /\ WaitRemembers' /\ JobsProved'
      BY <1>1, <1>4
      DEF machine, ResolverTyped, Progress, Probing, FilesReviewed, Undecided, ExpectedProved,
          WaitRemembers, JobsProved, Attested, NotBefore, NotAfter, Shown
    <2>5. QED
      BY <1>4, <2>3, <2>4, MachineStands, PromisesStand DEF machine
  <1>5. QED
    BY <1>2, <1>3, <1>4 DEF ProbeStart

\* What the probe found and the receipt under its pid amount to: a receipt that matches is
\* not older than the process that launchd reported, nor younger than the newest.
LEMMA ReceiptMatches ==
  ASSUME CapabilityInv, step = "attestation", StartupAttested(attestation[seen.pid])
  PROVE  LET receipt == attestation[seen.pid] IN
         /\ Attested(NextLabel, Generation(receipt), static[RootOf[NextLabel]])
         /\ NotBefore(receipt, since[NextLabel])
         /\ started[since[NextLabel]] <= seen.start
         /\ NotAfter(receipt, latest[NextLabel])
  <1> DEFINE receipt == attestation[seen.pid]
  <1> USE DEF CapabilityInv, ResolverInv, MachineInv
  <1>1. /\ seen.pid \in Pids /\ seen.start \in Nat /\ started[since[NextLabel]] <= seen.start
        /\ \A p \in AtPid(seen.pid) : p.born >= since[NextLabel]
    BY DEF Probed, Probing
  <1>2. receipt \in Receipts /\ receipt.label = NextLabel
        /\ receipt.code = static[RootOf[NextLabel]]
    BY <1>1 DEF StartupAttested, GenerationMatches, MachineTyped
  <1>3. NotAfter(receipt, latest[NextLabel])
    BY <1>1, <1>2 DEF StartupAttested, GenerationMatches, ReceiptsAreOld, NotAfter
  <1>4. NotBefore(receipt, since[NextLabel])
    <2>1. \/ receipt.native /\ \E p \in AtPid(seen.pid) : receipt.mark = p.born
          \/ ~receipt.native /\ receipt.mark = seen.start
      BY DEF StartupAttested, GenerationMatches
    <2>2. QED
      BY <1>1, <2>1 DEF NotBefore, Shown
  <1>5. Generation(receipt).receipt = receipt /\ Generation(receipt).start = seen.start
    BY DEF Generation
  <1> HIDE DEF receipt
  <1>6. /\ Attested(NextLabel, Generation(receipt), static[RootOf[NextLabel]])
        /\ NotBefore(receipt, since[NextLabel])
        /\ started[since[NextLabel]] <= seen.start
        /\ NotAfter(receipt, latest[NextLabel])
    BY <1>1, <1>2, <1>3, <1>4, <1>5 DEF Attested
  <1>7. QED
    BY <1>6 DEF receipt

LEMMA VerifyAttestationKeeps ==
  ASSUME CapabilityInv, VerifyAttestation
  PROVE  CapabilityInv'
  <1> USE DEF CapabilityInv, ResolverInv
  <1> DEFINE receipt == attestation[seen.pid]
             entry == Generation(receipt)
  <1>1. step = "attestation"
    BY DEF VerifyAttestation
  <1>2. CASE ~StartupAttested(receipt)
    BY <1>1, <1>2, RefuseKeeps DEF VerifyAttestation
  <1>3. CASE StartupAttested(receipt)
    <2>1. /\ Verified(entry)
          /\ until' = IF expected = Absent THEN [until EXCEPT ![NextLabel] = latest[NextLabel]]
                      ELSE until
          /\ UNCHANGED <<machine, granted, expected, verdict, since, met>>
      BY <1>3 DEF VerifyAttestation
    <2>2. /\ Attested(NextLabel, entry, static[RootOf[NextLabel]])
          /\ NotBefore(entry.receipt, since[NextLabel])
          /\ started[since[NextLabel]] <= entry.start
          /\ NotAfter(entry.receipt, latest[NextLabel])
      BY <1>1, <1>3, ReceiptMatches DEF Generation
    <2> HIDE DEF entry, receipt
    <2>3. /\ NextLabel \in Labels /\ NextLabel \notin DOMAIN jobs
          /\ DOMAIN jobs' = DOMAIN jobs \cup {NextLabel} /\ jobs'[NextLabel] = entry
          /\ \A l \in DOMAIN jobs : jobs'[l] = jobs[l]
          /\ left' \subseteq left /\ step' \in {"decide", "print"}
          /\ UNCHANGED <<attempt, first, static>> /\ Progress'
      BY <1>1, <2>1, VerifiedProgress DEF Probing
    <2>4. /\ until' \in [Labels -> Nat] /\ \A l \in Labels : until'[l] <= latest[l]
          /\ expected = Absent => until'[NextLabel] = latest[NextLabel]
          /\ \A l \in DOMAIN jobs : until'[l] = until[l]
      BY <2>1, <2>3 DEF ResolverTyped, MachineInv, MachineTyped, Progress, Probed
    <2>5. JobsProved'
      <3> SUFFICES ASSUME NEW l \in DOMAIN jobs', jobs'[l].kind = "daemon"
                   PROVE  /\ Attested(l, jobs'[l], static'[RootOf[l]])
                          /\ NotBefore(jobs'[l].receipt, since'[l])
                          /\ started[since'[l]] <= jobs'[l].start
                          /\ expected' = Absent => NotAfter(jobs'[l].receipt, until'[l])
        BY <2>1 DEF JobsProved, Attested, NotBefore, NotAfter, Shown, machine
      <3>1. CASE l = NextLabel
        BY <2>1, <2>2, <2>3, <2>4, <3>1
      <3>2. CASE l # NextLabel
        BY <2>1, <2>3, <2>4, <3>2 DEF JobsProved
      <3>3. QED
        BY <3>1, <3>2
    <2>6. Probed' /\ ResolverTyped'
      BY <2>1, <2>3, <2>4 DEF Probed, Probing, ResolverTyped, machine
    <2>7. FilesReviewed' /\ Undecided' /\ WaitRemembers'
      BY <1>1, <2>1, <2>3 DEF machine, FilesReviewed, Undecided, WaitRemembers
    <2>8. ExpectedProved'
      BY <2>1 DEF ExpectedProved, NotAfter, Shown, machine
    <2>9. MachineInv' /\ granted' = Absent /\ verdict' # "current"
      BY <1>1, <2>1, MachineStands DEF Undecided
    <2>10. QED
      BY <2>3, <2>5, <2>6, <2>7, <2>8, <2>9, NothingPromised
  <1>4. QED
    BY <1>2, <1>3

LEMMA DecideKeeps ==
  ASSUME CapabilityInv, Decide
  PROVE  CapabilityInv'
  <1> USE DEF CapabilityInv, ResolverInv
  <1> DEFINE capability == [static |-> static, jobs |-> jobs]
  <1>1. step = "decide" /\ DOMAIN jobs = Labels
    BY DEF Decide, Progress
  <1>2. CASE ~Continuous
    BY <1>1, <1>2, RefuseKeeps DEF Decide
  <1>3. CASE Continuous
    <2>1. /\ granted' = [capability |-> capability, waited |-> first # Absent]
          /\ expected' = IF expected = Absent THEN capability ELSE expected
          /\ verdict' = IF expected = Absent THEN "none"
                        ELSE IF CapabilityDiff(expected, capability) = {} THEN "current"
                        ELSE "changed"
          /\ Leave
          /\ UNCHANGED <<machine, since, until, met>>
      BY <1>3 DEF Decide
    <2>2. /\ granted'.capability.static = static /\ granted'.capability.jobs = jobs
          /\ granted'.waited <=> first # Absent
          /\ capability.static = static /\ capability.jobs = jobs
      BY <2>1
    <2> HIDE DEF capability
    <2>3. NoStaleReceipt'
      <3> SUFFICES ASSUME NEW l \in Labels, jobs[l].kind = "daemon"
                   PROVE  /\ jobs[l].receipt.label = l
                          /\ jobs[l].receipt.code = static[RootOf[l]]
                          /\ jobs[l].receipt.code \in Reviewed
                          /\ jobs[l].receipt.mark >= Shown(since[l], jobs[l].receipt.native)
        BY <2>1, <2>2 DEF NoStaleReceipt, Shown, machine
      <3>1. /\ Attested(l, jobs[l], static[RootOf[l]])
            /\ NotBefore(jobs[l].receipt, since[l])
        BY <1>1 DEF JobsProved
      <3>2. static[RootOf[l]] \in Reviewed
        BY <1>1, CapabilityAssumption DEF FilesReviewed, Roots
      <3>3. since[l] \in 0 .. births
        BY DEF Probed, ResolverTyped, MachineInv, MachineTyped
      <3>4. Shown(since[l], jobs[l].receipt.native) \in Nat /\ jobs[l].receipt.mark \in Nat
        BY <3>1, <3>3, ShownTyped DEF MachineInv, MachineTyped, Attested, Receipts
      <3>5. QED
        BY <3>1, <3>2, <3>4 DEF Attested, NotBefore
    <2>4. ExpectedProved'
      BY <1>1, <2>1, <2>2
      DEF ExpectedProved, JobsProved, Attested, NotAfter, Shown, machine
    <2>5. NoRestartUnseen'
      <3> SUFFICES ASSUME verdict' = "current", NEW l \in Labels,
                          expected'.jobs[l].kind = "daemon"
                   PROVE  LET native == expected'.jobs[l].receipt.native IN
                            Shown(since[l], native) <= Shown(until[l], native)
        BY <2>1 DEF NoRestartUnseen, Shown, machine
      <3>1. expected # Absent /\ expected' = expected /\ CapabilityDiff(expected, capability) = {}
        BY <2>1
      <3>2. expected.jobs[l] = jobs[l]
        BY <2>2, <3>1 DEF CapabilityDiff
      <3>3. jobs[l].receipt \in Receipts /\ NotBefore(jobs[l].receipt, since[l])
            /\ NotAfter(jobs[l].receipt, until[l])
        BY <1>1, <3>1, <3>2 DEF JobsProved, ExpectedProved, Attested
      <3>4. \A i \in 0 .. births, native \in BOOLEAN : Shown(i, native) \in Nat
        BY ShownTyped DEF MachineInv, MachineTyped
      <3>5. since[l] \in 0 .. births /\ until[l] \in 0 .. births
        BY DEF Probed, ResolverTyped, MachineInv, MachineTyped
      <3>6. QED
        BY <3>1, <3>2, <3>3, <3>4, <3>5 DEF NotBefore, NotAfter, Receipts
    <2>6. WaitCrossesNoRestart'
      <3> SUFFICES ASSUME first # Absent, jobs[Consumer].kind = "daemon"
                   PROVE  started[since[Consumer]] <= started[met]
        BY <2>1, <2>2 DEF WaitCrossesNoRestart, machine
      <3>1. jobs[Consumer].start = first.start /\ first.start = started[met]
        BY <1>3 DEF Continuous, SameProcess, WaitRemembers
      <3>2. QED
        BY <1>1, <3>1, CapabilityAssumption DEF JobsProved
    <2>7. GrantedComplete'
      BY <1>1, <2>2 DEF GrantedComplete, FilesReviewed, Roots
    <2>8. /\ ResolverTyped' /\ Progress' /\ FilesReviewed' /\ Undecided' /\ Probed'
          /\ JobsProved' /\ WaitRemembers'
      BY <2>1, CapabilityAssumption
      DEF Leave, machine, ResolverTyped, Progress, FilesReviewed, Undecided, Probed, Probing,
          JobsProved, WaitRemembers
    <2>9. QED
      BY <2>1, <2>3, <2>4, <2>5, <2>6, <2>7, <2>8, MachineStands DEF Promises
  <1>4. QED
    BY <1>2, <1>3

LEMMA CapabilityStutters ==
  ASSUME CapabilityInv, UNCHANGED capabilityVars
  PROVE  CapabilityInv'
  <1> USE DEF CapabilityInv, ResolverInv, capabilityVars, resolver
  <1>1. MachineInv' /\ Promises'
    BY MachineStands, PromisesStand DEF machine
  <1>2. NextLabel' = NextLabel /\ \A pid : AtPid(pid)' = AtPid(pid)
    BY DEF NextLabel, AtPid, machine
  <1>3. Probed'
    BY <1>2 DEF Probed, machine
  <1>4. /\ ResolverTyped' /\ Progress' /\ FilesReviewed' /\ Undecided' /\ JobsProved'
        /\ ExpectedProved' /\ WaitRemembers'
    BY DEF machine, ResolverTyped, Progress, FilesReviewed, Undecided, JobsProved, Attested,
           ExpectedProved, WaitRemembers, NotBefore, NotAfter, Shown
  <1>5. QED
    BY <1>1, <1>3, <1>4

LEMMA CapabilityInvNext ==
  ASSUME CapabilityInv, [CapabilityNext]_capabilityVars
  PROVE  CapabilityInv'
  <1>1. CASE Creators /\ UNCHANGED <<resolver, granted, expected, verdict, since, until, met>>
    BY <1>1, CreatorsKeep
  <1>2. CASE Resolver
    BY <1>2, ResolveKeeps, ReadStaticKeeps, PrintJobKeeps, ProbeCommandKeeps, ProbeStartKeeps,
       VerifyAttestationKeeps, DecideKeeps, EndCapabilityKeeps DEF Resolver
  <1>3. CASE UNCHANGED capabilityVars
    BY <1>3, CapabilityStutters
  <1>4. QED
    BY <1>1, <1>2, <1>3 DEF CapabilityNext

LEMMA CapabilityInvAlways == CapabilitySpec => []CapabilityInv
  BY CapabilityInvInit, CapabilityInvNext, PTL DEF CapabilitySpec

\* The resolver's progress and what it grants keep their types.
THEOREM CapabilityTypeCorrect == CapabilitySpec => []CapabilityTypeOK
  <1>1. CapabilityInv => CapabilityTypeOK
    BY DEF CapabilityInv, MachineInv, MachineTyped, ResolverInv, ResolverTyped, Probing, Progress,
           Promises, GrantedComplete, CapabilityTypeOK
  <1>2. QED
    BY CapabilityInvAlways, <1>1, PTL

\* Whatever a capability grants was attested by reviewed code, the same that it records for
\* the job's tree, by a process no older than the one that launchd reported, up to the
\* second in which it started if the receipt is not native.
THEOREM NeverStale == CapabilitySpec => []NoStaleReceipt
  <1>1. CapabilityInv => NoStaleReceipt
    BY DEF CapabilityInv, Promises
  <1>2. QED
    BY CapabilityInvAlways, <1>1, PTL

\* A diagnostic that says current missed no restart of a creator that the expected
\* capability saw running, under whatever pid, if its receipt is native; if it is not,
\* none into a later second.
THEOREM RestartsAreSeen == CapabilitySpec => []NoRestartUnseen
  <1>1. CapabilityInv => NoRestartUnseen
    BY DEF CapabilityInv, Promises
  <1>2. QED
    BY CapabilityInvAlways, <1>1, PTL

\* A capability granted after a wait, with the consumer running, is that of no process that
\* was started in a later second than the one whose start the wait recorded.
THEOREM WaitMeetsOneProcess == CapabilitySpec => []WaitCrossesNoRestart
  <1>1. CapabilityInv => WaitCrossesNoRestart
    BY DEF CapabilityInv, Promises
  <1>2. QED
    BY CapabilityInvAlways, <1>1, PTL
============================================================================
