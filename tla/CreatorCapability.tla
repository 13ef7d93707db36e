------------------------- MODULE CreatorCapability -------------------------
(***************************************************************************)
(* The production creator capability (coordinator.py): a snapshot of the   *)
(* reviewed releases and of the launchd jobs that create branches, taken   *)
(* by a row of ps, lsof and launchctl commands while the jobs start, exec, *)
(* attest themselves and exit, and taken again before every ref change.    *)
(***************************************************************************)
EXTENDS Integers, FiniteSets

CONSTANTS
  Labels,       \* required launchd labels
  Consumer,     \* the PR wake consumer, the only one worth waiting for
  Pids,
  RootOf,       \* [Labels -> runtime roots]
  Train,        \* the train-construction worktree, which may be absent
  Releases, Reviewed,
  Absent,       \* no such tree, process, receipt or capability
  Attempts,     \* _PR_WAKE_READINESS_ATTEMPTS
  MaxBirths,    \* bound on processes
  MaxDrift      \* bound on changes of files and jobs

Roots == {RootOf[l] : l \in Labels} \cup {Train}

ASSUME CapabilityAssumption ==
  /\ Consumer \in Labels /\ Train \notin {RootOf[l] : l \in Labels}
  /\ Reviewed # {} /\ Reviewed \subseteq Releases /\ Absent \notin Releases
  /\ Attempts \in Nat \ {0} /\ MaxBirths \in Nat /\ MaxDrift \in Nat

VARIABLES
  process,      \* [Labels -> process, Absent when idle]
  enabled,      \* labels not disabled in launchd
  attestation,  \* [Pids -> receipt file]
  installed,    \* [Roots -> release]
  latest,       \* history: birth of the newest process of a label
  started,      \* [births -> the second of the start, all that ps prints of it]
  births, drift

machine == <<process, enabled, attestation, installed, latest, started, births, drift>>

VARIABLES
  step,         \* what the resolver reads next
  attempt,
  first,        \* the wrapper it waits for
  static,       \* releases as it read them
  left,         \* labels it has not verified
  seen,         \* evidence about the process of the next label
  jobs,         \* loaded_runtime_jobs so far
  granted,      \* the newest capability
  expected,     \* the capability of the running command
  verdict,      \* production_capability_diagnostic
  since, until, \* history: latest at the newest look, and at the expected's proof
  met           \* history: birth of the process whose start the wait recorded

resolver == <<step, attempt, first, static, left, seen, jobs>>
capabilityVars == <<machine, resolver, granted, expected, verdict, since, until, met>>

----------------------------------------------------------------------------
(* The Home Lab creators, outside this repository.  Processes are born one *)
(* after another, several of them within a second.                         *)

Taken == {process[l].pid : l \in {k \in Labels : process[k] # Absent}}
AtPid(pid) == {process[l] : l \in {k \in Labels : process[k] # Absent /\ process[k].pid = pid}}

Launch(l, pid) ==
  /\ l \in enabled /\ process[l] = Absent /\ pid \notin Taken /\ births < MaxBirths
  /\ births' = births + 1
  /\ \E later \in {0, 1} : started' = [started EXCEPT ![births'] = started[births] + later]
  /\ latest' = [latest EXCEPT ![l] = births']
  /\ process' = [process EXCEPT ![l] =
       [pid |-> pid, born |-> births', image |-> "wrapper", code |-> Absent]]
  /\ UNCHANGED <<enabled, attestation, installed, drift>>

\* bash execs the daemon: same pid, same start, the code as installed by now.
Exec(l) ==
  /\ process[l] # Absent /\ process[l].image = "wrapper"
  /\ process' = [process EXCEPT ![l].image = "daemon", ![l].code = installed[RootOf[l]]]
  /\ UNCHANGED <<enabled, attestation, installed, latest, started, births, drift>>

\* How a receipt names a process: a native one exactly, a legacy one by its second.
Shown(birth, native) == IF native THEN birth ELSE started[birth]

Receipt(l, native) == [label |-> l, mark |-> Shown(process[l].born, native),
                       code |-> process[l].code, native |-> native]

\* A self-attestation, with the native generation or with the start as ps prints it.
Attest(l, native) ==
  /\ process[l] # Absent /\ process[l].image = "daemon"
  /\ attestation[process[l].pid] \notin {Receipt(l, TRUE), Receipt(l, FALSE)}
  /\ attestation' = [attestation EXCEPT ![process[l].pid] = Receipt(l, native)]
  /\ UNCHANGED <<process, enabled, installed, latest, started, births, drift>>

\* The receipt stays behind under its pid.
Exit(l) ==
  /\ process[l] # Absent
  /\ process' = [process EXCEPT ![l] = Absent]
  /\ UNCHANGED <<enabled, attestation, installed, latest, started, births, drift>>

Disable(l) ==
  /\ drift < MaxDrift /\ drift' = drift + 1
  /\ l \in enabled /\ process[l] = Absent
  /\ enabled' = enabled \ {l}
  /\ UNCHANGED <<process, attestation, installed, latest, started, births>>

Install(r, release) ==
  /\ drift < MaxDrift /\ drift' = drift + 1
  /\ release # installed[r] /\ (release = Absent => r = Train)
  /\ installed' = [installed EXCEPT ![r] = release]
  /\ UNCHANGED <<process, enabled, attestation, latest, started, births>>

----------------------------------------------------------------------------
(* One pass of the resolver. *)

Leave ==
  /\ step' = "none" /\ attempt' = 0 /\ first' = Absent /\ static' = Absent
  /\ left' = {} /\ seen' = Absent /\ jobs' = <<>>

Again ==
  /\ step' = "static" /\ static' = Absent /\ left' = Labels /\ seen' = Absent /\ jobs' = <<>>

\* Without a capability the command starts with one; then every check takes another.
Resolve ==
  /\ step = "none"
  /\ Again /\ attempt' = 1 /\ first' = Absent
  /\ granted' = Absent /\ verdict' = "none"
  /\ since' = [l \in Labels |-> 0] /\ met' = 0
  /\ UNCHANGED <<machine, expected, until>>

\* Any error but the consumer's wrapper ends the resolution.
Refuse ==
  /\ Leave
  /\ verdict' = IF expected = Absent THEN "none" ELSE "failed"
  /\ UNCHANGED <<machine, granted, expected, since, until, met>>

\* Releases, hook digests and the train worktree; an absent train is inactive.
StaticReviewed ==
  \A r \in Roots : installed[r] \in Reviewed \/ (r = Train /\ installed[r] = Absent)

ReadStatic ==
  /\ step = "static"
  /\ IF StaticReviewed
     THEN /\ static' = installed /\ step' = "print"
          /\ UNCHANGED <<attempt, first, left, seen, jobs, granted, expected, verdict,
                         since, until, met, machine>>
     ELSE Refuse

NextLabel == CHOOSE l \in left : TRUE

Verified(entry) ==
  /\ jobs' = [l \in DOMAIN jobs \cup {NextLabel} |-> IF l = NextLabel THEN entry ELSE jobs[l]]
  /\ left' = left \ {NextLabel}
  /\ step' = IF left' = {} THEN "decide" ELSE "print"
  /\ seen' = Absent
  /\ UNCHANGED <<attempt, first, static>>

\* launchctl print: disabled, idle, or a pid.
PrintJob ==
  /\ step = "print"
  /\ since' = [since EXCEPT ![NextLabel] = latest[NextLabel]]
  /\ IF NextLabel \notin enabled THEN Verified([kind |-> "disabled"])
     ELSE IF process[NextLabel] = Absent THEN Verified([kind |-> "idle"])
     ELSE /\ seen' = [pid |-> process[NextLabel].pid] /\ step' = "command"
          /\ UNCHANGED <<attempt, first, static, left, jobs>>
  /\ UNCHANGED <<machine, granted, expected, verdict, until, met>>

\* ps -o command=: whatever process has the pid by now.
ProbeCommand ==
  /\ step = "command"
  /\ IF AtPid(seen.pid) = {} THEN Refuse
     ELSE /\ \E p \in AtPid(seen.pid) : seen' = [pid |-> p.pid, image |->
               IF p = process[NextLabel] THEN p.image ELSE "other"]
          /\ step' = "start"
          /\ UNCHANGED <<attempt, first, static, left, jobs, granted, expected, verdict,
                         since, until, met, machine>>

\* The deadline may pass between any two attempts.
AwaitWrapper(evidence, birth) ==
  IF (first # Absent /\ evidence # first) \/ attempt >= Attempts THEN Refuse
  ELSE \/ Refuse
       \/ /\ Again /\ attempt' = attempt + 1 /\ first' = evidence
          /\ met' = IF first = Absent THEN birth ELSE met
          /\ UNCHANGED <<machine, granted, expected, verdict, since, until>>

\* ps -o lstart= and lsof, then the kind of process is known.
ProbeStart ==
  /\ step = "start"
  /\ IF AtPid(seen.pid) = {} THEN Refuse
     ELSE \E p \in AtPid(seen.pid) :
       CASE seen.image = "daemon" ->
              /\ seen' = [pid |-> seen.pid, start |-> started[p.born]] /\ step' = "attestation"
              /\ UNCHANGED <<attempt, first, static, left, jobs, granted, expected, verdict,
                             since, until, met, machine>>
         [] seen.image = "wrapper" /\ NextLabel = Consumer ->
              AwaitWrapper([pid |-> seen.pid, start |-> started[p.born], static |-> static],
                           p.born)
         [] OTHER -> Refuse

\* Mutant: a receipt under the pid is enough.
Bug_AnyGeneration(receipt, evidence) == receipt # Absent

\* receipt_generation_matches: a native receipt is compared with the process of now, a
\* legacy one with the second that was printed.
GenerationMatches(receipt, evidence) ==
  /\ receipt # Absent
  /\ IF receipt.native THEN \E p \in AtPid(evidence.pid) : receipt.mark = p.born
     ELSE receipt.mark = evidence.start

\* The receipt is of this creator and of the sources as verified, then and now.
StartupAttested(receipt) ==
  /\ GenerationMatches(receipt, seen)
  /\ receipt.label = NextLabel
  /\ receipt.code = static[RootOf[NextLabel]]
  /\ receipt.code = installed[RootOf[NextLabel]]

\* Mutant: the generation leaves the start of the process out.
Bug_PidOnly(receipt) == [kind |-> "daemon", pid |-> seen.pid, start |-> 0,
                         receipt |-> [receipt EXCEPT !.mark = 0]]

\* mtime_generation and startup_receipt_sha256.
Generation(receipt) == [kind |-> "daemon", pid |-> seen.pid, start |-> seen.start,
                        receipt |-> receipt]

VerifyAttestation ==
  /\ step = "attestation"
  /\ LET receipt == attestation[seen.pid] IN
     IF StartupAttested(receipt)
     THEN /\ Verified(Generation(receipt))
          /\ until' = IF expected = Absent THEN [until EXCEPT ![NextLabel] = latest[NextLabel]]
                      ELSE until
          /\ UNCHANGED <<machine, granted, expected, verdict, since, met>>
     ELSE Refuse

----------------------------------------------------------------------------
(* What becomes of a complete pass. *)

\* Mutant: the wait takes whatever daemon has the pid.
Bug_SamePid == jobs[Consumer].kind = "daemon" /\ jobs[Consumer].pid = first.pid

SameProcess == /\ jobs[Consumer].kind = "daemon"
               /\ jobs[Consumer].pid = first.pid /\ jobs[Consumer].start = first.start

\* After a wait: the same files, and the wrapper's own daemon or an idle job.
Continuous ==
  \/ first = Absent
  \/ static = first.static /\ (jobs[Consumer].kind = "idle" \/ SameProcess)

\* _capability_diff: fields of the files, jobs under another root, generations.
CapabilityDiff(old, new) ==
  {r \in Roots : old.static[r] # new.static[r]}
    \cup {l \in Labels : \/ old.static[RootOf[l]] # new.static[RootOf[l]]
                         \/ old.jobs[l] # new.jobs[l]}

Decide ==
  /\ step = "decide"
  /\ IF ~Continuous THEN Refuse
     ELSE LET capability == [static |-> static, jobs |-> jobs] IN
          /\ granted' = [capability |-> capability, waited |-> first # Absent]
          /\ expected' = IF expected = Absent THEN capability ELSE expected
          /\ verdict' = IF expected = Absent THEN "none"
                        ELSE IF CapabilityDiff(expected, capability) = {} THEN "current"
                        ELSE "changed"
          /\ Leave
          /\ UNCHANGED <<machine, since, until, met>>

\* The command ends.
EndCapability ==
  /\ step = "none" /\ expected # Absent
  /\ expected' = Absent /\ granted' = Absent /\ verdict' = "none"
  /\ until' = [l \in Labels |-> 0] /\ since' = until' /\ met' = 0
  /\ UNCHANGED <<machine, resolver>>

----------------------------------------------------------------------------
CapabilityInit ==
  /\ process = [l \in Labels |-> Absent] /\ enabled = Labels
  /\ attestation = [p \in Pids |-> Absent]
  /\ installed = [r \in Roots |-> IF r = Train THEN Absent ELSE CHOOSE v \in Reviewed : TRUE]
  /\ latest = [l \in Labels |-> 0] /\ started = [i \in 0 .. MaxBirths |-> 0] /\ births = 0 /\ drift = 0
  /\ step = "none" /\ attempt = 0 /\ first = Absent /\ static = Absent
  /\ left = {} /\ seen = Absent /\ jobs = <<>>
  /\ granted = Absent /\ expected = Absent /\ verdict = "none"
  /\ since = latest /\ until = latest /\ met = 0

Creators ==
  \/ \E l \in Labels, pid \in Pids : Launch(l, pid)
  \/ \E l \in Labels : Exec(l) \/ Exit(l) \/ Disable(l)
  \/ \E l \in Labels, native \in BOOLEAN : Attest(l, native)
  \/ \E r \in Roots, release \in Releases \cup {Absent} : Install(r, release)

Resolver ==
  \/ Resolve \/ ReadStatic \/ PrintJob \/ ProbeCommand \/ ProbeStart
  \/ VerifyAttestation \/ Decide \/ EndCapability

CapabilityNext ==
  \/ Creators /\ UNCHANGED <<resolver, granted, expected, verdict, since, until, met>>
  \/ Resolver

----------------------------------------------------------------------------
\* Types of the resolver's progress and of what it grants.
CapabilityTypeOK ==
  /\ step \in {"none", "static", "print", "command", "start", "attestation", "decide"}
  /\ attempt \in 0 .. Attempts /\ left \subseteq Labels /\ DOMAIN jobs \subseteq Labels
  /\ DOMAIN jobs \cap left = {}
  /\ installed \in [Roots -> Releases \cup {Absent}]
  /\ granted # Absent => /\ DOMAIN granted.capability.jobs = Labels
                         /\ granted.capability.static[Train] \in Reviewed \cup {Absent}

\* What a capability grants was attested by reviewed code, the same that it records
\* for the job's tree, and by no process older than the one that launchd reported, as far
\* as the receipt tells two processes apart: exactly, or by the second of the start.
NoStaleReceipt ==
  granted # Absent =>
    \A l \in Labels : LET entry == granted.capability.jobs[l] IN
      entry.kind = "daemon" =>
        /\ entry.receipt.label = l
        /\ entry.receipt.code = granted.capability.static[RootOf[l]]
        /\ entry.receipt.code \in Reviewed
        /\ entry.receipt.mark >= Shown(since[l], entry.receipt.native)

\* A diagnostic that says current saw every running creator of the expected capability
\* still running: none was started since its proof, under whatever pid, if its receipt is
\* native; if it is not, none was started in a later second.
NoRestartUnseen ==
  verdict = "current" =>
    \A l \in Labels : expected.jobs[l].kind = "daemon" =>
      LET native == expected.jobs[l].receipt.native IN
        Shown(since[l], native) <= Shown(until[l], native)

\* A capability granted after a wait, with the consumer running, is that of the process
\* whose start the wait recorded, or of one that was started within the same second
\* (coordinator.py:1167, 1200-1201).
WaitCrossesNoRestart ==
  granted # Absent /\ granted.waited /\ granted.capability.jobs[Consumer].kind = "daemon" =>
    started[since[Consumer]] <= started[met]
============================================================================
