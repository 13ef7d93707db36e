-------------------------- MODULE PresenceEvidence --------------------------
(***************************************************************************)
(* What becomes of the answers about one branch's contributions: presence  *)
(* reconciliation (presence.py), the outcome ledger and its human review   *)
(* (outcomes.py), and the preservation plan (preservation.py).  Every      *)
(* stage reads files that earlier commands wrote, of any age; only their   *)
(* pins and signatures tell which belong together.                         *)
(***************************************************************************)
EXTENDS Integers, FiniteSets

CONSTANTS
  Units,        \* contribution units of the branch
  Bound,        \* [requests -> SUBSET Units], contribution_bindings
  Judgements,   \* the answers a request may get about a unit
  Origins,      \* importers and executor
  Standing,     \* [pins -> what the contribution artifact says of the branch]
  Dispositions, \* what a reviewer may decide
  MaxAnswers,   \* bound on answer artifacts
  MaxBuilds,    \* bound on outcome ledgers
  NoFile

Collections == DOMAIN Standing
Requests == DOMAIN Bound

ASSUME EvidenceAssumption ==
  /\ Collections = 0 .. Cardinality(Collections) - 1
  /\ \A i \in Collections : Standing[i] \in {"excluded", "unavailable", "exact", "distinct"}
  /\ \A r \in Requests : Bound[r] # {} /\ Bound[r] \subseteq Units
  /\ Origins \subseteq {"jev", "synthetic", "control"}
  /\ Dispositions \subseteq {"RETAIN", "INTEGRATE", "ARCHIVE_PROPOSED", "UNRESOLVED"}
  /\ MaxAnswers \in Nat /\ MaxBuilds \in Nat
  /\ Judgements \subseteq
       [suff : {"yes", "no", "unsure"}, presence : {"PRESENT", "PARTIAL", "ABSENT", "UNKNOWN"},
        delta : {"yes", "no", "unsure"}, edge : {"yes", "no", "unsure"},
        comparison : BOOLEAN, context : {"complete", "incomplete", "unknown"},
        contextSuff : {"yes", "no", "unsure"}]

VARIABLES
  pins,       \* the inventory, coverage, snapshot and contributions on disk
  answered,   \* newest answer artifact
  answers,    \* answer artifacts so far
  presence,   \* newest branch-presence-result
  outcomes,   \* newest object-outcomes
  builds,     \* ledgers so far
  review,     \* newest outcome-review
  approval,   \* newest approval receipt
  actions,    \* newest preservation plan
  endorsed    \* history: what reviewers had before them when they approved INTEGRATE

evidenceVars ==
  <<pins, answered, answers, presence, outcomes, builds, review, approval, actions,
    endorsed>>

\* A new inventory and everything collected from it.
Recollect ==
  /\ pins + 1 \in Collections
  /\ pins' = pins + 1
  /\ UNCHANGED <<answered, answers, presence, outcomes, builds, review, approval, actions, endorsed>>

----------------------------------------------------------------------------
(* Answers.  The executor signs what it got, which may be part of the      *)
(* requests; an importer takes all or nothing and assigns the origin.      *)

AnswerRequests(origin) ==
  /\ answers < MaxAnswers /\ answers' = answers + 1
  /\ \E R \in IF origin = "jev" THEN SUBSET Requests ELSE {Requests} :
       \E given \in [R -> [Units -> Judgements]] :
         answered' = [origin |-> origin, pins |-> pins,
                      given |-> [r \in R |-> [u \in Bound[r] |-> given[r][u]]]]
  /\ UNCHANGED <<pins, presence, outcomes, builds, review, approval, actions, endorsed>>

Observations(artifact, u) ==
  {artifact.given[r][u] : r \in {x \in DOMAIN artifact.given : u \in Bound[x]}}

Values(seen, field) == {j[field] : j \in seen}

Sole(values, otherwise) ==
  IF Cardinality(values) = 1 THEN CHOOSE v \in values : TRUE ELSE otherwise

Disagree(seen, field, open) == Cardinality(Values(seen, field) \ {open}) > 1

Bug_IgnoreEdges(seen) ==
  \/ Disagree(seen, "presence", "UNKNOWN")
  \/ \E f \in {"delta", "suff"} : Disagree(seen, f, "unsure")

\* overlapping_answers_contradict and dependency_answers_contradict.
Contradiction(seen) ==
  \/ Disagree(seen, "presence", "UNKNOWN")
  \/ \E f \in {"delta", "suff", "edge"} : Disagree(seen, f, "unsure")

Context(seen) ==
  IF Values(seen, "context") = {"complete"} THEN "complete"
  ELSE IF "incomplete" \in Values(seen, "context") THEN "incomplete" ELSE "unknown"

\* Mutant: an unresolved row is routed as well.
Bug_RouteAll(origin, verdict) == origin = "jev"

Routeable(origin, verdict) == origin = "jev" /\ verdict # "UNRESOLVED"

Verdict(row, contradiction) ==
  CASE \/ contradiction \/ ~row.sufficient \/ ~row.comparison
       \/ row.context # "complete" \/ row.contextSuff # "yes"
       \/ row.presence = "UNKNOWN" \/ row.delta = "unsure"       -> "UNRESOLVED"
    [] OTHER ->
       IF row.delta = "yes" /\ row.presence \in {"PARTIAL", "ABSENT"}
       THEN "USABLE_WORK_REMAINS"
       ELSE IF row.delta = "no" /\ row.presence = "PRESENT" THEN "LIKELY_PRESERVED"
       ELSE "UNRESOLVED"

\* One row per unit; a delta counts only in a complete and sufficient context.
Row(artifact, u) ==
  LET seen    == Observations(artifact, u)
      context == Context(seen)
      suff    == Sole(Values(seen, "contextSuff"), "unsure")
      row == [sufficient  |-> Values(seen, "suff") = {"yes"},
              presence    |-> Sole(Values(seen, "presence"), "UNKNOWN"),
              delta       |-> IF context = "complete" /\ suff = "yes"
                              THEN Sole(Values(seen, "delta"), "unsure") ELSE "unsure",
              comparison  |-> Values(seen, "comparison") = {TRUE},
              context     |-> context,
              contextSuff |-> suff]
      verdict == Verdict(row, Contradiction(seen))
  IN [row |-> row, verdict |-> verdict, routed |-> Routeable(artifact.origin, verdict)]

\* reconcile_presence refuses answers to other pins; only the executor's are trusted.
ReconcilePresence ==
  /\ answered # NoFile /\ answered.pins = pins
  /\ presence' = [origin |-> answered.origin, pins |-> pins, from |-> answered,
                  units |-> [u \in Units |-> Row(answered, u)]]
  /\ presence' # presence
  /\ UNCHANGED <<pins, answered, answers, outcomes, builds, review, approval, actions, endorsed>>

\* A row that is routed must carry the answers that justify it.
Justified(r) ==
  /\ r.verdict # "UNRESOLVED" /\ r.row.sufficient /\ r.row.comparison
  /\ r.row.context = "complete" /\ r.row.contextSuff = "yes"
  /\ r.verdict = "LIKELY_PRESERVED" => r.row.presence = "PRESENT" /\ r.row.delta = "no"
  /\ r.verdict = "USABLE_WORK_REMAINS" =>
       r.row.presence \in {"PARTIAL", "ABSENT"} /\ r.row.delta = "yes"

\* validate_presence_observations.
ValidPresence(p) ==
  \A u \in DOMAIN p.units : p.units[u].routed => p.origin = "jev" /\ Justified(p.units[u])

----------------------------------------------------------------------------
(* build_outcomes. *)

Unanswered == [row |-> NoFile, verdict |-> "UNRESOLVED", routed |-> FALSE]

Reviews(p) == [u \in Units |-> IF p = NoFile THEN Unanswered ELSE p.units[u]]

Judged(p, verdict) == {u \in Units : Reviews(p)[u].routed /\ Reviews(p)[u].verdict = verdict}

Disposition(p) ==
  CASE Standing[pins] = "excluded"    -> "EXCLUDED"
    [] Standing[pins] = "unavailable" -> "UNRESOLVED"
    [] Standing[pins] = "exact"       -> "EXACT_REVIEW"
    [] OTHER -> IF Judged(p, "USABLE_WORK_REMAINS") # {} THEN "USABLE_WORK_REMAINS"
                ELSE IF Judged(p, "LIKELY_PRESERVED") # {} THEN "LIKELY_PRESERVED"
                ELSE "UNRESOLVED"

Tasks(p) == IF Disposition(p) = "USABLE_WORK_REMAINS"
            THEN Judged(p, "USABLE_WORK_REMAINS") ELSE {}

\* Digests are the documents themselves.
Provenance(p) == [pins |-> pins, presence |-> p]

\* All pins, and with them the fingerprints of the object and of its evidence.
SameEvidence(decision, provenance) == decision.provenance = provenance

ReviewStatus(decision, provenance) ==
  CASE decision = NoFile -> "unreviewed"
    [] decision # NoFile /\ decision.version = 1 -> "historical-limited"
    [] OTHER -> IF SameEvidence(decision, provenance) THEN "current" ELSE "stale"

\* Mutant: a receipt for any review will do.
Bug_AnyReview(receipt, decision) == receipt # NoFile

\* _review_approval_matches: the receipt binds the exact review document.
Approves(receipt, decision) == decision # NoFile /\ receipt = decision

\* A receipt that does not match is an error.
ApprovalStatus(decision, receipt) ==
  IF receipt # NoFile THEN "verified"
  ELSE IF decision # NoFile /\ decision.version = 2 THEN "unverified" ELSE "none"

BuildOutcomes(p, decision, receipt) ==
  /\ p # NoFile => p.pins = pins /\ ValidPresence(p)
  /\ receipt # NoFile => Approves(receipt, decision)
  /\ LET provenance == Provenance(p) IN
     outcomes' = [provenance |-> provenance, reviews |-> Reviews(p),
                  disposition |-> Disposition(p), tasks |-> Tasks(p),
                  decision |-> decision,
                  status |-> ReviewStatus(decision, provenance),
                  approved |-> ApprovalStatus(decision, receipt)]
  /\ builds < MaxBuilds /\ builds' = builds + 1
  /\ UNCHANGED <<pins, answered, answers, presence, review, approval, actions, endorsed>>

\* The reviewer decides on what the viewer shows, and exports the decision.
ExportReview(disposition, destination) ==
  /\ outcomes # NoFile
  /\ review' = [version |-> 2, provenance |-> outcomes.provenance,
                disposition |-> disposition, destination |-> destination]
  /\ UNCHANGED <<pins, answered, answers, presence, outcomes, builds, approval, actions, endorsed>>

\* A review of schema 1, with a snapshot pin only.
LegacyReview ==
  /\ review = NoFile
  /\ review' = [version |-> 1, provenance |-> NoFile, disposition |-> "INTEGRATE",
                destination |-> "main"]
  /\ UNCHANGED <<pins, answered, answers, presence, outcomes, builds, approval, actions, endorsed>>

\* approve_outcome_review: the digest of exactly this document, typed by the operator.
ApproveOutcomeReview ==
  /\ review # NoFile /\ review.version = 2 /\ approval # review
  /\ approval' = review
  /\ endorsed' = IF review.disposition = "INTEGRATE" /\ review.destination = "main"
                 THEN endorsed \cup {review.provenance} ELSE endorsed
  /\ UNCHANGED <<pins, answered, answers, presence, outcomes, builds, review, actions>>

----------------------------------------------------------------------------
(* build_preservation_plan. *)

\* _validated_outcomes: routed rows and tasks must carry their justification.
ValidOutcomes(o) ==
  LET origin == IF o.provenance.presence = NoFile THEN "none" ELSE o.provenance.presence.origin
  IN /\ \A u \in Units : o.reviews[u].routed => origin = "jev" /\ Justified(o.reviews[u])
     /\ \A u \in o.tasks : /\ o.reviews[u].routed
                           /\ o.reviews[u].verdict = "USABLE_WORK_REMAINS"
     /\ o.status = "current" => o.decision # NoFile /\ o.decision.provenance = o.provenance
     /\ o.approved = "verified" => o.decision # NoFile

Selected(o) == o.status = "current" /\ o.decision.disposition = "INTEGRATE"

ActionState(o) ==
  CASE Selected(o) /\ o.decision.destination = "main" /\ o.approved = "verified" -> "READY"
    [] Selected(o) /\ o.approved # "verified" -> "AWAITING"
    [] OTHER -> "BLOCKED"

BuildPreservationPlan ==
  /\ outcomes # NoFile /\ outcomes.provenance.pins = pins /\ ValidOutcomes(outcomes)
  /\ actions' = [outcomes |-> outcomes,
                 state |-> [u \in outcomes.tasks |-> ActionState(outcomes)]]
  /\ UNCHANGED <<pins, answered, answers, presence, outcomes, builds, review, approval, endorsed>>

----------------------------------------------------------------------------
EvidenceInit ==
  /\ pins = 0 /\ answers = 0 /\ builds = 0
  /\ answered = NoFile /\ presence = NoFile /\ outcomes = NoFile
  /\ review = NoFile /\ approval = NoFile /\ actions = NoFile
  /\ endorsed = {}

\* Bound: a behaviour ends with its plan.
EvidenceNext ==
  /\ actions = NoFile
  /\ \/ Recollect \/ ReconcilePresence \/ LegacyReview \/ ApproveOutcomeReview
     \/ BuildPreservationPlan
     \/ \E origin \in Origins : AnswerRequests(origin)
     \/ \E p \in {NoFile, presence}, d \in {NoFile, review}, a \in {NoFile, approval} :
           BuildOutcomes(p, d, a)
     \/ \E d \in Dispositions :
           \E destination \in IF d = "INTEGRATE" THEN {"main", "elsewhere"} ELSE {NoFile} :
             ExportReview(d, destination)

----------------------------------------------------------------------------
\* A row that decides is backed by observations that agree with one another, about
\* presence, delta, sufficiency and every dependency edge (reconcile_presence).
DecidedIsUnanimous ==
  presence # NoFile =>
    \A u \in Units : presence.units[u].verdict # "UNRESOLVED" =>
      LET seen == Observations(presence.from, u) IN
      /\ seen # {}
      /\ \A i, j \in seen : /\ i.presence = j.presence /\ i.delta = j.delta
                            /\ {i.edge, j.edge} # {"yes", "no"}
      /\ \A i \in seen : i.suff = "yes" /\ i.comparison /\ i.context = "complete"

\* What one stage writes the next one accepts, as long as the pins have not moved.
StagesAgree ==
  /\ presence # NoFile => ValidPresence(presence)
  /\ outcomes # NoFile => ValidOutcomes(outcomes)

\* Work is ready for implementation only if the executor's own answers call for it and
\* a person approved it with exactly this evidence, of these pins, in front of them.
ReadyIsEarned ==
  actions # NoFile =>
    \A u \in DOMAIN actions.state : actions.state[u] = "READY" =>
      LET evidence == actions.outcomes.provenance IN
      /\ evidence \in endorsed
      /\ evidence.presence # NoFile /\ evidence.presence.origin = "jev"
      /\ \A j \in Observations(evidence.presence.from, u) :
           j.suff = "yes" /\ j.delta = "yes" /\ j.presence \in {"PARTIAL", "ABSENT"}
      /\ Observations(evidence.presence.from, u) # {}
=============================================================================
