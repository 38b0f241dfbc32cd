----------------------------- MODULE CaseViews -----------------------------
(***************************************************************************)
(* The pure computations of the backend: routing, the consensus of votes   *)
(* and its forecast, progress, what a case offers, what the policies       *)
(* advise and what a role may read.  The one variable is the input they    *)
(* are evaluated on; it is chosen at the start and stays.                  *)
(***************************************************************************)
EXTENDS CaseLifecycle, Integers, Sequences, FiniteSets, FiniteSetsExt, SequencesExt

CONSTANTS
  ExecutionBody,  \* ids of execution bodies, in the order of localeCompare
  Nobody,         \* no execution body
  MaxVotes,       \* votes of each kind, and verifiers required
  ViewerRole      \* keys of roles a user may hold

ASSUME ViewsAssumption ==
  /\ ExecutionBody \subseteq Nat /\ IsFiniteSet(ExecutionBody)
  /\ Nobody \notin ExecutionBody
  /\ MaxVotes \in Nat \ {0}

VARIABLE probe

-----------------------------------------------------------------------------
(* Routing. *)

LeastId(S) == CHOOSE b \in S : \A c \in S : b <= c

\* Variant: the candidates are searched in the order of the SELECT.
FirstCapableAsListed(bodies, capable) ==
  LET found == SelectSeq(bodies, LAMBDA b : b \in capable) IN IF found = <<>> THEN Nobody ELSE Head(found)

\* sorted.find(supportsIntent): the least id among the capable candidates.
FirstCapable(bodies, capable) ==
  LET found == { b \in ToSet(bodies) : b \in capable } IN IF found = {} THEN Nobody ELSE LeastId(found)

\* computeRouting(): the originator if it is capable, else the first capable candidate, else the
\* fallback; ERROR stands for ROUTING_UNASSIGNABLE_NO_FALLBACK.
computeRouting(bodies, capable, origin, fallback) ==
  LET matched == FirstCapable(bodies, capable)
  IN  IF origin \in ToSet(bodies) \cap capable THEN <<"MATCHED", origin>>
      ELSE IF matched # Nobody THEN <<"MATCHED", matched>>
      ELSE IF fallback # Nobody THEN <<"FALLBACK", fallback>> ELSE <<"ERROR", Nobody>>

-----------------------------------------------------------------------------
(* Verification. *)

\* evaluateVerificationConsensus()
Consensus(required, approvals, rejections) ==
  IF approvals >= required THEN "APPROVED"
  ELSE IF rejections >= required THEN "REJECTED"
  ELSE IF approvals > 0 /\ rejections > 0 THEN "DISPUTED"
  ELSE IF approvals + rejections > 0 THEN "IN_REVIEW" ELSE "PENDING"

\* deriveVerificationStatus(): what is not decided is PENDING.
VerificationStatus(phase) == IF phase \in {"APPROVED", "REJECTED"} THEN phase ELSE "PENDING"

\* The quorum and the counterfactuals of explainVerificationState().
VerificationForecast(required, approvals, rejections) ==
  [remainingApprovalsNeeded |-> Max({0, required - approvals}),
   remainingRejectionsNeeded |-> Max({0, required - rejections}),
   ifNextVoteApproved |-> approvals + 1 >= required,
   ifNextVoteRejected |-> rejections + 1 >= required]

-----------------------------------------------------------------------------
(* Progress and capabilities. *)

\* The milestones that startExecution() seeds, with their weights.
Weight == [initial |-> 2, followUp |-> 1, impact |-> 2]

WeightOf(M) == MapThenSumSet(LAMBDA m : Weight[m], M)

\* Math.round(100 * part / whole)
PercentOf(part, whole) == IF whole = 0 THEN 0 ELSE (200 * part + whole) \div (2 * whole)

\* getProgress(): the status shown, derived from the weights.
DerivedStatus(done) ==
  IF PercentOf(WeightOf(done), WeightOf(DOMAIN Weight)) = 100 THEN "COMPLETED" ELSE "IN_PROGRESS"

\* deriveCaseCapabilities(): the state of each of the three actions, ACTIVE when it is offered.
CaseCapabilities(lifecycle, execution, consensus) ==
  [record |-> IF lifecycle = "EXECUTING" THEN "ACTIVE" ELSE "LOCKED",
   verify |-> IF lifecycle # "EXECUTING" \/ execution # "COMPLETED" THEN "LOCKED"
              ELSE IF consensus THEN "COMPLETED" ELSE "ACTIVE",
   delivery |-> IF lifecycle = "VERIFIED" THEN "ACTIVE" ELSE "LOCKED"]

\* The guards of recordVerification() that do not depend on who votes.
VoteIsAccepted(execution, consensus) == execution = "COMPLETED" /\ ~consensus

\* deriveCaseStatus()
CaseStatusOf(lifecycle) ==
  CASE lifecycle = "INTAKE" -> "INTAKED" [] lifecycle = "HUMAN_REVIEW" -> "IN_REVIEW" [] OTHER -> lifecycle

-----------------------------------------------------------------------------
(* Policies. *)

TaskId == {"START", "ENROLL", "ATTEND", "MODULE_1", "MODULE_2", "REVIEW", "COMPLETE"}

\* TRANSITIONS of TaskProgressionService, without the names of the events.
TaskTransitions ==
  {<<"START", "ENROLL">>, <<"ENROLL", "ATTEND">>, <<"ATTEND", "MODULE_1">>, <<"MODULE_1", "MODULE_2">>}

\* autoTaskAdvance(): the task to advance to, or NO_ACTION.
autoTaskAdvance(lifecycle, task, hasRoutingDecision, hasDeliveryRecorded) ==
  CASE lifecycle = "ROUTED" /\ task = "START" /\ hasRoutingDecision -> "ENROLL"
    [] lifecycle = "ROUTED" /\ task = "ENROLL" /\ hasDeliveryRecorded -> "ATTEND"
    [] OTHER -> "NO_ACTION"

\* autoRouteBasic(): whether it proposes a decision.
autoRouteBasic(lifecycle, hasRoutingDecision, bodiesAvailable) ==
  lifecycle = "INTAKE" /\ ~hasRoutingDecision /\ bodiesAvailable = 1

\* PolicySimulationService.simulate(): the policy on the case's task and hypothetical facts.
Simulated(lifecycle, task, routingOutcome, deliveryRecorded) ==
  autoTaskAdvance(lifecycle, task, routingOutcome = "MATCHED", deliveryRecorded)

-----------------------------------------------------------------------------
(* What a reader may see. *)

\* resolveExplainabilityRole(): the strongest of the roles counts.
resolveExplainabilityRole(roles) ==
  IF roles \cap {"ADMIN", "STAFF"} # {} THEN "INTERNAL"
  ELSE IF roles \cap {"REGULATOR", "AUDITOR"} # {} THEN "AUDITOR"
  ELSE IF roles \cap {"DONOR", "NGO_PARTNER", "IMPLEMENTER"} # {} THEN "PARTNER" ELSE "PUBLIC"

\* EXPLAINABILITY_POLICY: what a role sees of decisions, ledger and routing.
EXPLAINABILITY_POLICY ==
  LET partner == {<<"decision", "reason">>}
      auditor == partner \cup {<<"decision", "intentContext">>, <<"routing", "counterfactual">>}
                 \cup {"ledger"} \X {"intentContext", "payload", "authorityProof", "signature"}
      internal == auditor \cup {<<"decision", "actorUserId">>, <<"ledger", "actorUserId">>,
                                <<"routing", "decidedByUserId">>}
  IN  [INTERNAL |-> internal, AUDITOR |-> auditor, PARTNER |-> partner, PUBLIC |-> partner]

\* redactDisbursementExplanation(): the parts that are left of an explanation.
DisbursementParts(role) ==
  {"summary", "amount", "timeline", "explainability"}
    \cup (IF role \in {"INTERNAL", "AUDITOR"} THEN {"payee", "authority", "failure"} ELSE {})

\* redactDecision(), redactLedgerCommit(), redactRoutingDecision(), redactCounterfactual() and the
\* disbursement: the fields that are not always there and that this role is given.
Visible(role) == EXPLAINABILITY_POLICY[role] \cup ({"disbursement"} \X DisbursementParts(role))

-----------------------------------------------------------------------------
Probe ==
  { p \in [kind: {"routing"}, bodies: SUBSET ExecutionBody, capable: SUBSET ExecutionBody,
           origin: ExecutionBody \cup {Nobody}, fallback: ExecutionBody \cup {Nobody}] :
      p.fallback \in p.bodies \cup {Nobody} }
  \cup [kind: {"votes"}, required: 1..MaxVotes, approvals: 0..MaxVotes, rejections: 0..MaxVotes]
  \cup [kind: {"progress"}, done: SUBSET DOMAIN Weight]
  \cup [kind: {"case"}, lifecycle: Lifecycle, execution: {"NONE", "IN_PROGRESS", "COMPLETED"},
        consensus: BOOLEAN, task: TaskId, routed: BOOLEAN, delivered: BOOLEAN]
  \cup [kind: {"reader"}, roles: SUBSET ViewerRole, more: SUBSET ViewerRole]

ViewsInit == probe \in Probe

\* Nothing is written: a view is computed and answered.
ViewsNext == UNCHANGED probe

ViewsSpec == ViewsInit /\ [][ViewsNext]_probe
-----------------------------------------------------------------------------
ViewsTypeOK == probe \in Probe

\* Routing depends on the set of candidates, not on the order in which the SELECT lists them, and a
\* case goes to a body that can serve it whenever there is one.
RoutingIgnoresOrder ==
  probe.kind = "routing" =>
    LET results == { computeRouting(listed, probe.capable, probe.origin, probe.fallback)
                       : listed \in SetToSeqs(probe.bodies) }
    IN  /\ Cardinality(results) = 1
        /\ \A r \in results : probe.bodies \cap probe.capable # {} =>
             r[1] = "MATCHED" /\ r[2] \in probe.bodies \cap probe.capable

\* While no quorum is reached, the forecast of the next vote is what that vote would bring.
ForecastIsRight ==
  probe.kind = "votes" =>
    LET phase == Consensus(probe.required, probe.approvals, probe.rejections)
        forecast == VerificationForecast(probe.required, probe.approvals, probe.rejections)
    IN  VerificationStatus(phase) = "PENDING" =>
          /\ forecast.ifNextVoteApproved
               <=> Consensus(probe.required, probe.approvals + 1, probe.rejections) = "APPROVED"
          /\ forecast.ifNextVoteRejected
               <=> Consensus(probe.required, probe.approvals, probe.rejections + 1) = "REJECTED"
          /\ forecast.remainingApprovalsNeeded > 0 /\ forecast.remainingRejectionsNeeded > 0

\* The rounded percentage says COMPLETED when the last milestone is done, and not before.
ProgressIsCompletion ==
  probe.kind = "progress" => (DerivedStatus(probe.done) = "COMPLETED" <=> probe.done = DOMAIN Weight)

\* A vote that a case offers would be accepted by the service, and two lifecycles never show the
\* same status.
OffersAreAccepted ==
  probe.kind = "case" =>
    /\ CaseCapabilities(probe.lifecycle, probe.execution, probe.consensus).verify = "ACTIVE"
         => VoteIsAccepted(probe.execution, probe.consensus)
    /\ \A s \in Lifecycle : CaseStatusOf(s) = CaseStatusOf(probe.lifecycle) => s = probe.lifecycle

\* What the task policy advises is a step of the task table, the simulation on the facts that hold
\* tells it, and the two policies never act on one case.
AdviceFollowsTable ==
  probe.kind = "case" =>
    LET advice == autoTaskAdvance(probe.lifecycle, probe.task, probe.routed, probe.delivered)
        outcome == IF probe.routed THEN "MATCHED" ELSE "UNASSIGNED"
    IN  /\ advice = Simulated(probe.lifecycle, probe.task, outcome, probe.delivered)
        /\ advice # "NO_ACTION" =>
             /\ <<probe.task, advice>> \in TaskTransitions
             /\ ~autoRouteBasic(probe.lifecycle, probe.routed, 1)

\* A reader who is given another role never sees less for it.
MoreRolesSeeNoLess ==
  probe.kind = "reader" =>
    Visible(resolveExplainabilityRole(probe.roles))
      \subseteq Visible(resolveExplainabilityRole(probe.roles \cup probe.more))

(***************************************************************************)
(* The computations that answer for a service agree with it and with one   *)
(* another on every input.                                                 *)
(***************************************************************************)
ViewsAgree ==
  /\ RoutingIgnoresOrder
  /\ ForecastIsRight
  /\ ProgressIsCompletion
  /\ OffersAreAccepted
  /\ AdviceFollowsTable
  /\ MoreRolesSeeNoLess
=============================================================================
