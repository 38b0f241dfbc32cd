--------------------------- MODULE CaseLifecycle ---------------------------
(***************************************************************************)
(* The pure vocabulary of a case: the states of the CaseLifecycle enum,    *)
(* the closed transition law, the ledger event each state is announced     *)
(* with, and the lifecycle that each ledger event replays to.              *)
(***************************************************************************)

Lifecycle == {"INTAKE", "ROUTED", "ACCEPTED", "EXECUTING", "VERIFIED",
              "FLAGGED", "HUMAN_REVIEW", "COMPLETED", "REJECTED",
              "CANCELLED", "ARCHIVED"}

\* CASE_LIFECYCLE_TRANSITIONS: what is not declared here does not exist.
Transitions ==
  { <<"INTAKE", "ROUTED">>,
    <<"ROUTED", "ACCEPTED">>,
    <<"ACCEPTED", "EXECUTING">>,
    <<"EXECUTING", "VERIFIED">>,
    <<"EXECUTING", "FLAGGED">>,
    <<"VERIFIED", "COMPLETED">>,
    <<"FLAGGED", "HUMAN_REVIEW">>,
    <<"HUMAN_REVIEW", "REJECTED">>,
    <<"HUMAN_REVIEW", "VERIFIED">> }

\* transitionCaseLifecycle(): the target is returned or an error is thrown.
CanMove(from, to) == <<from, to>> \in Transitions

\* Variant, for the sensitivity runs: one generic event for every state.
LedgerEventGeneric == [s \in Lifecycle |-> "CASE_UPDATED"]

\* CASE_LIFECYCLE_LEDGER_EVENTS: the event a transition into each state logs.
LedgerEvent ==
  [ INTAKE       |-> "CASE_CREATED",
    ROUTED       |-> "ROUTED",
    ACCEPTED     |-> "CASE_ACCEPTED",
    EXECUTING    |-> "EXECUTION_STARTED",
    VERIFIED     |-> "VERIFIED",
    FLAGGED      |-> "CASE_FLAGGED",
    HUMAN_REVIEW |-> "CASE_ESCALATED",
    COMPLETED    |-> "EXECUTION_COMPLETED",
    REJECTED     |-> "CASE_REJECTED",
    ARCHIVED     |-> "CASE_ARCHIVED",
    CANCELLED    |-> "CASE_CANCELLED" ]

\* The arms of the switch in deriveLifecycleFromLedger() that assign; every
\* other event, LIFECYCLE_REPAIRED included, leaves the lifecycle alone.
ReplayEffect ==
  [ CASE_CREATED                |-> "INTAKE",
    ROUTED                      |-> "ROUTED",
    CASE_ACCEPTED               |-> "ACCEPTED",
    EXECUTION_STARTED           |-> "EXECUTING",
    EXECUTION_PROGRESS_RECORDED |-> "EXECUTING",
    EXECUTION_COMPLETED         |-> "EXECUTING",
    EXECUTION_ABORTED           |-> "FLAGGED",
    VERIFIED                    |-> "VERIFIED",
    CASE_FLAGGED                |-> "FLAGGED" ]

=============================================================================
