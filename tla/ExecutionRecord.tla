-------------------------- MODULE ExecutionRecord --------------------------
(***************************************************************************)
(* What the execution services promise of one case: its execution, its     *)
(* milestones and the ledger change together, in one step per call, and    *)
(* completion comes after evidence and under an open verification round.   *)
(* Nothing is said of transactions, locks or refused commits; Execution    *)
(* has those and implements this.                                          *)
(***************************************************************************)
EXTENDS Integers

CONSTANT Milestone    \* the milestones startExecution seeds

VARIABLES
  status,    \* Execution.status, "none" while the case has no execution
  done,      \* the milestones with a completedAt
  logged,    \* how often the ledger has each fact
  evidence,  \* a timeline entry of the case has evidence
  rounds     \* open verification rounds

vars == <<status, done, logged, evidence, rounds>>

\* The facts the services append.
Fact == {"STARTED", "PROGRESS", "COMPLETED", "REQUESTED"} \cup Milestone

\* Counts stop at 2: beyond it a fact is as duplicated as at it.
Count == 0..2

Counted(n) == IF n = 2 THEN 2 ELSE n + 1

\* The ledger with these facts appended.
With(facts) == [f \in Fact |-> IF f \in facts THEN Counted(logged[f]) ELSE logged[f]]

\* A case begins without execution; one that intake made has a round.
Init ==
  /\ status = "none"
  /\ done = {}
  /\ logged = [f \in Fact |-> 0]
  /\ evidence = FALSE
  /\ rounds \in {0, 1}

\* startExecution(): the execution, its milestones and EXECUTION_STARTED.
Start ==
  /\ status = "none"
  /\ status' = "IN_PROGRESS"
  /\ logged' = With({"STARTED"})
  /\ UNCHANGED <<done, evidence, rounds>>

\* A delivery: an execution in CREATED if there is none.
Deliver ==
  /\ status' = IF status = "none" THEN "CREATED" ELSE status
  /\ logged' = With({"PROGRESS"})
  /\ UNCHANGED <<done, evidence, rounds>>

\* A milestone of a started execution is done, and the ledger says so.
CompleteMilestone(m) ==
  /\ logged["STARTED"] = 1
  /\ done' = done \cup {m}
  /\ logged' = With({m})
  /\ UNCHANGED <<status, evidence, rounds>>

\* The execution is completed, once there is evidence and a round is open.
Complete ==
  /\ status # "none"
  /\ evidence
  /\ rounds > 0
  /\ status' = "COMPLETED"
  /\ logged' = With({"COMPLETED"})
  /\ UNCHANGED <<done, evidence, rounds>>

AddEvidence ==
  /\ evidence' = TRUE
  /\ UNCHANGED <<status, done, logged, rounds>>

\* A verification round is opened on request.
OpenRound ==
  /\ rounds' = Counted(rounds)
  /\ logged' = With({"REQUESTED"})
  /\ UNCHANGED <<status, done, evidence>>

Next ==
  \/ Start
  \/ Deliver
  \/ \E m \in Milestone : CompleteMilestone(m)
  \/ Complete
  \/ AddEvidence
  \/ OpenRound

Spec == Init /\ [][Next]_vars
=============================================================================
