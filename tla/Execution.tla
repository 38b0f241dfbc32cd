----------------------------- MODULE Execution -----------------------------
(***************************************************************************)
(* The execution of one case, as concurrent transactions run it:           *)
(* startExecution, CompleteMilestoneService.complete, completeExecution    *)
(* with initializeVerification, the delivery handler and                   *)
(* ensureVerificationRound.  Each action is one statement that reads or    *)
(* locks what other transactions share, with the private work after it; a  *)
(* statement sees what is committed by then and what its own transaction   *)
(* wrote, and a write waits for the transaction that holds the row.        *)
(*                                                                         *)
(* Every append goes through commitLedgerEvent, and Accepts says which     *)
(* appends it lets through: a refused one throws, and the transaction is   *)
(* rolled back with all it wrote.                                          *)
(***************************************************************************)
EXTENDS ExecutionRecord

CONSTANTS
  Worker,    \* transactions that may be open at once
  None       \* no milestone, no row

ASSUME NoneAssumption == None \notin Milestone \cup {"CREATED", "IN_PROGRESS", "COMPLETED"}
ASSUME FactAssumption ==
  Milestone \cap {"STARTED", "PROGRESS", "COMPLETED", "REQUESTED"} = {}

VARIABLE tx    \* what each open transaction is about to do

exvars == <<status, done, logged, evidence, rounds, tx>>

Status == {"CREATED", "IN_PROGRESS", "COMPLETED"}

Call == {"start", "milestone", "complete", "deliver", "round"}

(***************************************************************************)
(* row is the version of the Execution row the transaction has written,    *)
(* and so its lock on it; mile the milestone it has updated; log what it   *)
(* has appended; opened whether it has created a round.  intent says       *)
(* whether the caller's data pass the ledger's schema.                     *)
(***************************************************************************)
Transaction == [pc: {"idle", "read", "check", "write", "settle", "commit"},
                call: Call, intent: BOOLEAN, target: Milestone \cup {None},
                row: Status \cup {None}, mile: Milestone \cup {None},
                log: SUBSET Fact, opened: BOOLEAN]

Idle == [pc |-> "idle", call |-> "start", intent |-> FALSE, target |-> None,
         row |-> None, mile |-> None, log |-> {}, opened |-> FALSE]

ExecutionInit == Init /\ tx = [w \in Worker |-> Idle]

-----------------------------------------------------------------------------
\* Variant: a ledger that takes any JSON, and any number of entries a request.
AcceptsAnything(t, intent) == TRUE

(***************************************************************************)
(* What the ledger takes.  normalizeJson() makes null of an absent value   *)
(* and JsonValueSchema has no null, so an append without intentContext, or *)
(* with a null in its payload, throws; (tenantId, requestId) is unique, so *)
(* the second append of a request fails too.                               *)
(***************************************************************************)
Accepts(t, intent) == intent /\ t.log = {}

\* Another transaction holds the Execution row, or is inserting it.
RowLocked(w) == \E v \in Worker \ {w} : tx[v].row # None

MilestoneLocked(w, m) == \E v \in Worker \ {w} : tx[v].mile = m

\* milestones exist only where startExecution created the execution.
Seeded == logged["STARTED"] > 0

At(w, call, pc) == tx[w].call = call /\ tx[w].pc = pc

Goto(w, pc) == tx' = [tx EXCEPT ![w].pc = pc]

\* Variant: an end that leaves the row locked.
EndKeepingRow(w) == tx' = [tx EXCEPT ![w] = [Idle EXCEPT !.row = tx[w].row]]

\* The transaction ends: its locks are free, what it did not commit is gone.
End(w) == tx' = [tx EXCEPT ![w] = Idle]

Stored == UNCHANGED <<status, done, logged, evidence, rounds>>

\* A call arrives.
Begin(w, call, intent, m) ==
  /\ tx[w].pc = "idle"
  /\ call = "milestone" => intent
  /\ m # None <=> call = "milestone"
  /\ tx' = [tx EXCEPT ![w] = [Idle EXCEPT !.pc = "read", !.call = call,
                                          !.intent = intent, !.target = m]]
  /\ Stored

-----------------------------------------------------------------------------
\* startExecution(): an execution that exists is returned as it is.
ReadStart(w) ==
  /\ At(w, "start", "read")
  /\ IF status # "none" THEN End(w) ELSE Goto(w, "write")
  /\ Stored

\* Variant: no unique index on Execution.caseId.
CreateExecutionAgain(w) ==
  /\ At(w, "start", "write")
  /\ IF ~Accepts(tx[w], tx[w].intent)
       THEN End(w)
       ELSE tx' = [tx EXCEPT ![w].pc = "commit", ![w].row = "IN_PROGRESS", ![w].log = {"STARTED"}]
  /\ Stored

(***************************************************************************)
(* execution.create(), the milestones and EXECUTION_STARTED.  caseId is    *)
(* unique: the INSERT fails if there is an execution by now, and waits for *)
(* a transaction that is making one.  The mounted route has no intent.     *)
(***************************************************************************)
CreateExecution(w) ==
  /\ At(w, "start", "write")
  /\ ~RowLocked(w)
  /\ IF status # "none" \/ ~Accepts(tx[w], tx[w].intent)
       THEN End(w)
       ELSE tx' = [tx EXCEPT ![w].pc = "commit", ![w].row = "IN_PROGRESS", ![w].log = {"STARTED"}]
  /\ Stored

-----------------------------------------------------------------------------
\* complete(): the milestone and the status of its execution, read once.
ReadMilestone(w) ==
  /\ At(w, "milestone", "read")
  /\ IF Seeded /\ tx[w].target \notin done /\ status = "IN_PROGRESS"
       THEN Goto(w, "write")
       ELSE End(w)
  /\ Stored

\* Variant: an append whose failure is not felt.
MarkMilestoneUnlogged(w) ==
  /\ At(w, "milestone", "write")
  /\ ~MilestoneLocked(w, tx[w].target)
  /\ tx' = [tx EXCEPT ![w].pc = "settle", ![w].mile = tx[w].target]
  /\ Stored

\* executionMilestone.update() by id alone, and its progress in the ledger.
MarkMilestone(w) ==
  /\ At(w, "milestone", "write")
  /\ ~MilestoneLocked(w, tx[w].target)
  /\ tx' = [tx EXCEPT ![w].pc = "settle", ![w].mile = tx[w].target, ![w].log = {tx[w].target}]
  /\ Stored

\* The weights are positive: they add up when every milestone is done.
AllDone(w) == Milestone \subseteq done \cup {tx[w].mile}

\* The milestones read again; if all are done, the execution is to be closed.
Recalculate(w) ==
  /\ At(w, "milestone", "settle")
  /\ Goto(w, IF AllDone(w) THEN "check" ELSE "commit")
  /\ Stored

\* Automatic completion: the update, and EXECUTION_COMPLETED with a null
\* intentContext.
AutoComplete(w) ==
  /\ At(w, "milestone", "check")
  /\ ~RowLocked(w)
  /\ IF Accepts(tx[w], FALSE)
       THEN tx' = [tx EXCEPT ![w].pc = "commit", ![w].row = "COMPLETED",
                             ![w].log = @ \cup {"COMPLETED"}]
       ELSE End(w)
  /\ Stored

-----------------------------------------------------------------------------
\* completeExecution(): a completed execution is returned; any other goes on.
ReadCompletion(w) ==
  /\ At(w, "complete", "read")
  /\ IF status \in {"none", "COMPLETED"} THEN End(w) ELSE Goto(w, "check")
  /\ Stored

\* assertExecutionEvidenceSatisfied().
CheckEvidence(w) ==
  /\ At(w, "complete", "check")
  /\ IF evidence THEN Goto(w, "write") ELSE End(w)
  /\ Stored

\* execution.update() by id alone, and EXECUTION_COMPLETED.
MarkCompleted(w) ==
  /\ At(w, "complete", "write")
  /\ ~RowLocked(w)
  /\ IF Accepts(tx[w], tx[w].intent)
       THEN tx' = [tx EXCEPT ![w].pc = "settle", ![w].row = "COMPLETED", ![w].log = {"COMPLETED"}]
       ELSE End(w)
  /\ Stored

\* Variant: completion that leaves verification to others.
LeaveVerification(w) ==
  /\ At(w, "complete", "settle")
  /\ Goto(w, "commit")
  /\ Stored

(***************************************************************************)
(* initializeVerification(): an open round is used; else the tenant's      *)
(* VERIFIER role is looked up, a round created and VERIFICATION_STARTED    *)
(* appended, without intentContext.                                        *)
(***************************************************************************)
InitializeVerification(w) ==
  /\ At(w, "complete", "settle")
  /\ \/ /\ rounds > 0
        /\ Goto(w, "commit")
     \/ /\ rounds = 0
        /\ IF Accepts(tx[w], FALSE)
             THEN tx' = [tx EXCEPT ![w].pc = "commit", ![w].opened = TRUE]
             ELSE End(w)
  /\ Stored

-----------------------------------------------------------------------------
\* Variant: the upsert writes the status of an execution that exists.
RecordDeliveryAfresh(w) ==
  /\ At(w, "deliver", "read")
  /\ ~RowLocked(w)
  /\ IF Accepts(tx[w], tx[w].intent)
       THEN tx' = [tx EXCEPT ![w].pc = "commit", ![w].log = {"PROGRESS"},
                             ![w].row = "CREATED"]
       ELSE End(w)
  /\ Stored

\* handleIntakeDelivery(): the upsert on caseId and the append.  A payload
\* without notes has a null.
RecordDelivery(w) ==
  /\ At(w, "deliver", "read")
  /\ ~RowLocked(w)
  /\ IF Accepts(tx[w], tx[w].intent)
       THEN tx' = [tx EXCEPT ![w].pc = "commit", ![w].log = {"PROGRESS"},
                             ![w].row = IF status = "none" THEN "CREATED" ELSE status]
       ELSE End(w)
  /\ Stored

-----------------------------------------------------------------------------
\* ensureVerificationRound(): the open round, if there is one.
FindRound(w) ==
  /\ At(w, "round", "read")
  /\ IF rounds > 0 THEN End(w) ELSE Goto(w, "write")
  /\ Stored

\* A new round and VERIFICATION_REQUESTED; a request without reason has a null
\* in its payload.
CreateRound(w) ==
  /\ At(w, "round", "write")
  /\ IF Accepts(tx[w], tx[w].intent)
       THEN tx' = [tx EXCEPT ![w].pc = "commit", ![w].opened = TRUE, ![w].log = {"REQUESTED"}]
       ELSE End(w)
  /\ Stored

-----------------------------------------------------------------------------
\* EvidenceService: evidence of a timeline entry; nothing deletes it.
EvidenceArrives ==
  /\ AddEvidence
  /\ UNCHANGED tx

\* Variant: a COMMIT that takes for granted that the Execution row was written.
CommitBlindly(w) ==
  LET t == tx[w]
  IN  /\ t.pc = "commit"
      /\ status' = t.row
      /\ done' = IF t.mile = None THEN done ELSE done \cup {t.mile}
      /\ logged' = With(t.log)
      /\ rounds' = IF t.opened THEN Counted(rounds) ELSE rounds
      /\ UNCHANGED evidence
      /\ End(w)

\* COMMIT: everything the transaction wrote, in one step.
CommitTx(w) ==
  LET t == tx[w]
  IN  /\ t.pc = "commit"
      /\ status' = IF t.row = None THEN status ELSE t.row
      /\ done' = IF t.mile = None THEN done ELSE done \cup {t.mile}
      /\ logged' = With(t.log)
      /\ rounds' = IF t.opened THEN Counted(rounds) ELSE rounds
      /\ UNCHANGED evidence
      /\ End(w)

\* A lost connection, a timeout, a crash.
Rollback(w) ==
  /\ tx[w].pc # "idle"
  /\ End(w)
  /\ Stored

Step(w) ==
  \/ ReadStart(w) \/ CreateExecution(w)
  \/ ReadMilestone(w) \/ MarkMilestone(w) \/ Recalculate(w) \/ AutoComplete(w)
  \/ ReadCompletion(w) \/ CheckEvidence(w) \/ MarkCompleted(w) \/ InitializeVerification(w)
  \/ RecordDelivery(w)
  \/ FindRound(w) \/ CreateRound(w)
  \/ CommitTx(w)

ExecutionNext ==
  \/ EvidenceArrives
  \/ \E w \in Worker :
       \/ \E call \in Call, intent \in BOOLEAN, m \in Milestone \cup {None} :
            Begin(w, call, intent, m)
       \/ Step(w)
       \/ Rollback(w)

ExecutionSpec == ExecutionInit /\ [][ExecutionNext]_exvars

\* A transaction runs its statements, and the row it waits for is given to it
\* in the end.  No call has to arrive.
FairSpec == ExecutionSpec /\ \A w \in Worker : SF_exvars(Step(w))
-----------------------------------------------------------------------------
\* Every variable has its type.
TypeOK ==
  /\ status \in Status \cup {"none"}
  /\ done \subseteq Milestone
  /\ logged \in [Fact -> Count]
  /\ evidence \in BOOLEAN
  /\ rounds \in Count
  /\ tx \in [Worker -> Transaction]

(***************************************************************************)
(* The execution starts once: however starts and deliveries race, the      *)
(* ledger never has two EXECUTION_STARTED, and has one only for an         *)
(* execution that has been in progress.                                    *)
(***************************************************************************)
StartedOnce ==
  /\ logged["STARTED"] < 2
  /\ status = "IN_PROGRESS" => logged["STARTED"] = 1
  /\ status = "none" => logged["STARTED"] = 0

(***************************************************************************)
(* A milestone that is done is in the ledger at least once, and the other  *)
(* way round, whichever statement of complete() fails.  That it is there   *)
(* only once is MilestoneLoggedOnce, which does not hold.                  *)
(***************************************************************************)
DoneIsLogged == done = {m \in Milestone : logged[m] > 0}

(***************************************************************************)
(* "Prevents double ledger writes and race-condition duplication": a       *)
(* milestone's progress is in the ledger at most once, although complete() *)
(* reads completedAt long before it updates the milestone.                 *)
(***************************************************************************)
MilestoneLoggedOnce == \A m \in Milestone : logged[m] < 2

(***************************************************************************)
(* "No execution completed without verification": a completed execution    *)
(* has evidence and an open verification round, whichever path, call or    *)
(* race completed it, and the ledger has its completion.                   *)
(***************************************************************************)
CompletedIsBacked ==
  status = "COMPLETED" => evidence /\ rounds > 0 /\ logged["COMPLETED"] > 0

\* Status only rises: a delivery, a late start or a stale read never reopens
\* an execution.
Rank(s) == CASE s = "none" -> 0 [] s = "CREATED" -> 1 [] s = "IN_PROGRESS" -> 1
             [] s = "COMPLETED" -> 2

StatusRises == [][status' # status => Rank(status') > Rank(status)]_exvars

\* The transactions implement the promise: no partial write, no lost one.
ImplementsRecord == Spec

\* Every call ends: the milestone and execution rows are locked in one order.
CallsEnd == \A w \in Worker : tx[w].pc # "idle" ~> tx[w].pc = "idle"

(***************************************************************************)
(* "Automatic execution completion when progress reaches 100%": once all   *)
(* milestones of an execution are done, it is completed.                   *)
(***************************************************************************)
AllDoneCompletes ==
  Milestone \subseteq done /\ (\A w \in Worker : tx[w].pc = "idle") => status = "COMPLETED"

\* "exactly one OPEN verification round for a case at a time".
OneOpenRound == rounds < 2
=============================================================================
