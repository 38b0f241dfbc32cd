-------------------------- MODULE Execution_proofs --------------------------
(***************************************************************************)
(* Proofs about Execution, for any milestones and any number of            *)
(* transactions.  The invariant says what each open transaction knows at   *)
(* each point of its call, and that the Execution row has one holder: what *)
(* a holder has read of status stays true until it commits.                *)
(***************************************************************************)
EXTENDS Execution, TLAPS

\* A transaction that has not written yet.
Clean(t) == t.row = None /\ t.mile = None /\ t.log = {} /\ ~t.opened

StartKnows(t) ==
  t.pc = "commit" => /\ t.row = "IN_PROGRESS" /\ t.log = {"STARTED"}
                     /\ t.mile = None /\ ~t.opened
                     /\ status = "none"

MilestoneKnows(t) ==
  /\ t.target \in Milestone
  /\ t.pc = "write" => Seeded
  /\ t.pc \in {"settle", "check", "commit"} =>
       /\ t.mile = t.target /\ t.log = {t.target}
       /\ t.row = None /\ ~t.opened
       /\ Seeded

CompletionKnows(t) ==
  /\ t.pc \in {"check", "write", "settle", "commit"} => status # "none"
  /\ t.pc \in {"write", "settle", "commit"} => evidence
  /\ t.pc = "commit" => rounds > 0
  /\ t.pc \in {"settle", "commit"} =>
       t.row = "COMPLETED" /\ t.log = {"COMPLETED"} /\ t.mile = None /\ ~t.opened

DeliveryKnows(t) ==
  t.pc = "commit" => /\ t.row = (IF status = "none" THEN "CREATED" ELSE status)
                     /\ t.log = {"PROGRESS"}
                     /\ t.mile = None /\ ~t.opened

RoundKnows(t) ==
  t.pc = "commit" => t.row = None /\ t.mile = None /\ t.log = {"REQUESTED"} /\ t.opened

\* Where the calls write first.
Knows(t) ==
  /\ t.pc \in {"idle", "read", "write"} => Clean(t)
  /\ t.pc = "check" /\ t.call # "milestone" => Clean(t)
  /\ t.pc = "settle" => t.call \in {"milestone", "complete"}
  /\ t.call = "start" => StartKnows(t)
  /\ t.call = "milestone" => MilestoneKnows(t)
  /\ t.call = "complete" => CompletionKnows(t)
  /\ t.call = "deliver" => DeliveryKnows(t)
  /\ t.call = "round" => RoundKnows(t)

RowHeldOnce == \A v, w \in Worker : tx[v].row # None /\ tx[w].row # None => v = w

\* A start leaves its trace in status.
StartedIsLogged ==
  /\ StartedOnce
  /\ logged["STARTED"] > 0 => status \in {"IN_PROGRESS", "COMPLETED"}

IInv ==
  /\ TypeOK
  /\ \A w \in Worker : Knows(tx[w])
  /\ RowHeldOnce
  /\ StartedIsLogged
  /\ DoneIsLogged
  /\ CompletedIsBacked
-----------------------------------------------------------------------------
\* A transaction that is not there has written nothing.
LEMMA IdleIsClean == Idle \in Transaction /\ Knows(Idle)
  BY DEF Idle, Transaction, Call, Knows, Clean, StartKnows

(***************************************************************************)
(* A statement that stores nothing: it is enough that its own transaction  *)
(* knows what it should, and holds the row only if nobody else does.       *)
(***************************************************************************)
LEMMA PrivateStep ==
  ASSUME IInv, NEW w \in Worker, NEW t \in Transaction,
         tx' = [tx EXCEPT ![w] = t], Stored, Knows(t),
         t.row # None => tx[w].row # None \/ ~RowLocked(w)
  PROVE  IInv'
<1>1. /\ tx \in [Worker -> Transaction]
      /\ tx'[w] = t
      /\ \A v \in Worker \ {w} : tx'[v] = tx[v]
  BY DEF IInv, TypeOK
<1>2. TypeOK'
  BY <1>1 DEF IInv, TypeOK, Stored
<1>3. ASSUME NEW v \in Worker PROVE Knows(tx[v])'
  <2>1. PICK u : u = tx'[v]
    OBVIOUS
  <2>2. Knows(u)
    BY <1>1, <2>1 DEF IInv
  <2> QED
    BY <2>1, <2>2 DEF Stored, Knows, Clean, StartKnows, MilestoneKnows, CompletionKnows, DeliveryKnows,
                RoundKnows, Seeded
<1>4. RowHeldOnce'
  <2> SUFFICES ASSUME NEW v \in Worker, NEW u \in Worker, tx'[v].row # None, tx'[u].row # None
               PROVE  v = u
    BY DEF RowHeldOnce
  <2>1. CASE tx[w].row # None \/ (v # w /\ u # w)
    BY <2>1, <1>1 DEF IInv, RowHeldOnce
  <2>2. CASE tx[w].row = None /\ (v = w \/ u = w)
    BY <2>2, <1>1 DEF RowLocked
  <2> QED
    BY <2>1, <2>2
<1>5. StartedIsLogged' /\ DoneIsLogged' /\ CompletedIsBacked'
  BY DEF IInv, Stored, StartedIsLogged, StartedOnce, DoneIsLogged, CompletedIsBacked
<1> QED
  BY <1>2, <1>3, <1>4, <1>5 DEF IInv

\* A transaction that ends, for whatever reason, without a COMMIT.
LEMMA EndStep ==
  ASSUME IInv, NEW w \in Worker, End(w), Stored
  PROVE  IInv'
  BY PrivateStep, IdleIsClean DEF End, Idle

\* The program counter moves, and the transaction knows what it needs there.
LEMMA GotoStep ==
  ASSUME IInv, NEW w \in Worker, NEW pc \in {"read", "check", "write", "settle", "commit"},
         Goto(w, pc), Stored, Knows([tx[w] EXCEPT !.pc = pc])
  PROVE  IInv'
<1>1. PICK t : t = [tx[w] EXCEPT !.pc = pc]
  OBVIOUS
<1>2. tx[w] \in Transaction
  BY DEF IInv, TypeOK
<1>3. t \in Transaction /\ t.row = tx[w].row
  BY <1>1, <1>2 DEF Transaction
<1> QED
  BY <1>1, <1>3, PrivateStep DEF Goto
-----------------------------------------------------------------------------
\* One lemma for each call: its statements keep the invariant.
LEMMA BeginStep ==
  ASSUME IInv, NEW w \in Worker, NEW call \in Call, NEW intent \in BOOLEAN,
         NEW m \in Milestone \cup {None}, Begin(w, call, intent, m)
  PROVE  IInv'
<1>1. PICK t : t = [Idle EXCEPT !.pc = "read", !.call = call, !.intent = intent, !.target = m]
  OBVIOUS
<1>2. /\ t \in Transaction
      /\ t.pc = "read" /\ t.call = call /\ t.target = m
      /\ t.row = None /\ t.mile = None /\ t.log = {} /\ ~t.opened
  BY <1>1 DEF Idle, Transaction
<1>3. Knows(t)
  BY <1>2 DEF Begin, Call, Knows, Clean, StartKnows, MilestoneKnows, CompletionKnows, DeliveryKnows,
              RoundKnows
<1> QED
  BY <1>1, <1>2, <1>3, PrivateStep DEF Begin

LEMMA StartSteps ==
  ASSUME IInv, NEW w \in Worker, ReadStart(w) \/ CreateExecution(w)
  PROVE  IInv'
<1>1. tx[w] \in Transaction /\ Knows(tx[w])
  BY DEF IInv, TypeOK
<1>2. CASE ReadStart(w)
  <2>1. CASE status # "none"
    BY <1>2, <2>1, EndStep DEF ReadStart
  <2>2. CASE status = "none"
    <3>1. PICK t : t = [tx[w] EXCEPT !.pc = "write"]
      OBVIOUS
    <3>2. Knows(t)
      BY <1>1, <1>2, <3>1 DEF ReadStart, At, Transaction, Knows, Clean, StartKnows
    <3> QED
      BY <1>2, <2>2, <3>1, <3>2, GotoStep DEF ReadStart
  <2> QED
    BY <2>1, <2>2
<1>3. CASE CreateExecution(w)
  <2>1. CASE status # "none" \/ ~Accepts(tx[w], tx[w].intent)
    BY <1>3, <2>1, EndStep DEF CreateExecution
  <2>2. CASE ~(status # "none" \/ ~Accepts(tx[w], tx[w].intent))
    <3>1. PICK t : t = [tx[w] EXCEPT !.pc = "commit", !.row = "IN_PROGRESS", !.log = {"STARTED"}]
      OBVIOUS
    <3>2. /\ t \in Transaction /\ t.pc = "commit" /\ t.call = "start" /\ t.row = "IN_PROGRESS"
          /\ t.log = {"STARTED"} /\ t.mile = None /\ ~t.opened
      BY <1>1, <1>3, <3>1 DEF CreateExecution, At, Transaction, Status, Fact, Knows, Clean
    <3>3. Knows(t)
      BY <2>2, <3>2 DEF Knows, StartKnows
    <3> QED
      BY <1>3, <2>2, <3>1, <3>2, <3>3, PrivateStep DEF CreateExecution
  <2> QED
    BY <2>1, <2>2
<1> QED
  BY <1>2, <1>3

LEMMA MilestoneSteps ==
  ASSUME IInv, NEW w \in Worker,
         ReadMilestone(w) \/ MarkMilestone(w) \/ Recalculate(w) \/ AutoComplete(w)
  PROVE  IInv'
<1>1. tx[w] \in Transaction /\ Knows(tx[w])
  BY DEF IInv, TypeOK
<1>2. CASE ReadMilestone(w)
  <2>1. CASE ~(Seeded /\ tx[w].target \notin done /\ status = "IN_PROGRESS")
    BY <1>2, <2>1, EndStep DEF ReadMilestone
  <2>2. CASE Seeded /\ tx[w].target \notin done /\ status = "IN_PROGRESS"
    <3>1. PICK t : t = [tx[w] EXCEPT !.pc = "write"]
      OBVIOUS
    <3>2. Knows(t)
      BY <1>1, <1>2, <2>2, <3>1 DEF ReadMilestone, At, Transaction, Knows, Clean, MilestoneKnows
    <3> QED
      BY <1>2, <2>2, <3>1, <3>2, GotoStep DEF ReadMilestone
  <2> QED
    BY <2>1, <2>2
<1>3. CASE MarkMilestone(w)
  <2>1. PICK t : t = [tx[w] EXCEPT !.pc = "settle", !.mile = tx[w].target, !.log = {tx[w].target}]
    OBVIOUS
  <2>2. /\ t \in Transaction /\ t.pc = "settle" /\ t.call = "milestone" /\ t.row = None
        /\ t.mile = t.target /\ t.log = {t.target} /\ t.target \in Milestone /\ ~t.opened /\ Seeded
    BY <1>1, <1>3, <2>1 DEF MarkMilestone, At, Transaction, Fact, Knows, Clean, MilestoneKnows
  <2>3. Knows(t)
    BY <2>2 DEF Knows, MilestoneKnows
  <2> QED
    BY <1>3, <2>1, <2>2, <2>3, PrivateStep DEF MarkMilestone
<1>4. CASE Recalculate(w)
  <2>1. PICK pc \in {"check", "commit"} : pc = IF AllDone(w) THEN "check" ELSE "commit"
    OBVIOUS
  <2>2. PICK t : t = [tx[w] EXCEPT !.pc = pc]
    OBVIOUS
  <2>3. Knows(t)
    BY <1>1, <1>4, <2>1, <2>2 DEF Recalculate, At, Transaction, Knows, MilestoneKnows
  <2> QED
    <3>1. Goto(w, pc) /\ Stored
      BY <1>4, <2>1 DEF Recalculate
    <3> QED
      BY <2>2, <2>3, <3>1, GotoStep
<1>5. CASE AutoComplete(w)
  BY <1>5, EndStep DEF AutoComplete, Accepts
<1> QED
  BY <1>2, <1>3, <1>4, <1>5

LEMMA CompletionSteps ==
  ASSUME IInv, NEW w \in Worker,
         ReadCompletion(w) \/ CheckEvidence(w) \/ MarkCompleted(w) \/ InitializeVerification(w)
  PROVE  IInv'
<1>1. tx[w] \in Transaction /\ Knows(tx[w])
  BY DEF IInv, TypeOK
<1>2. CASE ReadCompletion(w)
  <2>1. CASE status \in {"none", "COMPLETED"}
    BY <1>2, <2>1, EndStep DEF ReadCompletion
  <2>2. CASE status \notin {"none", "COMPLETED"}
    <3>1. PICK t : t = [tx[w] EXCEPT !.pc = "check"]
      OBVIOUS
    <3>2. Knows(t)
      BY <1>1, <1>2, <2>2, <3>1 DEF ReadCompletion, At, Transaction, Knows, Clean, CompletionKnows
    <3> QED
      BY <1>2, <2>2, <3>1, <3>2, GotoStep DEF ReadCompletion
  <2> QED
    BY <2>1, <2>2
<1>3. CASE CheckEvidence(w)
  <2>1. CASE ~evidence
    BY <1>3, <2>1, EndStep DEF CheckEvidence
  <2>2. CASE evidence
    <3>1. PICK t : t = [tx[w] EXCEPT !.pc = "write"]
      OBVIOUS
    <3>2. Knows(t)
      BY <1>1, <1>3, <2>2, <3>1 DEF CheckEvidence, At, Transaction, Knows, Clean, CompletionKnows
    <3> QED
      BY <1>3, <2>2, <3>1, <3>2, GotoStep DEF CheckEvidence
  <2> QED
    BY <2>1, <2>2
<1>4. CASE MarkCompleted(w)
  <2>1. CASE ~Accepts(tx[w], tx[w].intent)
    BY <1>4, <2>1, EndStep DEF MarkCompleted
  <2>2. CASE Accepts(tx[w], tx[w].intent)
    <3>1. PICK t : t = [tx[w] EXCEPT !.pc = "settle", !.row = "COMPLETED", !.log = {"COMPLETED"}]
      OBVIOUS
    <3>2. /\ t \in Transaction /\ t.pc = "settle" /\ t.call = "complete" /\ t.row = "COMPLETED"
          /\ t.log = {"COMPLETED"} /\ t.mile = None /\ ~t.opened /\ status # "none" /\ evidence
      BY <1>1, <1>4, <3>1
      DEF MarkCompleted, At, Transaction, Status, Fact, Knows, Clean, CompletionKnows
    <3>3. Knows(t)
      BY <3>2 DEF Knows, CompletionKnows
    <3> QED
      BY <1>4, <2>2, <3>1, <3>2, <3>3, PrivateStep DEF MarkCompleted
  <2> QED
    BY <2>1, <2>2
<1>5. CASE InitializeVerification(w)
  <2>1. CASE rounds = 0
    BY <1>5, <2>1, EndStep DEF InitializeVerification, Accepts
  <2>2. CASE rounds > 0
    <3>1. PICK t : t = [tx[w] EXCEPT !.pc = "commit"]
      OBVIOUS
    <3>2. Knows(t)
      BY <1>1, <1>5, <2>2, <3>1 DEF InitializeVerification, At, Transaction, Knows, CompletionKnows
    <3> QED
      <4>1. Goto(w, "commit") /\ Stored
        <5>1. rounds # 0
          BY <2>2
        <5> QED
          BY <1>5, <5>1, Zenon DEF InitializeVerification
      <4> QED
        BY <3>1, <3>2, <4>1, GotoStep
  <2> QED
    BY <1>5, <2>1, <2>2 DEF InitializeVerification
<1> QED
  BY <1>2, <1>3, <1>4, <1>5
LEMMA DeliveryStep ==
  ASSUME IInv, NEW w \in Worker, RecordDelivery(w)
  PROVE  IInv'
<1>1. tx[w] \in Transaction /\ Knows(tx[w]) /\ status \in Status \cup {"none"}
  BY DEF IInv, TypeOK
<1>2. CASE ~Accepts(tx[w], tx[w].intent)
  BY <1>2, EndStep DEF RecordDelivery
<1>3. CASE Accepts(tx[w], tx[w].intent)
  <2>1. PICK row : row = (IF status = "none" THEN "CREATED" ELSE status)
    OBVIOUS
  <2>2. PICK t : t = [tx[w] EXCEPT !.pc = "commit", !.log = {"PROGRESS"}, !.row = row]
    OBVIOUS
  <2>3. /\ t \in Transaction /\ t.pc = "commit" /\ t.call = "deliver" /\ t.row = row
        /\ t.log = {"PROGRESS"} /\ t.mile = None /\ ~t.opened
    BY <1>1, <2>1, <2>2 DEF RecordDelivery, At, Transaction, Status, Fact, Knows, Clean
  <2>4. Knows(t)
    BY <2>1, <2>3 DEF Knows, DeliveryKnows
  <2> QED
    <3>1. tx' = [tx EXCEPT ![w] = t] /\ Stored /\ ~RowLocked(w)
      BY <1>3, <2>1, <2>2 DEF RecordDelivery
    <3> QED
      BY <2>3, <2>4, <3>1, PrivateStep
<1> QED
  BY <1>2, <1>3

LEMMA RoundSteps ==
  ASSUME IInv, NEW w \in Worker, FindRound(w) \/ CreateRound(w)
  PROVE  IInv'
<1>1. tx[w] \in Transaction /\ Knows(tx[w])
  BY DEF IInv, TypeOK
<1>2. CASE FindRound(w)
  <2>1. CASE rounds > 0
    BY <1>2, <2>1, EndStep DEF FindRound
  <2>2. CASE ~(rounds > 0)
    <3>1. PICK t : t = [tx[w] EXCEPT !.pc = "write"]
      OBVIOUS
    <3>2. Knows(t)
      BY <1>1, <1>2, <3>1 DEF FindRound, At, Transaction, Knows, Clean, RoundKnows
    <3> QED
      BY <1>2, <2>2, <3>1, <3>2, GotoStep DEF FindRound
  <2> QED
    BY <2>1, <2>2
<1>3. CASE CreateRound(w)
  <2>1. CASE ~Accepts(tx[w], tx[w].intent)
    BY <1>3, <2>1, EndStep DEF CreateRound
  <2>2. CASE Accepts(tx[w], tx[w].intent)
    <3>1. PICK t : t = [tx[w] EXCEPT !.pc = "commit", !.opened = TRUE, !.log = {"REQUESTED"}]
      OBVIOUS
    <3>2. /\ t \in Transaction /\ t.pc = "commit" /\ t.call = "round" /\ t.row = None
          /\ t.log = {"REQUESTED"} /\ t.mile = None /\ t.opened
      BY <1>1, <1>3, <3>1 DEF CreateRound, At, Transaction, Fact, Knows, Clean
    <3>3. Knows(t)
      BY <3>2 DEF Knows, RoundKnows
    <3> QED
      <4>1. tx' = [tx EXCEPT ![w] = t] /\ Stored
        BY <1>3, <2>2, <3>1 DEF CreateRound
      <4> QED
        BY <3>2, <3>3, <4>1, PrivateStep
  <2> QED
    BY <2>1, <2>2
<1> QED
  BY <1>2, <1>3

-----------------------------------------------------------------------------
(***************************************************************************)
(* A COMMIT is one step of the record: what each call has written makes    *)
(* exactly the change that the record allows.                              *)
(***************************************************************************)
LEMMA CommitIsARecordStep ==
  ASSUME IInv, NEW w \in Worker, CommitTx(w)
  PROVE  Start \/ Deliver \/ (\E m \in Milestone : CompleteMilestone(m)) \/ Complete \/ OpenRound
<1>1. PICK t : t = tx[w]
  OBVIOUS
<1>2. t \in Transaction /\ Knows(t) /\ t.pc = "commit"
  BY <1>1 DEF IInv, TypeOK, CommitTx
<1>3. /\ status' = (IF t.row = None THEN status ELSE t.row)
      /\ done' = (IF t.mile = None THEN done ELSE done \cup {t.mile})
      /\ logged' = With(t.log)
      /\ rounds' = (IF t.opened THEN Counted(rounds) ELSE rounds)
      /\ evidence' = evidence
  BY <1>1 DEF CommitTx
<1>4. CASE t.call = "start"
  <2>1. t.row = "IN_PROGRESS" /\ t.log = {"STARTED"} /\ t.mile = None /\ ~t.opened /\ status = "none"
    BY <1>2, <1>4 DEF Knows, StartKnows
  <2>2. Start
    BY <1>3, <2>1, NoneAssumption DEF Start
  <2> QED
    BY <2>2
<1>5. CASE t.call = "milestone"
  <2>1. /\ t.row = None /\ t.log = {t.target} /\ t.mile = t.target /\ t.target \in Milestone
        /\ ~t.opened /\ Seeded
    BY <1>2, <1>5 DEF Knows, MilestoneKnows
  <2>2. logged["STARTED"] = 1
    BY <2>1, SMT DEF IInv, TypeOK, StartedIsLogged, StartedOnce, Seeded, Count, Fact
  <2>3. CompleteMilestone(t.target)
    BY <1>3, <2>1, <2>2, NoneAssumption DEF CompleteMilestone
  <2> QED
    BY <2>1, <2>3
<1>6. CASE t.call = "complete"
  <2>1. /\ t.row = "COMPLETED" /\ t.log = {"COMPLETED"} /\ t.mile = None /\ ~t.opened
        /\ status # "none" /\ evidence /\ rounds > 0
    BY <1>2, <1>6 DEF Knows, CompletionKnows
  <2>2. Complete
    BY <1>3, <2>1, NoneAssumption DEF Complete
  <2> QED
    BY <2>2
<1>7. CASE t.call = "deliver"
  <2>1. /\ t.row = (IF status = "none" THEN "CREATED" ELSE status)
        /\ t.log = {"PROGRESS"} /\ t.mile = None /\ ~t.opened
    BY <1>2, <1>7 DEF Knows, DeliveryKnows
  <2>2. t.row # None
    BY <2>1, NoneAssumption DEF IInv, TypeOK, Status
  <2>3. Deliver
    BY <1>3, <2>1, <2>2 DEF Deliver
  <2> QED
    BY <2>3
<1>8. CASE t.call = "round"
  <2>1. t.row = None /\ t.log = {"REQUESTED"} /\ t.mile = None /\ t.opened
    BY <1>2, <1>8 DEF Knows, RoundKnows
  <2>2. OpenRound
    BY <1>3, <2>1 DEF OpenRound
  <2> QED
    BY <2>2
<1> QED
  BY <1>2, <1>4, <1>5, <1>6, <1>7, <1>8 DEF Transaction, Call

\* The ledger after an append, fact by fact.
LEMMA AppendCounts ==
  ASSUME logged \in [Fact -> Count], NEW facts, NEW f \in Fact
  PROVE  /\ With(facts) \in [Fact -> Count]
         /\ f \in facts => With(facts)[f] > 0
         /\ f \notin facts => With(facts)[f] = logged[f]
         /\ logged[f] > 0 => With(facts)[f] > 0
  BY DEF With, Counted, Count

\* Each step of the record keeps what the record is trusted for.
LEMMA RecordKeepsFacts ==
  ASSUME TypeOK, StartedIsLogged, DoneIsLogged, CompletedIsBacked,
         Start \/ Deliver \/ (\E m \in Milestone : CompleteMilestone(m)) \/ Complete \/ OpenRound
  PROVE  /\ status' \in Status \cup {"none"} /\ done' \subseteq Milestone
         /\ logged' \in [Fact -> Count] /\ evidence' \in BOOLEAN /\ rounds' \in Count
         /\ StartedIsLogged' /\ DoneIsLogged' /\ CompletedIsBacked'
<1>1. PICK facts : /\ logged' = With(facts)
                   /\ facts \in {{"STARTED"}, {"PROGRESS"}, {"COMPLETED"}, {"REQUESTED"}}
                                 \cup {{m} : m \in Milestone}
  BY DEF Start, Deliver, CompleteMilestone, Complete, OpenRound
<1>2. /\ logged \in [Fact -> Count] /\ logged' \in [Fact -> Count]
      /\ \A f \in Fact : /\ f \in facts => logged'[f] > 0
                         /\ f \notin facts => logged'[f] = logged[f]
                         /\ logged[f] > 0 => logged'[f] > 0
  BY <1>1, AppendCounts DEF TypeOK, Fact
<1>3. /\ {"STARTED", "PROGRESS", "COMPLETED", "REQUESTED"} \subseteq Fact
      /\ Milestone \subseteq Fact
      /\ \A m \in Milestone : m \notin {"STARTED", "PROGRESS", "COMPLETED", "REQUESTED"}
  BY FactAssumption DEF Fact
<1>4. status' \in Status \cup {"none"}
  <2>1. CASE Start
    BY <2>1 DEF Start, Status
  <2>2. CASE Deliver
    BY <2>2 DEF Deliver, TypeOK, Status
  <2>3. CASE (\E m \in Milestone : CompleteMilestone(m)) \/ OpenRound
    BY <2>3 DEF CompleteMilestone, OpenRound, TypeOK
  <2>4. CASE Complete
    BY <2>4 DEF Complete, Status
  <2> QED
    BY <2>1, <2>2, <2>3, <2>4
<1>9. done' \subseteq Milestone /\ evidence' = evidence /\ evidence' \in BOOLEAN
  BY DEF TypeOK, Start, Deliver, CompleteMilestone, Complete, OpenRound
<1>5. rounds' \in Count /\ (rounds > 0 => rounds' > 0)
  <2>1. CASE OpenRound
    BY <2>1 DEF OpenRound, TypeOK, Count, Counted
  <2>2. CASE ~OpenRound
    BY <2>2 DEF Start, Deliver, CompleteMilestone, Complete, TypeOK
  <2> QED
    BY <2>1, <2>2
<1>6. StartedIsLogged'
  <2>1. CASE Start
    <3>1. logged["STARTED"] = 0 /\ status' = "IN_PROGRESS" /\ logged' = With({"STARTED"})
      BY <2>1 DEF Start, StartedIsLogged, StartedOnce
    <3>2. logged'["STARTED"] = 1
      BY <1>3, <3>1 DEF With, Counted
    <3> QED
      BY <3>1, <3>2 DEF StartedIsLogged, StartedOnce
  <2>2. CASE ~Start
    <3>1. logged'["STARTED"] = logged["STARTED"]
      BY <1>3, <2>2 DEF Deliver, CompleteMilestone, Complete, OpenRound, With
    <3>2. \/ status' = status
          \/ status = "none" /\ status' = "CREATED"
          \/ status # "none" /\ status' = "COMPLETED"
      BY <2>2 DEF Deliver, CompleteMilestone, Complete, OpenRound
    <3> QED
      BY <3>1, <3>2, SMT DEF StartedIsLogged, StartedOnce, TypeOK, Status
  <2> QED
    BY <2>1, <2>2
<1>7. DoneIsLogged'
  <2>1. CASE \E m \in Milestone : CompleteMilestone(m)
    <3>1. PICK m \in Milestone : CompleteMilestone(m)
      BY <2>1
    <3>2. /\ done' = done \cup {m}
          /\ logged'[m] > 0
          /\ \A f \in Fact : f # m => logged'[f] = logged[f]
      BY <3>1, <1>3, AppendCounts DEF CompleteMilestone, TypeOK
    <3> QED
      BY <1>3, <3>2 DEF DoneIsLogged
  <2>2. CASE ~\E m \in Milestone : CompleteMilestone(m)
    <3>1. done' = done /\ \A m \in Milestone : logged'[m] = logged[m]
      BY <2>2, <1>3 DEF Start, Deliver, Complete, OpenRound, With
    <3> QED
      BY <3>1 DEF DoneIsLogged
  <2> QED
    BY <2>1, <2>2
<1>8. CompletedIsBacked'
  <2>1. CASE Complete
    <3>1. logged'["COMPLETED"] > 0
      BY <2>1, <1>3, AppendCounts DEF Complete, TypeOK
    <3> QED
      BY <2>1, <3>1, <1>5 DEF Complete, CompletedIsBacked
  <2>2. CASE ~Complete
    <3>1. status' = "COMPLETED" => status = "COMPLETED"
      BY <2>2 DEF Start, Deliver, CompleteMilestone, OpenRound
    <3> QED
      BY <1>2, <1>3, <1>5, <1>9, <3>1 DEF CompletedIsBacked
  <2> QED
    BY <2>1, <2>2
<1> QED
  BY <1>2, <1>4, <1>5, <1>6, <1>7, <1>8, <1>9
-----------------------------------------------------------------------------
\* What a transaction knows outlives the steps of others.
LEMMA KnowledgeLasts ==
  ASSUME NEW u \in Transaction, Knows(u), status \in Status \cup {"none"},
         status # "none" => status' # "none",
         evidence => evidence',
         rounds > 0 => rounds' > 0,
         Seeded => Seeded',
         u.row # None => status' = status
  PROVE  Knows(u)'
<1>1. u.call = "start" => StartKnows(u)'
  BY NoneAssumption DEF Knows, StartKnows
<1>2. u.call = "milestone" => MilestoneKnows(u)'
  BY DEF Knows, MilestoneKnows
<1>3. u.call = "complete" => CompletionKnows(u)'
  BY DEF Knows, CompletionKnows
<1>4. u.call = "deliver" => DeliveryKnows(u)'
  BY NoneAssumption DEF Knows, DeliveryKnows, Status
<1>5. u.call = "round" => RoundKnows(u)'
  BY DEF Knows, RoundKnows
<1> QED
  BY <1>1, <1>2, <1>3, <1>4, <1>5 DEF Knows, Clean

LEMMA CommitStep ==
  ASSUME IInv, NEW w \in Worker, CommitTx(w)
  PROVE  IInv'
<1>1. Start \/ Deliver \/ (\E m \in Milestone : CompleteMilestone(m)) \/ Complete \/ OpenRound
  BY CommitIsARecordStep
<1>2. /\ status' \in Status \cup {"none"} /\ done' \subseteq Milestone
      /\ logged' \in [Fact -> Count] /\ evidence' \in BOOLEAN /\ rounds' \in Count
      /\ StartedIsLogged' /\ DoneIsLogged' /\ CompletedIsBacked'
  BY <1>1, RecordKeepsFacts DEF IInv
<1>3. /\ tx' = [tx EXCEPT ![w] = Idle]
      /\ tx \in [Worker -> Transaction] /\ tx' \in [Worker -> Transaction]
      /\ tx'[w] = Idle
      /\ \A v \in Worker \ {w} : tx'[v] = tx[v]
  BY IdleIsClean DEF CommitTx, End, IInv, TypeOK
<1>4. TypeOK'
  BY <1>2, <1>3 DEF TypeOK
<1>5. RowHeldOnce'
  BY <1>3 DEF IInv, RowHeldOnce, Idle
<1>6. ASSUME NEW v \in Worker PROVE Knows(tx[v])'
  <2>1. CASE v = w
    <3>1. PICK t : t = Idle
      OBVIOUS
    <3>2. Knows(t)'
      BY <3>1 DEF Idle, Knows, Clean, StartKnows
    <3> QED
      BY <1>3, <2>1, <3>1, <3>2
  <2>2. CASE v # w
    <3>1. PICK u : u = tx[v]
      OBVIOUS
    <3>2. u \in Transaction /\ Knows(u) /\ tx'[v] = u /\ status \in Status \cup {"none"}
      BY <1>3, <2>2, <3>1 DEF IInv, TypeOK
    <3>3. status # "none" => status' # "none"
      BY <1>1 DEF Start, Deliver, CompleteMilestone, Complete, OpenRound
    <3>4. evidence => evidence'
      BY <1>1 DEF Start, Deliver, CompleteMilestone, Complete, OpenRound
    <3>5. rounds > 0 => rounds' > 0
      <4>1. CASE OpenRound
        BY <4>1 DEF OpenRound, Counted, IInv, TypeOK, Count
      <4>2. CASE ~OpenRound
        BY <1>1, <4>2 DEF Start, Deliver, CompleteMilestone, Complete
      <4> QED
        BY <4>1, <4>2
    <3>6. Seeded => Seeded'
      <4>1. PICK facts : logged' = With(facts)
        BY <1>1 DEF Start, Deliver, CompleteMilestone, Complete, OpenRound
      <4> QED
        BY <4>1, AppendCounts DEF Seeded, IInv, TypeOK, Fact
    <3>7. u.row # None => status' = status
      <4>1. u.row # None => tx[w].row = None
        BY <2>2, <3>1 DEF IInv, RowHeldOnce
      <4> QED
        BY <4>1 DEF CommitTx
    <3>8. Knows(u)'
      BY <3>2, <3>3, <3>4, <3>5, <3>6, <3>7, KnowledgeLasts
    <3> QED
      BY <3>2, <3>8
  <2> QED
    BY <2>1, <2>2
<1> QED
  BY <1>2, <1>4, <1>5, <1>6 DEF IInv

LEMMA EvidenceStep ==
  ASSUME IInv, EvidenceArrives
  PROVE  IInv'
<1>1. UNCHANGED <<status, done, logged, rounds, tx>> /\ evidence'
  BY DEF EvidenceArrives, AddEvidence
<1>2. TypeOK' /\ RowHeldOnce' /\ StartedIsLogged' /\ DoneIsLogged' /\ CompletedIsBacked'
  BY <1>1 DEF IInv, TypeOK, RowHeldOnce, StartedIsLogged, StartedOnce, DoneIsLogged,
              CompletedIsBacked, EvidenceArrives, AddEvidence
<1>3. ASSUME NEW v \in Worker PROVE Knows(tx[v])'
  <2>1. PICK u : u = tx[v]
    OBVIOUS
  <2>2. u \in Transaction /\ Knows(u) /\ status \in Status \cup {"none"}
    BY <2>1 DEF IInv, TypeOK
  <2>3. Knows(u)'
    BY <1>1, <2>2, KnowledgeLasts DEF Seeded
  <2> QED
    BY <1>1, <2>1, <2>3
<1> QED
  BY <1>2, <1>3 DEF IInv

LEMMA InitEstablishes ==
  ASSUME ExecutionInit
  PROVE  IInv
<1>1. TypeOK
  <2>1. logged \in [Fact -> Count]
    BY DEF ExecutionInit, Init, Count
  <2>2. tx \in [Worker -> Transaction]
    BY IdleIsClean DEF ExecutionInit
  <2>3. rounds \in Count
    BY DEF ExecutionInit, Init, Count
  <2>4. status = "none" /\ done = {} /\ evidence = FALSE
    BY DEF ExecutionInit, Init
  <2> QED
    BY <2>1, <2>2, <2>3, <2>4 DEF TypeOK
<1>2. \A w \in Worker : tx[w] = Idle
  BY DEF ExecutionInit
<1>3. (\A w \in Worker : Knows(tx[w])) /\ RowHeldOnce
  BY <1>2, IdleIsClean DEF RowHeldOnce, Idle
<1>4. StartedIsLogged /\ DoneIsLogged /\ CompletedIsBacked
  BY DEF ExecutionInit, Init, StartedIsLogged, StartedOnce, DoneIsLogged, CompletedIsBacked, Fact
<1> QED
  BY <1>1, <1>3, <1>4 DEF IInv

LEMMA NextPreserves ==
  ASSUME IInv, [ExecutionNext]_exvars
  PROVE  IInv'
<1>1. CASE EvidenceArrives
  BY <1>1, EvidenceStep
<1>2. ASSUME NEW w \in Worker, NEW call \in Call, NEW intent \in BOOLEAN,
             NEW m \in Milestone \cup {None}, Begin(w, call, intent, m)
      PROVE  IInv'
  BY <1>2, BeginStep
<1>3. ASSUME NEW w \in Worker, Step(w)
      PROVE  IInv'
  BY <1>3, StartSteps, MilestoneSteps, CompletionSteps, DeliveryStep, RoundSteps, CommitStep
  DEF Step
<1>4. ASSUME NEW w \in Worker, Rollback(w)
      PROVE  IInv'
  BY <1>4, EndStep DEF Rollback
<1>5. CASE UNCHANGED exvars
  BY <1>5 DEF exvars, IInv, TypeOK, RowHeldOnce, StartedIsLogged, StartedOnce, DoneIsLogged,
              CompletedIsBacked, Knows, Clean, StartKnows, MilestoneKnows, CompletionKnows,
              DeliveryKnows, RoundKnows, Seeded
<1> QED
  BY <1>1, <1>2, <1>3, <1>4, <1>5 DEF ExecutionNext

\* The invariant holds of every behaviour.
THEOREM Invariance == ExecutionSpec => []IInv
<1>1. ExecutionInit => IInv
  BY InitEstablishes
<1>2. IInv /\ [ExecutionNext]_exvars => IInv'
  BY NextPreserves
<1> QED
  BY <1>1, <1>2, PTL DEF ExecutionSpec

\* Every variable keeps its type.
THEOREM TypeCorrect == ExecutionSpec => []TypeOK
<1>1. IInv => TypeOK
  BY DEF IInv
<1> QED
  BY <1>1, Invariance, PTL

\* One EXECUTION_STARTED at most, by the unique index and the row lock.
THEOREM StartsOnce == ExecutionSpec => []StartedOnce
<1>1. IInv => StartedOnce
  BY DEF IInv, StartedIsLogged
<1> QED
  BY <1>1, Invariance, PTL

\* Milestones and ledger agree, whatever is rolled back.
THEOREM DoneIffLogged == ExecutionSpec => []DoneIsLogged
<1>1. IInv => DoneIsLogged
  BY DEF IInv
<1> QED
  BY <1>1, Invariance, PTL

\* No execution completed without evidence and verification.
THEOREM CompletionIsBacked == ExecutionSpec => []CompletedIsBacked
<1>1. IInv => CompletedIsBacked
  BY DEF IInv
<1> QED
  BY <1>1, Invariance, PTL

(***************************************************************************)
(* The transactions implement the record: a COMMIT is a step of it, and    *)
(* everything before a COMMIT is invisible.                                *)
(***************************************************************************)
THEOREM Implementation == ExecutionSpec => ImplementsRecord
<1>1. ExecutionInit => Init
  BY DEF ExecutionInit
<1>2. IInv /\ [ExecutionNext]_exvars => [Next]_vars
  <2> SUFFICES ASSUME IInv, [ExecutionNext]_exvars
               PROVE  [Next]_vars
    OBVIOUS
  <2>1. CASE EvidenceArrives
    BY <2>1 DEF EvidenceArrives, Next
  <2>2. CASE \E w \in Worker : CommitTx(w)
    BY <2>2, CommitIsARecordStep DEF Next
  <2>3. CASE Stored
    BY <2>3 DEF Stored, vars
  <2>4. CASE UNCHANGED exvars
    BY <2>4 DEF exvars, vars
  <2> QED
    BY <2>1, <2>2, <2>3, <2>4
    DEF ExecutionNext, Step, Begin, Rollback, ReadStart, CreateExecution, ReadMilestone,
        MarkMilestone, Recalculate, AutoComplete, ReadCompletion, CheckEvidence, MarkCompleted,
        InitializeVerification, RecordDelivery, FindRound, CreateRound
<1> QED
  BY <1>1, <1>2, Invariance, PTL DEF ExecutionSpec, Spec, ImplementsRecord

\* No step lowers the status of an execution: who writes it holds its row.
THEOREM NeverReopened == ExecutionSpec => StatusRises
<1>1. IInv /\ [ExecutionNext]_exvars => (status' # status => Rank(status') > Rank(status))
  <2> SUFFICES ASSUME IInv, [ExecutionNext]_exvars, status' # status
               PROVE  Rank(status') > Rank(status)
    OBVIOUS
  <2>1. PICK w \in Worker : CommitTx(w)
    BY DEF exvars, Stored, EvidenceArrives, AddEvidence,
        ExecutionNext, Step, Begin, Rollback, ReadStart, CreateExecution, ReadMilestone,
        MarkMilestone, Recalculate, AutoComplete, ReadCompletion, CheckEvidence, MarkCompleted,
        InitializeVerification, RecordDelivery, FindRound, CreateRound
  <2>2. \/ status = "none" /\ status' \in {"IN_PROGRESS", "CREATED"}
        \/ status \in {"CREATED", "IN_PROGRESS"} /\ status' = "COMPLETED"
    BY <2>1, CommitIsARecordStep DEF Start, Deliver, CompleteMilestone, Complete, OpenRound,
                                     IInv, TypeOK, Status
  <2> QED
    BY <2>2 DEF Rank
<1> QED
  BY <1>1, Invariance, PTL DEF ExecutionSpec, StatusRises
=============================================================================
