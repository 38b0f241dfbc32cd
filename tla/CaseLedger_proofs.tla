-------------------------- MODULE CaseLedger_proofs --------------------------
(***************************************************************************)
(* For every tenant, every set of concurrent calls and every bound on the  *)
(* sequence: the services implement the abstract journal, and so the       *)
(* ledger of a case is the path its lifecycle took.                        *)
(***************************************************************************)
EXTENDS MCCaseLedger, Replay_proofs, TLAPS

JournalProof == INSTANCE CaseJournal_proofs WITH
                  stage <- lifecycle,
                  journal <- {JournalEntry(e) : e \in Moves},
                  Stamp <- 1..MaxTs

-----------------------------------------------------------------------------
(* The inductive invariant. *)

Writes(t) == t.op \in {"transition", "accept"}

InTransaction(t) == t.pc \in {"append", "insert"}

\* What a call is doing when it is at each of its steps.
WellFormed(t) ==
  \/ t.pc = "idle"
  \/ /\ t.case \in Case
     /\ \/ t.pc = "accept" /\ t.op = "accept" /\ t.target = "ACCEPTED"
        \/ t.pc = "replay" /\ t.op = "reconcile"
        \/ t.pc = "create" /\ t.op \in {"start", "deliver"}
        \/ t.pc = "update" /\ t.op \in Guarded
        \/ t.pc \in {"update", "append", "insert"} /\ Writes(t) /\ CanMove(t.seen, t.target)
        \/ InTransaction(t) /\ t.op \in {"route", "start", "deliver"}
        \/ InTransaction(t) /\ t.op = "bootstrap" /\ t.target = "INTAKE"

\* After its UPDATE a call holds the row lock, and the row is as it read it.
HoldsRow(w) ==
  InTransaction(tx[w]) /\ Writes(tx[w]) =>
    lock[tx[w].case] = w /\ lifecycle[tx[w].case] = tx[w].seen

\* The number a call has drawn is above those of the moves of its case.
Fresh(w) ==
  tx[w].pc = "insert" =>
    /\ 1 <= tx[w].ts /\ tx[w].ts <= seq
    /\ Writes(tx[w]) => \A e \in Moves : e.case = tx[w].case => e.ts < tx[w].ts

\* A case being created has no row, and no other call knows its id.
Creates(w) ==
  tx[w].pc # "idle" /\ tx[w].op = "bootstrap" =>
    /\ lifecycle[tx[w].case] = Absent
    /\ \A v \in Worker : v # w /\ tx[v].pc # "idle" => tx[v].case # tx[w].case

CallInv(w) == WellFormed(tx[w]) /\ HoldsRow(w) /\ Fresh(w) /\ Creates(w)

SeqInv == \A e \in ledger : e.ts <= seq

LedgerInv == TypeOK /\ SeqInv /\ \A w \in Worker : CallInv(w)

-----------------------------------------------------------------------------
(* Steps that only change what one call is doing. *)

\* The idle transaction is one, and every edge leaves a lifecycle.
LEMMA Basics ==
  /\ Idle \in Transaction /\ Idle.pc = "idle"
  /\ \A a, b : CanMove(a, b) => a \in Lifecycle /\ b \in Lifecycle /\ a # Absent
  /\ "INTAKE" \in Lifecycle /\ "ACCEPTED" \in Lifecycle
  /\ \A c : ~CanMove(Absent, c)
<1>1. Idle \in Transaction /\ Idle.pc = "idle"
  BY ConstantsAssumption DEF Idle, Transaction, Op, Stage
<1>2. ASSUME NEW a, NEW b, CanMove(a, b) PROVE a \in Lifecycle /\ b \in Lifecycle
  BY <1>2 DEF CanMove, Transitions, Lifecycle
<1> QED
  BY <1>1, <1>2, ConstantsAssumption DEF Lifecycle

\* Replay yields a lifecycle.
LEMMA DerivedIsLifecycle == \A c \in Case : Derived(c) \in Lifecycle
<1> SUFFICES ASSUME NEW c \in Case PROVE Derived(c) \in Lifecycle
  OBVIOUS
<1> DEFINE effective == {e \in CommitsOf(c) : e.event \in DOMAIN ReplayEffect}
           last == {e \in effective : \A d \in effective : d.ts <= e.ts}
<1>1. \A x \in DOMAIN ReplayEffect : ReplayEffect[x] \in Lifecycle
  BY DEF ReplayEffect, Lifecycle
<1>2. CASE last = {}
  BY <1>2 DEF Derived, Lifecycle
<1>3. CASE last # {}
  <2>1. (CHOOSE e \in last : TRUE) \in last
    BY <1>3
  <2>2. (CHOOSE e \in last : TRUE).event \in DOMAIN ReplayEffect
    BY <2>1
  <2> QED
    BY <1>1, <1>3, <2>2 DEF Derived
<1> QED
  BY <1>2, <1>3

\* A call that moves to a step before the insert keeps the invariant, if what
\* it claims there is true and no other call is creating its case.
LEMMA CallStep ==
  ASSUME LedgerInv, NEW w \in Worker, NEW t \in Transaction,
         tx' = [tx EXCEPT ![w] = t],
         UNCHANGED <<lifecycle, execution, decision, ledger, seq, lock>>,
         WellFormed(t), t.pc # "insert",
         InTransaction(t) => ~Writes(t),
         \A v \in Worker : v # w /\ tx[v].pc # "idle" /\ tx[v].case = t.case
            => t.op # "bootstrap" /\ tx[v].op # "bootstrap",
         t.op = "bootstrap" => lifecycle[t.case] = Absent
  PROVE  LedgerInv'
<1>1. tx' \in [Worker -> Transaction]
  BY DEF LedgerInv, TypeOK
<1>2. tx'[w] = t /\ \A v \in Worker : v # w => tx'[v] = tx[v]
  BY DEF LedgerInv, TypeOK
<1>3. TypeOK' /\ SeqInv'
  BY <1>1 DEF LedgerInv, TypeOK, SeqInv
<1>4. Moves' = Moves
  BY DEF Moves
<1>5. ASSUME NEW v \in Worker PROVE CallInv(v)'
  <2>1. WellFormed(tx[v])'
    BY <1>2 DEF LedgerInv, CallInv, WellFormed, InTransaction, Writes
  <2>2. HoldsRow(v)'
    BY <1>2 DEF LedgerInv, CallInv, HoldsRow, InTransaction, Writes
  <2>3. Fresh(v)'
    BY <1>2, <1>4 DEF LedgerInv, CallInv, Fresh, Writes
  <2>4. Creates(v)'
    BY <1>2 DEF LedgerInv, CallInv, Creates
  <2> QED
    BY <2>1, <2>2, <2>3, <2>4 DEF CallInv
<1> QED
  BY <1>3, <1>5 DEF LedgerInv

\* A call that ends, its lock released, keeps the invariant.
LEMMA EndStep ==
  ASSUME LedgerInv, NEW w \in Worker, End(w), NoEffect
  PROVE  LedgerInv'
<1>1. tx' \in [Worker -> Transaction] /\ lock' \in [Case -> Worker \cup {None}]
  BY Basics DEF LedgerInv, TypeOK, End
<1>2. tx'[w].pc = "idle" /\ \A v \in Worker : v # w => tx'[v] = tx[v]
  BY Basics DEF LedgerInv, TypeOK, End
<1>3. TypeOK' /\ SeqInv'
  BY <1>1 DEF LedgerInv, TypeOK, SeqInv, NoEffect
<1>4. Moves' = Moves
  BY DEF Moves, NoEffect
<1>5. \A v \in Worker, c \in Case : v # w /\ lock[c] = v => lock'[c] = v
  BY DEF End
<1>6. ASSUME NEW v \in Worker PROVE CallInv(v)'
  <2>1. WellFormed(tx[v])'
    BY <1>2 DEF LedgerInv, CallInv, WellFormed, InTransaction, Writes
  <2>2. HoldsRow(v)'
    BY <1>2, <1>5, <2>1 DEF LedgerInv, CallInv, HoldsRow, InTransaction, Writes, NoEffect,
                            WellFormed
  <2>3. Fresh(v)'
    BY <1>2, <1>4 DEF LedgerInv, CallInv, Fresh, Writes, NoEffect
  <2>4. Creates(v)'
    BY <1>2 DEF LedgerInv, CallInv, Creates, NoEffect
  <2> QED
    BY <2>1, <2>2, <2>3, <2>4 DEF CallInv
<1> QED
  BY <1>3, <1>6 DEF LedgerInv

-----------------------------------------------------------------------------
(* The steps, one lemma each. *)

\* A call that begins: its case is not being created by another.
LEMMA BeginStep ==
  ASSUME LedgerInv, NEW w \in Worker, NEW c \in Case,
         NEW pc \in {"accept", "replay", "update", "create", "append"},
         NEW op \in Op, NEW target \in Stage,
         Begin(w, pc, op, c, target),
         \/ Exists(c) /\ op # "bootstrap"
         \/ ~Exists(c) /\ op = "bootstrap" /\ \A v \in Busy : tx[v].case # c,
         \A t \in Transaction :
           t.pc = pc /\ t.op = op /\ t.case = c /\ t.seen = lifecycle[c] /\ t.target = target
             => WellFormed(t) /\ (InTransaction(t) => ~Writes(t))
  PROVE  LedgerInv'
<1> DEFINE t == [pc |-> pc, op |-> op, case |-> c,
                 seen |-> lifecycle[c], target |-> target, ts |-> 0]
<1>1. /\ t \in Transaction
      /\ t.pc = pc /\ t.op = op /\ t.case = c /\ t.seen = lifecycle[c] /\ t.target = target
  BY ConstantsAssumption DEF Transaction, LedgerInv, TypeOK
<1>2. tx' = [tx EXCEPT ![w] = t] /\ UNCHANGED <<lifecycle, execution, decision, ledger, seq, lock>>
  BY DEF Begin
<1> HIDE DEF t
<1>3. WellFormed(t) /\ (InTransaction(t) => ~Writes(t)) /\ t.pc # "insert"
  BY <1>1
<1>4. \A v \in Worker : v # w /\ tx[v].pc # "idle" /\ tx[v].case = t.case
            => t.op # "bootstrap" /\ tx[v].op # "bootstrap"
  BY <1>1 DEF LedgerInv, CallInv, Creates, Exists, Busy
<1>5. t.op = "bootstrap" => lifecycle[t.case] = Absent
  BY <1>1 DEF Exists
<1>6. PICK u \in Transaction : u = t
  BY <1>1
<1> QED
  BY <1>2, <1>3, <1>4, <1>5, <1>6, CallStep

\* A call in flight that goes on to a later step, with what it knows of the
\* row read again, keeps the invariant.
LEMMA AdvanceStep ==
  ASSUME LedgerInv, NEW w \in Worker, NEW t \in Transaction,
         tx[w].pc # "idle", tx[w].op # "bootstrap",
         tx' = [tx EXCEPT ![w] = t], UNCHANGED lock, NoEffect,
         t.case = tx[w].case, t.op = tx[w].op,
         WellFormed(t), t.pc # "insert", InTransaction(t) => ~Writes(t)
  PROVE  LedgerInv'
<1>1. \A v \in Worker : v # w /\ tx[v].pc # "idle" /\ tx[v].case = t.case
            => t.op # "bootstrap" /\ tx[v].op # "bootstrap"
  BY DEF LedgerInv, CallInv, Creates
<1> QED
  BY <1>1, CallStep DEF NoEffect

\* Every operation begins lawfully.
LEMMA BeginsPreserve ==
  ASSUME LedgerInv, NEW w \in Worker, NEW c \in Case,
         \/ Bootstrap(w, c) \/ (\E target \in Lifecycle : Transition(w, c, target))
         \/ ExecutionVerified(w, c) \/ AcceptCase(w, c) \/ RouteCase(w, c)
         \/ StartExecution(w, c) \/ Deliver(w, c) \/ Reconcile(w, c)
  PROVE  LedgerInv'
<1>0. lifecycle[c] \in Stage /\ Absent \in Stage /\ Lifecycle \subseteq Stage
  BY DEF LedgerInv, TypeOK, Stage
<1>1. CASE Bootstrap(w, c)
  <2>1. Begin(w, "append", "bootstrap", c, "INTAKE")
    BY <1>1 DEF Bootstrap
  <2>2. ~Exists(c) /\ \A v \in Busy : tx[v].case # c
    BY <1>1 DEF Bootstrap
  <2> QED
    BY <1>0, <2>1, <2>2, BeginStep, Basics DEF Op, WellFormed, InTransaction, Writes
<1>2. ASSUME NEW target \in Lifecycle, Transition(w, c, target) PROVE LedgerInv'
  <2>1. Begin(w, "update", "transition", c, target)
    BY <1>2 DEF Transition
  <2>2. Exists(c) /\ CanMove(lifecycle[c], target)
    BY <1>2 DEF Transition, TransitionAllowed
  <2> QED
    BY <1>0, <2>1, <2>2, BeginStep DEF Op, WellFormed, InTransaction, Writes
<1>3. CASE ExecutionVerified(w, c)
  <2>1. Begin(w, "update", "effect", c, "VERIFIED") /\ Exists(c)
    BY <1>3 DEF ExecutionVerified, TransitionAllowed
  <2> QED
    BY <1>0, <2>1, BeginStep DEF Op, WellFormed, InTransaction, Writes, Guarded, Lifecycle
<1>4. CASE AcceptCase(w, c)
  <2>1. Begin(w, "accept", "accept", c, "ACCEPTED") /\ Exists(c)
    BY <1>4, ConstantsAssumption DEF AcceptCase, Exists, Lifecycle
  <2> QED
    BY <1>0, <2>1, BeginStep, Basics DEF Op, WellFormed, InTransaction, Writes
<1>5. CASE RouteCase(w, c)
  <2>1. Begin(w, "append", "route", c, Absent) /\ Exists(c)
    BY <1>5 DEF RouteCase
  <2> QED
    BY <1>0, <2>1, BeginStep DEF Op, WellFormed, InTransaction, Writes
<1>6. CASE StartExecution(w, c)
  <2>1. Begin(w, "create", "start", c, Absent) /\ Exists(c)
    BY <1>6 DEF StartExecution
  <2> QED
    BY <1>0, <2>1, BeginStep DEF Op, WellFormed, InTransaction, Writes
<1>7. CASE Deliver(w, c)
  <2>1. Begin(w, "create", "deliver", c, Absent) /\ Exists(c)
    BY <1>7 DEF Deliver
  <2> QED
    BY <1>0, <2>1, BeginStep DEF Op, WellFormed, InTransaction, Writes
<1>8. CASE Reconcile(w, c)
  <2>1. Begin(w, "replay", "reconcile", c, Absent) /\ Exists(c)
    BY <1>8 DEF Reconcile
  <2> QED
    BY <1>0, <2>1, BeginStep DEF Op, WellFormed, InTransaction, Writes
<1> QED
  BY <1>1, <1>2, <1>3, <1>4, <1>5, <1>6, <1>7, <1>8

\* The reads inside a call, the guard and a failure change nothing else.
LEMMA InnerStepsPreserve ==
  ASSUME LedgerInv, NEW w \in Worker,
         \/ AcceptInner(w) \/ ReplayLedger(w) \/ GuardRejects(w)
         \/ CreateExecution(w) \/ Rollback(w)
  PROVE  LedgerInv'
<1>0. tx[w] \in Transaction /\ WellFormed(tx[w]) /\ \A c \in Case : lifecycle[c] \in Stage
  BY DEF LedgerInv, TypeOK, CallInv
<1>1. CASE AcceptInner(w)
  <2>1. CASE End(w)
    BY <1>1, <2>1, EndStep DEF AcceptInner
  <2>2. CASE ~End(w)
    <3> DEFINE t == [tx[w] EXCEPT !.pc = "update", !.seen = lifecycle[tx[w].case]]
    <3>1. tx[w].pc = "accept" /\ tx[w].op = "accept" /\ tx[w].target = "ACCEPTED" /\ tx[w].case \in Case
      BY <1>0, <1>1 DEF AcceptInner, WellFormed, InTransaction
    <3>2. CanMove(lifecycle[tx[w].case], "ACCEPTED") /\ tx' = [tx EXCEPT ![w] = t] /\ UNCHANGED lock /\ NoEffect
      BY <1>1, <2>2 DEF AcceptInner, TransitionAllowed
    <3>3. /\ t \in Transaction /\ t.pc = "update" /\ t.op = "accept" /\ t.case = tx[w].case
          /\ t.seen = lifecycle[tx[w].case] /\ t.target = "ACCEPTED"
      BY <1>0, <3>1 DEF Transaction
    <3>4. PICK u \in Transaction : u = t
      BY <3>3
    <3> QED
      BY <3>1, <3>2, <3>3, <3>4, AdvanceStep DEF WellFormed, InTransaction, Writes
  <2> QED
    BY <2>1, <2>2
<1>2. CASE ReplayLedger(w)
  <2>1. CASE End(w)
    BY <1>2, <2>1, EndStep DEF ReplayLedger
  <2>2. CASE ~End(w)
    <3> DEFINE t == [tx[w] EXCEPT !.pc = "update", !.target = Derived(tx[w].case)]
    <3>1. tx[w].pc = "replay" /\ tx[w].op = "reconcile" /\ tx[w].case \in Case
      BY <1>0, <1>2 DEF ReplayLedger, WellFormed, InTransaction
    <3>2. tx' = [tx EXCEPT ![w] = t] /\ UNCHANGED lock /\ NoEffect
      BY <1>2, <2>2 DEF ReplayLedger
    <3>3. Derived(tx[w].case) \in Stage
      BY <3>1, DerivedIsLifecycle DEF Stage
    <3>4. t \in Transaction /\ t.pc = "update" /\ t.op = "reconcile" /\ t.case = tx[w].case
      BY <1>0, <3>1, <3>3 DEF Transaction
    <3>5. PICK u \in Transaction : u = t
      BY <3>4
    <3> QED
      BY <3>1, <3>2, <3>4, <3>5, AdvanceStep DEF WellFormed, InTransaction, Writes, Guarded
  <2> QED
    BY <2>1, <2>2
<1>3. CASE GuardRejects(w)
  BY <1>3, EndStep DEF GuardRejects
<1>4. CASE CreateExecution(w)
  <2>1. CASE End(w)
    BY <1>4, <2>1, EndStep DEF CreateExecution
  <2>2. CASE ~End(w)
    <3> DEFINE t == [tx[w] EXCEPT !.pc = "append"]
    <3>1. tx[w].pc = "create" /\ tx[w].op \in {"start", "deliver"} /\ tx[w].case \in Case
      BY <1>0, <1>4 DEF CreateExecution, WellFormed, InTransaction
    <3>2. tx' = [tx EXCEPT ![w] = t] /\ UNCHANGED lock /\ NoEffect
      BY <1>4, <2>2 DEF CreateExecution
    <3>3. t \in Transaction /\ t.pc = "append" /\ t.op = tx[w].op /\ t.case = tx[w].case
      BY <1>0 DEF Transaction
    <3>4. PICK u \in Transaction : u = t
      BY <3>3
    <3> QED
      BY <3>1, <3>2, <3>3, <3>4, AdvanceStep DEF WellFormed, InTransaction, Writes
  <2> QED
    BY <2>1, <2>2
<1>5. CASE Rollback(w)
  BY <1>5, EndStep DEF Rollback
<1> QED
  BY <1>1, <1>2, <1>3, <1>4, <1>5

\* The UPDATE takes a free row lock, and the row still is as it was read.
LEMMA UpdatePreserves ==
  ASSUME LedgerInv, NEW w \in Worker, UpdateCase(w)
  PROVE  LedgerInv'
<1>1. CASE ~RowMatches(w)
  BY <1>1, EndStep DEF UpdateCase
<1>2. CASE RowMatches(w)
  <2> DEFINE t == [tx[w] EXCEPT !.pc = "append"]
  <2>1. /\ tx[w] \in Transaction /\ tx[w].pc = "update" /\ tx[w].op \in {"transition", "accept"}
        /\ tx[w].case \in Case /\ CanMove(tx[w].seen, tx[w].target)
    BY <1>2 DEF UpdateCase, LedgerInv, TypeOK, CallInv, WellFormed, MayWriteLifecycle,
                Guarded, InTransaction
  <2>2. lifecycle[tx[w].case] = tx[w].seen
    BY <1>2, <2>1 DEF RowMatches
  <2>3. /\ lock[tx[w].case] = None /\ lock' = [lock EXCEPT ![tx[w].case] = w]
        /\ tx' = [tx EXCEPT ![w] = t] /\ NoEffect
    BY <1>2 DEF UpdateCase
  <2>4. /\ t \in Transaction /\ t.pc = "append" /\ t.op = tx[w].op /\ t.case = tx[w].case
        /\ t.seen = tx[w].seen /\ t.target = tx[w].target
    BY <2>1 DEF Transaction
  <2> HIDE DEF t
  <2>5. tx'[w] = t /\ \A v \in Worker : v # w => tx'[v] = tx[v]
    BY <2>3 DEF LedgerInv, TypeOK
  <2>6. lock'[tx[w].case] = w /\ \A c \in Case : lock[c] # None => lock'[c] = lock[c]
    BY <2>1, <2>3 DEF LedgerInv, TypeOK
  <2>7. TypeOK' /\ SeqInv'
    BY <2>1, <2>3, <2>4 DEF LedgerInv, TypeOK, SeqInv, NoEffect
  <2>8. Moves' = Moves
    BY <2>3 DEF Moves, NoEffect
  <2>9. ASSUME NEW v \in Worker PROVE CallInv(v)'
    <3>1. WellFormed(tx[v])'
      BY <2>1, <2>4, <2>5 DEF LedgerInv, CallInv, WellFormed, InTransaction, Writes
    <3>2. HoldsRow(v)'
      <4>1. CASE v = w
        BY <4>1, <2>2, <2>3, <2>4, <2>5, <2>6 DEF HoldsRow, NoEffect
      <4>2. CASE v # w
        BY <4>2, <2>3, <2>5, <2>6, ConstantsAssumption
           DEF LedgerInv, CallInv, WellFormed, HoldsRow, InTransaction, Writes, NoEffect
      <4> QED
        BY <4>1, <4>2
    <3>3. Fresh(v)'
      BY <2>3, <2>4, <2>5, <2>8 DEF LedgerInv, CallInv, Fresh, Writes, NoEffect
    <3>4. Creates(v)'
      BY <2>1, <2>3, <2>4, <2>5 DEF LedgerInv, CallInv, Creates, NoEffect
    <3> QED
      BY <3>1, <3>2, <3>3, <3>4 DEF CallInv
  <2> QED
    BY <2>7, <2>9 DEF LedgerInv
<1> QED
  BY <1>1, <1>2

\* The number drawn is above every number in the ledger.
LEMMA NextTsPreserves ==
  ASSUME LedgerInv, NEW w \in Worker, NextTs(w)
  PROVE  LedgerInv'
<1> DEFINE t == [tx[w] EXCEPT !.pc = "insert", !.ts = seq + 1]
<1>1. seq \in 0..MaxTs /\ seq' = seq + 1 /\ seq' \in 0..MaxTs /\ seq' \in 1..MaxTs
  BY ConstantsAssumption DEF NextTs, LedgerInv, TypeOK
<1>2. tx[w] \in Transaction /\ tx[w].pc = "append" /\ tx' = [tx EXCEPT ![w] = t]
  BY DEF NextTs, LedgerInv, TypeOK
<1>3. /\ t \in Transaction /\ t.pc = "insert" /\ t.op = tx[w].op /\ t.case = tx[w].case
      /\ t.seen = tx[w].seen /\ t.target = tx[w].target /\ t.ts = seq + 1
  BY <1>1, <1>2 DEF Transaction
<1> HIDE DEF t
<1>4. tx'[w] = t /\ \A v \in Worker : v # w => tx'[v] = tx[v]
  BY <1>2 DEF LedgerInv, TypeOK
<1>5. UNCHANGED <<lifecycle, execution, decision, ledger, lock>> /\ Moves' = Moves
  BY DEF NextTs, Moves
<1>6. \A e \in ledger : e.ts \in 1..MaxTs
  BY DEF LedgerInv, TypeOK, Commit
<1>7. TypeOK' /\ SeqInv'
  BY <1>1, <1>2, <1>3, <1>5, <1>6, ConstantsAssumption DEF LedgerInv, TypeOK, SeqInv
<1>8. ASSUME NEW v \in Worker PROVE CallInv(v)'
  <2>1. WellFormed(tx[v])'
    BY <1>2, <1>3, <1>4 DEF LedgerInv, CallInv, WellFormed, InTransaction, Writes
  <2>2. HoldsRow(v)'
    BY <1>2, <1>3, <1>4, <1>5 DEF LedgerInv, CallInv, HoldsRow, InTransaction, Writes
  <2>3. Fresh(v)'
    <3>1. CASE v = w
      BY <3>1, <1>1, <1>3, <1>4, <1>5, <1>6 DEF LedgerInv, SeqInv, Fresh, Moves
    <3>2. CASE v # w
      <4>1. tx[v].ts \in 0..MaxTs
        BY DEF LedgerInv, TypeOK, Transaction
      <4> QED
        BY <3>2, <4>1, <1>1, <1>4, <1>5, ConstantsAssumption DEF LedgerInv, CallInv, Fresh, Writes
    <3> QED
      BY <3>1, <3>2
  <2>4. Creates(v)'
    BY <1>2, <1>3, <1>4, <1>5 DEF LedgerInv, CallInv, Creates
  <2> QED
    BY <2>1, <2>2, <2>3, <2>4 DEF CallInv
<1> QED
  BY <1>7, <1>8 DEF LedgerInv

\* The row a commit inserts is a well-typed row of the call's case; it records
\* a move exactly when the call is one that writes lifecycle.
LEMMA RowFacts ==
  ASSUME LedgerInv, NEW w \in Worker, tx[w].pc = "insert"
  PROVE  /\ Row(tx[w]) \in Commit
         /\ Row(tx[w]).ts = tx[w].ts /\ Row(tx[w]).case = tx[w].case
         /\ Row(tx[w]).from = tx[w].seen /\ Row(tx[w]).to = tx[w].target
         /\ Row(tx[w]).domain = "CASE_LIFECYCLE" <=> Writes(tx[w])
<1>1. /\ tx[w] \in Transaction /\ tx[w].case \in Case
      /\ \/ Writes(tx[w]) /\ CanMove(tx[w].seen, tx[w].target)
         \/ tx[w].op \in {"route", "start", "deliver", "bootstrap"}
  BY DEF LedgerInv, TypeOK, CallInv, WellFormed, InTransaction
<1>2. tx[w].ts \in 1..MaxTs
  BY <1>1, ConstantsAssumption DEF LedgerInv, TypeOK, CallInv, Fresh, Transaction
<1>3. Writes(tx[w]) => LedgerEvent[tx[w].target] \in Event
  BY <1>1, Basics DEF Event, Writes
<1>4. tx[w].seen \in Stage /\ tx[w].target \in Stage
  BY <1>1 DEF Transaction
<1> DEFINE row(domain, event) == [ts |-> tx[w].ts, case |-> tx[w].case, domain |-> domain,
                                  event |-> event, from |-> tx[w].seen, to |-> tx[w].target]
<1>5. CASE Writes(tx[w])
  <2>1. Row(tx[w]) = row("CASE_LIFECYCLE", LedgerEvent[tx[w].target])
    BY <1>5 DEF Row, Writes
  <2> QED
    BY <1>1, <1>2, <1>3, <1>4, <1>5, <2>1 DEF Commit
<1>6. CASE tx[w].op \in {"route", "start", "deliver", "bootstrap"}
  <2>1. {"CASE_CREATED", "ROUTED", "EXECUTION_STARTED", "EXECUTION_PROGRESS_RECORDED"} \subseteq Event
    BY DEF Event, LedgerEvent, Lifecycle
  <2>2. PICK domain \in {"CASE", "ROUTING", "EXECUTION"}, event \in Event :
          Row(tx[w]) = row(domain, event)
    <3>1. CASE tx[w].op = "route"
      BY <3>1, <2>1 DEF Row
    <3>2. CASE tx[w].op = "start"
      BY <3>2, <2>1 DEF Row
    <3>3. CASE tx[w].op = "deliver"
      BY <3>3, <2>1 DEF Row
    <3>4. CASE tx[w].op = "bootstrap"
      BY <3>4, <2>1 DEF Row
    <3> QED
      BY <1>6, <3>1, <3>2, <3>3, <3>4
  <2>3. ~Writes(tx[w])
    BY <1>6 DEF Writes
  <2> QED
    BY <1>1, <1>2, <1>4, <2>2, <2>3 DEF Commit
<1> QED
  BY <1>1, <1>5, <1>6

\* A commit writes only the case it has locked or is creating.
LEMMA CommitPreserves ==
  ASSUME LedgerInv, NEW w \in Worker, CommitTx(w)
  PROVE  LedgerInv'
<1>1. /\ tx[w].pc = "insert" /\ tx[w].case \in Case /\ tx[w] \in Transaction
      /\ \/ Writes(tx[w]) /\ CanMove(tx[w].seen, tx[w].target)
            /\ lock[tx[w].case] = w /\ lifecycle[tx[w].case] = tx[w].seen
         \/ tx[w].op \in {"route", "start", "deliver"}
         \/ tx[w].op = "bootstrap" /\ tx[w].target = "INTAKE"
  BY DEF CommitTx, LedgerInv, TypeOK, CallInv, WellFormed, HoldsRow, InTransaction
<1>2. /\ ledger' = ledger \cup {Row(tx[w])} /\ seq' = seq /\ End(w)
      /\ execution' \in {execution, execution \cup {tx[w].case}}
      /\ decision' \in {decision, decision \cup {tx[w].case}}
  BY DEF CommitTx
<1>3. lifecycle' = IF tx[w].op \in {"route", "start", "deliver"} THEN lifecycle
                   ELSE [lifecycle EXCEPT ![tx[w].case] = tx[w].target]
  BY DEF CommitTx
<1>4. tx[w].target \in Stage
  BY <1>1 DEF Transaction
<1>5. tx'[w].pc = "idle" /\ \A v \in Worker : v # w => tx'[v] = tx[v]
  BY <1>2, Basics DEF LedgerInv, TypeOK, End
<1>6. \A v \in Worker, c \in Case : v # w /\ lock[c] = v => lock'[c] = v
  BY <1>2 DEF End
<1>7. TypeOK'
  <2>1. tx' \in [Worker -> Transaction] /\ lock' \in [Case -> Worker \cup {None}]
    BY <1>2, Basics DEF LedgerInv, TypeOK, End
  <2>2. lifecycle' \in [Case -> Stage]
    BY <1>3, <1>4 DEF LedgerInv, TypeOK
  <2>3. ledger' \subseteq Commit
    BY <1>1, <1>2, RowFacts DEF LedgerInv, TypeOK
  <2> QED
    BY <1>1, <1>2, <2>1, <2>2, <2>3 DEF LedgerInv, TypeOK
<1>8. SeqInv'
  <2>1. Row(tx[w]).ts <= seq
    BY <1>1, RowFacts DEF LedgerInv, CallInv, Fresh
  <2> QED
    BY <1>2, <2>1 DEF LedgerInv, SeqInv
<1>9. ASSUME NEW v \in Worker PROVE CallInv(v)'
  <2>1. WellFormed(tx[v])'
    BY <1>5 DEF LedgerInv, CallInv, WellFormed, InTransaction, Writes
  <2>2. CASE v = w
    BY <1>5, <2>1, <2>2 DEF CallInv, HoldsRow, Fresh, Creates, InTransaction
  <2>3. CASE v # w
    <3>1. tx'[v] = tx[v] /\ WellFormed(tx[v]) /\ HoldsRow(v) /\ Fresh(v) /\ Creates(v)
      BY <1>5, <2>3 DEF LedgerInv, CallInv
    <3>2. InTransaction(tx[v]) => tx[v].case \in Case
      BY <3>1 DEF WellFormed, InTransaction
    <3>3. ASSUME InTransaction(tx[v]), Writes(tx[v])
          PROVE  tx[v].case = tx[w].case => ~Writes(tx[w]) /\ tx[w].op # "bootstrap"
      <4>1. lock[tx[v].case] = v
        BY <3>1, <3>3 DEF HoldsRow
      <4>2. tx[w].op = "bootstrap" => tx[v].case # tx[w].case
        BY <1>1, <2>3, <3>3 DEF LedgerInv, CallInv, Creates, InTransaction
      <4> QED
        BY <1>1, <2>3, <4>1, <4>2 DEF Writes
    <3>4. HoldsRow(v)'
      <4> SUFFICES ASSUME InTransaction(tx[v]), Writes(tx[v])
                   PROVE  lock'[tx[v].case] = v /\ lifecycle'[tx[v].case] = tx[v].seen
        BY <3>1 DEF HoldsRow
      <4>1. lock[tx[v].case] = v /\ lifecycle[tx[v].case] = tx[v].seen
        BY <3>1 DEF HoldsRow
      <4>2. lifecycle'[tx[v].case] = lifecycle[tx[v].case]
        BY <1>1, <1>3, <3>2, <3>3 DEF LedgerInv, TypeOK
      <4> QED
        BY <1>6, <2>3, <3>2, <4>1, <4>2
    <3>5. Fresh(v)'
      <4> SUFFICES ASSUME tx[v].pc = "insert"
                   PROVE  /\ 1 <= tx[v].ts /\ tx[v].ts <= seq
                          /\ Writes(tx[v]) =>
                               \A e \in Moves' : e.case = tx[v].case => e.ts < tx[v].ts
        BY <1>2, <3>1 DEF Fresh
      <4>1. \A e \in Moves' : e \in Moves \/ (e.case = tx[w].case /\ Writes(tx[w]))
        BY <1>1, <1>2, RowFacts DEF Moves
      <4> QED
        BY <3>1, <3>3, <4>1 DEF Fresh, InTransaction
    <3>6. Creates(v)'
      <4> SUFFICES ASSUME tx[v].pc # "idle", tx[v].op = "bootstrap"
                   PROVE  /\ lifecycle'[tx[v].case] = Absent
                          /\ \A u \in Worker : u # v /\ tx'[u].pc # "idle"
                                                => tx'[u].case # tx[v].case
        BY <3>1 DEF Creates
      <4>1. tx[w].case # tx[v].case
        BY <1>1, <2>3, <3>1 DEF Creates
      <4>2. lifecycle'[tx[v].case] = lifecycle[tx[v].case]
        BY <1>3, <4>1 DEF LedgerInv, TypeOK
      <4> QED
        BY <1>5, <3>1, <4>2 DEF Creates
    <3> QED
      BY <2>1, <3>4, <3>5, <3>6 DEF CallInv
  <2> QED
    BY <2>2, <2>3
<1> QED
  BY <1>7, <1>8, <1>9 DEF LedgerInv

-----------------------------------------------------------------------------
(* The theorems. *)

\* The invariant holds initially, and no step breaks it.
LEMMA InvInit == Init => LedgerInv
<1> SUFFICES ASSUME Init PROVE LedgerInv
  OBVIOUS
<1>1. TypeOK
  BY ConstantsAssumption, Basics DEF Init, TypeOK, Stage
<1>2. \A w \in Worker : tx[w].pc = "idle"
  BY Basics DEF Init
<1>3. SeqInv
  BY DEF Init, SeqInv
<1> QED
  BY <1>1, <1>2, <1>3 DEF LedgerInv, CallInv, WellFormed, HoldsRow, Fresh, Creates, InTransaction

LEMMA InvStep == LedgerInv /\ [Next]_vars => LedgerInv'
<1> SUFFICES ASSUME LedgerInv, [Next]_vars PROVE LedgerInv'
  OBVIOUS
<1>1. CASE UNCHANGED vars
  BY <1>1 DEF vars, LedgerInv, TypeOK, SeqInv, CallInv, WellFormed, HoldsRow, Fresh, Creates,
              InTransaction, Writes, Moves
<1>2. ASSUME NEW w \in Worker, NEW c \in Case,
             \/ Bootstrap(w, c) \/ (\E target \in Lifecycle : Transition(w, c, target))
             \/ ExecutionVerified(w, c) \/ AcceptCase(w, c) \/ RouteCase(w, c)
             \/ StartExecution(w, c) \/ Deliver(w, c) \/ Reconcile(w, c)
      PROVE  LedgerInv'
  BY <1>2, BeginsPreserve
<1>3. ASSUME NEW w \in Worker, Step(w) PROVE LedgerInv'
  BY <1>3, InnerStepsPreserve, UpdatePreserves, NextTsPreserves, CommitPreserves DEF Step
<1>4. ASSUME NEW w \in Worker, Rollback(w) PROVE LedgerInv'
  BY <1>4, InnerStepsPreserve
<1> QED
  BY <1>1, <1>2, <1>3, <1>4 DEF Next

\* The invariant holds in every reachable state.
THEOREM LedgerInvariant == Spec => []LedgerInv
BY InvInit, InvStep, PTL DEF Spec

\* Every variable always has its type; in particular Case.lifecycle always is
\* a member of the enum.
THEOREM LedgerTyping == Spec => []TypeOK
<1>1. LedgerInv => TypeOK
  BY DEF LedgerInv
<1> QED
  BY <1>1, LedgerInvariant, PTL

-----------------------------------------------------------------------------
(* The refinement. *)

Entries == {JournalEntry(e) : e \in Moves}

\* A commit is one step of the journal: a case is opened, or moved by an entry
\* above all its others, or the journal does not see it.
LEMMA CommitIsJournalStep ==
  ASSUME LedgerInv, NEW w \in Worker, CommitTx(w)
  PROVE  [Journal!Next]_(Journal!vars)
<1> DEFINE c == tx[w].case
           r == Row(tx[w])
<1>1. /\ tx[w].pc = "insert" /\ c \in Case /\ tx[w] \in Transaction
      /\ \/ Writes(tx[w]) /\ CanMove(tx[w].seen, tx[w].target) /\ lifecycle[c] = tx[w].seen
         \/ tx[w].op \in {"route", "start", "deliver"}
         \/ tx[w].op = "bootstrap" /\ tx[w].target = "INTAKE" /\ lifecycle[c] = Absent
  BY DEF CommitTx, LedgerInv, TypeOK, CallInv, WellFormed, HoldsRow, Creates, InTransaction
<1>2. /\ r.ts = tx[w].ts /\ r.case = c /\ r.from = tx[w].seen /\ r.to = tx[w].target
      /\ r \in Commit /\ (r.domain = "CASE_LIFECYCLE" <=> Writes(tx[w]))
  BY <1>1, RowFacts
<1>3. ledger' = ledger \cup {r}
  BY DEF CommitTx
<1>4. lifecycle' = IF tx[w].op \in {"route", "start", "deliver"} THEN lifecycle
                   ELSE [lifecycle EXCEPT ![c] = tx[w].target]
  BY DEF CommitTx
<1> HIDE DEF r, c
<1>5. CASE Writes(tx[w])
  <2>1. Moves' = Moves \cup {r}
    BY <1>2, <1>3, <1>5 DEF Moves
  <2>2. Entries' = Entries \cup
          {[case |-> c, n |-> tx[w].ts, from |-> lifecycle[c], to |-> tx[w].target]}
    <3>1. JournalEntry(r) = [case |-> c, n |-> tx[w].ts, from |-> lifecycle[c], to |-> tx[w].target]
      BY <1>1, <1>2, <1>5 DEF JournalEntry, Writes
    <3>2. Entries' = Entries \cup {JournalEntry(r)}
      BY <2>1 DEF Entries, JournalEntry
    <3> QED
      BY <3>1, <3>2
  <2>3. tx[w].ts \in 1..MaxTs
    BY <1>2 DEF Commit
  <2>4. \A e \in Entries : e.case = c => e.n < tx[w].ts
    <3>1. \A e \in Moves : e.case = c => e.ts < tx[w].ts
      BY <1>1, <1>5 DEF LedgerInv, CallInv, Fresh, c
    <3> QED
      BY <3>1 DEF Entries, JournalEntry
  <2>5. CanMove(lifecycle[c], tx[w].target) /\ tx[w].target \in Lifecycle
    BY <1>1, <1>5, Basics DEF Writes
  <2>6. lifecycle' = [lifecycle EXCEPT ![c] = tx[w].target]
    BY <1>4, <1>5 DEF Writes
  <2>7. Journal!Move(c, tx[w].target)
    BY <2>2, <2>3, <2>4, <2>5, <2>6 DEF Journal!Move, Journal!EntriesOf, Entries,
       CanMove, Journal!CanMove, Transitions, Journal!Transitions
  <2> QED
    BY <1>1, <2>5, <2>7 DEF Journal!Next, Lifecycle, Journal!Lifecycle
<1>6. CASE ~Writes(tx[w])
  <2>1. Moves' = Moves
    BY <1>2, <1>3, <1>6 DEF Moves
  <2>2. Entries' = Entries
    BY <2>1 DEF Entries, JournalEntry
  <2>3. CASE tx[w].op \in {"route", "start", "deliver"}
    BY <1>4, <2>2, <2>3 DEF Journal!vars, Entries
  <2>4. CASE tx[w].op = "bootstrap"
    <3>1. lifecycle' = [lifecycle EXCEPT ![c] = "INTAKE"] /\ lifecycle[c] = Absent
      BY <1>1, <1>4, <1>6, <2>4
    <3>2. Journal!Open(c)
      BY <2>2, <3>1 DEF Journal!Open, Entries
    <3> QED
      BY <1>1, <3>2 DEF Journal!Next
  <2> QED
    BY <1>1, <1>6, <2>3, <2>4
<1> QED
  BY <1>5, <1>6

\* Every step of the services is a step of the journal or leaves it alone.
LEMMA StepIsJournalStep ==
  LedgerInv /\ [Next]_vars => [Journal!Next]_(Journal!vars)
<1> SUFFICES ASSUME LedgerInv, [Next]_vars PROVE [Journal!Next]_(Journal!vars)
  OBVIOUS
<1>1. CASE UNCHANGED <<lifecycle, ledger>>
  BY <1>1 DEF Journal!vars, Moves, JournalEntry
<1>2. CASE ~UNCHANGED <<lifecycle, ledger>>
  <2>1. PICK w \in Worker : CommitTx(w)
    BY <1>2 DEF vars, Next, Step, Begin, Bootstrap, Transition, ExecutionVerified, AcceptCase,
                RouteCase, StartExecution, Deliver, Reconcile, AcceptInner, ReplayLedger,
                GuardRejects, CreateExecution, UpdateCase, NextTs, Rollback, NoEffect
  <2> QED
    BY <2>1, CommitIsJournalStep
<1> QED
  BY <1>1, <1>2

(***************************************************************************)
(* The services implement the abstract journal.                            *)
(***************************************************************************)
THEOREM LedgerImplementsJournal == Spec => ImplementsJournal
<1>1. Init => Journal!Init
  BY DEF Init, Journal!Init, Moves, JournalEntry
<1> QED
  BY <1>1, StepIsJournalStep, LedgerInvariant, PTL DEF Spec, ImplementsJournal, Journal!Spec

(***************************************************************************)
(* The TRANSITION commits of a case in ts order are the path its lifecycle *)
(* took, and the last one says where it stands.                            *)
(***************************************************************************)
THEOREM LedgerRecordsThePath == Spec => []LedgerIsThePath
<1>1. JournalProof!AbsentIsNoLifecycle
  BY ConstantsAssumption DEF JournalProof!AbsentIsNoLifecycle, JournalProof!Lifecycle, Lifecycle
<1>2. JournalProof!StampsAreNumbers
  BY ConstantsAssumption DEF JournalProof!StampsAreNumbers
<1>3. JournalProof!Spec => []JournalProof!JournalIsThePath
  BY <1>1, <1>2, JournalProof!JournalCorrect
<1>4. Journal!Init => JournalProof!Init
  BY DEF Journal!Init, JournalProof!Init
<1>5. [Journal!Next]_(Journal!vars) => [JournalProof!Next]_(JournalProof!vars)
  BY DEF Journal!Next, Journal!vars, Journal!Open, Journal!Move, Journal!EntriesOf,
         Journal!CanMove, Journal!Transitions, Journal!Lifecycle,
         JournalProof!Next, JournalProof!vars, JournalProof!Open, JournalProof!Move,
         JournalProof!EntriesOf, JournalProof!CanMove, JournalProof!Transitions,
         JournalProof!Lifecycle
<1>6. JournalProof!JournalIsThePath => LedgerIsThePath
  BY DEF LedgerIsThePath, Journal!JournalIsThePath, Journal!CanMove, Journal!Transitions,
         Journal!First, Journal!Last, Journal!Follows, Journal!EntriesOf,
         JournalProof!JournalIsThePath, JournalProof!CanMove, JournalProof!Transitions,
         JournalProof!First, JournalProof!Last, JournalProof!Follows, JournalProof!EntriesOf
<1> QED
  BY <1>3, <1>4, <1>5, <1>6, LedgerImplementsJournal, PTL
     DEF ImplementsJournal, Journal!Spec, JournalProof!Spec

-----------------------------------------------------------------------------
(* What the lifecycle, the Execution row and the ledger say of one another. *)

\* The only thing that changes a lifecycle is a step of the journal.
THEOREM LifecycleLawHolds == Spec => LifecycleLaw
<1> DEFINE Lawful == \A c \in Case :
             \/ lifecycle'[c] = lifecycle[c]
             \/ lifecycle[c] = Absent /\ lifecycle'[c] = "INTAKE"
             \/ CanMove(lifecycle[c], lifecycle'[c])
<1>1. LedgerInv /\ [Next]_vars => [Lawful]_vars
  <2> SUFFICES ASSUME LedgerInv, [Next]_vars PROVE Lawful
    OBVIOUS
  <2>1. lifecycle \in [Case -> Stage]
    BY DEF LedgerInv, TypeOK
  <2>2. [Journal!Next]_(Journal!vars)
    BY StepIsJournalStep
  <2>3. ASSUME NEW d \in Case, Journal!Open(d) PROVE Lawful
    BY <2>1, <2>3 DEF Journal!Open
  <2>4. ASSUME NEW d \in Case, NEW to \in Lifecycle, Journal!Move(d, to) PROVE Lawful
    BY <2>1, <2>4 DEF Journal!Move, Journal!CanMove, Journal!Transitions, CanMove, Transitions
  <2>5. CASE UNCHANGED Journal!vars
    BY <2>5 DEF Journal!vars
  <2> QED
    BY <2>2, <2>3, <2>4, <2>5 DEF Journal!Next, Journal!Lifecycle, Lifecycle
<1> QED
  BY <1>1, LedgerInvariant, PTL DEF Spec, LifecycleLaw

-----------------------------------------------------------------------------
(* Cases past ACCEPTED have an Execution row. *)

\* Whoever is about to write EXECUTING has seen the Execution row.
ExecutionSeen ==
  \A w \in Worker :
    tx[w].pc # "idle" /\ Writes(tx[w]) /\ tx[w].target = "EXECUTING"
      => tx[w].case \in execution

ExecutionInv == ExecutingHasExecution /\ ExecutionSeen

\* Execution rows are never deleted, and no step but the beginning of a
\* transition gives a writing call a target.
LEMMA ExecutionStep ==
  LedgerInv /\ ExecutionInv /\ [Next]_vars => ExecutionInv'
<1> SUFFICES ASSUME LedgerInv, ExecutionInv, [Next]_vars PROVE ExecutionInv'
  OBVIOUS
<1>0. /\ tx \in [Worker -> Transaction] /\ lifecycle \in [Case -> Stage]
      /\ \A w \in Worker : WellFormed(tx[w])
  BY DEF LedgerInv, TypeOK, CallInv
<1>1. execution \subseteq execution'
  BY DEF vars, Next, Step, Begin, Bootstrap, Transition, ExecutionVerified, AcceptCase,
         RouteCase, StartExecution, Deliver, Reconcile, AcceptInner, ReplayLedger,
         GuardRejects, CreateExecution, UpdateCase, NextTs, CommitTx, Rollback, NoEffect
<1>2. CASE UNCHANGED vars
  BY <1>2 DEF vars, ExecutionInv, ExecutingHasExecution, ExecutionSeen, Writes
<1>3. ASSUME NEW w \in Worker, NEW c \in Case, NEW pc, NEW op, NEW target,
             Begin(w, pc, op, c, target),
             op \in {"transition", "accept"} /\ target = "EXECUTING" => c \in execution
      PROVE  ExecutionInv'
  <2>1. /\ tx'[w].op = op /\ tx'[w].case = c /\ tx'[w].target = target
        /\ \A v \in Worker : v # w => tx'[v] = tx[v]
    BY <1>0, <1>3 DEF Begin
  <2>2. UNCHANGED <<lifecycle, execution>>
    BY <1>3 DEF Begin
  <2>3. ExecutionSeen'
    BY <1>3, <2>1, <2>2 DEF ExecutionInv, ExecutionSeen, Writes
  <2> QED
    BY <2>2, <2>3 DEF ExecutionInv, ExecutingHasExecution
<1>4. ASSUME NEW w \in Worker, UNCHANGED <<lifecycle, execution>>,
             \A v \in Worker : v # w => tx'[v] = tx[v],
             \/ tx'[w].pc = "idle" \/ ~Writes(tx'[w])
             \/ /\ tx[w].pc # "idle" /\ tx'[w].op = tx[w].op /\ tx'[w].case = tx[w].case
                /\ tx'[w].target = tx[w].target
      PROVE  ExecutionInv'
  BY <1>4 DEF ExecutionInv, ExecutionSeen, ExecutingHasExecution, Writes
<1>5. ASSUME NEW w \in Worker, End(w) PROVE tx'[w].pc = "idle" /\ \A v \in Worker : v # w => tx'[v] = tx[v]
  BY <1>0, <1>5, Basics DEF End
<1>6. ASSUME NEW w \in Worker, CommitTx(w) PROVE ExecutionInv'
  <2>1. /\ tx[w].pc = "insert" /\ tx[w].case \in Case
        /\ \/ Writes(tx[w]) /\ CanMove(tx[w].seen, tx[w].target)
              /\ lifecycle[tx[w].case] = tx[w].seen
           \/ tx[w].op \in {"route", "start", "deliver"}
           \/ tx[w].op = "bootstrap" /\ tx[w].target = "INTAKE"
    BY <1>6 DEF CommitTx, LedgerInv, CallInv, WellFormed, HoldsRow, InTransaction
  <2>2. lifecycle' = IF tx[w].op \in {"route", "start", "deliver"} THEN lifecycle
                     ELSE [lifecycle EXCEPT ![tx[w].case] = tx[w].target]
    BY <1>6 DEF CommitTx
  <2>3. ASSUME NEW c \in Case, lifecycle'[c] \in PastAcceptance PROVE c \in execution
    <3>1. CASE lifecycle'[c] = lifecycle[c]
      BY <2>3, <3>1 DEF ExecutionInv, ExecutingHasExecution
    <3>2. CASE lifecycle'[c] # lifecycle[c]
      <4>1. c = tx[w].case /\ lifecycle'[c] = tx[w].target /\ tx[w].op \notin {"route", "start", "deliver"}
        BY <1>0, <2>1, <2>2, <3>2
      <4>2. Writes(tx[w]) /\ CanMove(lifecycle[c], tx[w].target)
        BY <2>1, <2>3, <4>1 DEF PastAcceptance
      <4>3. tx[w].target = "EXECUTING" \/ lifecycle[c] \in PastAcceptance
        BY <2>3, <4>1, <4>2 DEF CanMove, Transitions, PastAcceptance
      <4> QED
        BY <2>1, <4>1, <4>2, <4>3 DEF ExecutionInv, ExecutionSeen, ExecutingHasExecution
    <3> QED
      BY <3>1, <3>2
  <2>4. tx'[w].pc = "idle" /\ \A v \in Worker : v # w => tx'[v] = tx[v]
    BY <1>5, <1>6 DEF CommitTx
  <2> QED
    BY <1>1, <2>3, <2>4 DEF ExecutionInv, ExecutingHasExecution, ExecutionSeen, Writes
<1>7. ASSUME NEW w \in Worker, NEW c \in Case,
             \/ Bootstrap(w, c) \/ (\E target \in Lifecycle : Transition(w, c, target))
             \/ ExecutionVerified(w, c) \/ AcceptCase(w, c) \/ RouteCase(w, c)
             \/ StartExecution(w, c) \/ Deliver(w, c) \/ Reconcile(w, c)
      PROVE  ExecutionInv'
  BY <1>3, <1>7 DEF Bootstrap, Transition, TransitionAllowed, ExecutionVerified, AcceptCase,
                    RouteCase, StartExecution, Deliver, Reconcile
<1>8. ASSUME NEW w \in Worker, Step(w) \/ Rollback(w), ~CommitTx(w) PROVE ExecutionInv'
  <2>1. UNCHANGED <<lifecycle, execution>>
    BY <1>8 DEF Step, AcceptInner, ReplayLedger, GuardRejects, CreateExecution, UpdateCase,
                NextTs, Rollback, NoEffect
  <2>2. CASE End(w)
    BY <1>4, <1>5, <2>1, <2>2
  <2>3. CASE ~End(w)
    <3>1. \A v \in Worker : v # w => tx'[v] = tx[v]
      BY <1>0, <1>8, <2>3 DEF Step, AcceptInner, ReplayLedger, GuardRejects, CreateExecution,
                              UpdateCase, NextTs, Rollback
    <3>2. CASE ReplayLedger(w)
      <4>1. tx[w].op = "reconcile"
        BY <1>0, <3>2 DEF ReplayLedger, WellFormed, InTransaction
      <4>2. tx'[w].op = tx[w].op
        BY <1>0, <2>3, <3>2 DEF ReplayLedger, Transaction
      <4> QED
        BY <1>4, <2>1, <3>1, <4>1, <4>2 DEF Writes
    <3>3. CASE ~ReplayLedger(w)
      <4>1. /\ tx[w].pc # "idle" /\ tx'[w].op = tx[w].op /\ tx'[w].case = tx[w].case
            /\ tx'[w].target = tx[w].target
        BY <1>0, <1>8, <2>3, <3>3
           DEF Step, AcceptInner, GuardRejects, CreateExecution, UpdateCase, NextTs, Rollback,
               Transaction
      <4> QED
        BY <1>4, <2>1, <3>1, <4>1
    <3> QED
      BY <3>2, <3>3
  <2> QED
    BY <2>2, <2>3
<1> QED
  BY <1>2, <1>6, <1>7, <1>8 DEF Next

(***************************************************************************)
(* A case past ACCEPTED has an Execution row.                              *)
(***************************************************************************)
THEOREM ExecutionExists == Spec => []ExecutingHasExecution
<1>1. Init => ExecutionInv
  BY Basics, ConstantsAssumption
     DEF Init, ExecutionInv, ExecutingHasExecution, ExecutionSeen, PastAcceptance, Lifecycle
<1>2. ExecutionInv => ExecutingHasExecution
  BY DEF ExecutionInv
<1> QED
  BY <1>1, <1>2, ExecutionStep, LedgerInvariant, PTL DEF Spec

-----------------------------------------------------------------------------
(* Sequence numbers are never shared, and creation comes first. *)

\* No two commits, and no commit and call in flight, have the same number.
NumbersUnique ==
  /\ \A e, d \in ledger : e.ts = d.ts => e = d
  /\ \A w \in Worker : tx[w].pc = "insert" =>
       /\ \A e \in ledger : e.ts # tx[w].ts
       /\ \A v \in Worker : v # w /\ tx[v].pc = "insert" => tx[v].ts # tx[w].ts

\* d announces the creation of c, before all else that is or will be said of c.
Announces(d, c) ==
  /\ d.case = c /\ d.event = "CASE_CREATED"
  /\ \A x \in CommitsOf(c) : x = d \/ (d.ts < x.ts /\ x.event # "CASE_CREATED")
  /\ \A w \in Worker : tx[w].pc = "insert" /\ tx[w].case = c => d.ts < tx[w].ts

\* Only cases that exist are spoken of, and those have been announced.
Announced ==
  /\ \A c \in Case : ~Exists(c) => CommitsOf(c) = {}
  /\ \A c \in Case : Exists(c) => \E d \in ledger : Announces(d, c)
  /\ \A w \in Worker : tx[w].pc # "idle" /\ tx[w].op # "bootstrap" => Exists(tx[w].case)

\* The moves in the ledger carry the event of the state they lead to.
MovesAreNamed == \A e \in Moves : e.to \in Lifecycle /\ e.event = LedgerEvent[e.to]

HistoryInv == NumbersUnique /\ Announced /\ MovesAreNamed

\* What any step but a commit and a draw does to the calls in flight.
LEMMA OtherSteps ==
  ASSUME LedgerInv, [Next]_vars, \A w \in Worker : ~NextTs(w) /\ ~CommitTx(w)
  PROVE  /\ UNCHANGED <<lifecycle, ledger>>
         /\ \A w \in Worker :
              /\ tx'[w].pc = "insert" => tx'[w] = tx[w]
              /\ tx'[w].pc # "idle" /\ tx'[w].op # "bootstrap" =>
                   \/ tx[w].pc # "idle" /\ tx'[w].op = tx[w].op /\ tx'[w].case = tx[w].case
                   \/ Exists(tx'[w].case)
<1>0. tx \in [Worker -> Transaction]
  BY DEF LedgerInv, TypeOK
<1>1. UNCHANGED <<lifecycle, ledger>>
  BY DEF vars, Next, Step, Begin, Bootstrap, Transition, ExecutionVerified, AcceptCase,
         RouteCase, StartExecution, Deliver, Reconcile, AcceptInner, ReplayLedger,
         GuardRejects, CreateExecution, UpdateCase, Rollback, NoEffect
<1> DEFINE Same(w) ==
      /\ tx'[w].pc = "insert" => tx'[w] = tx[w]
      /\ tx'[w].pc # "idle" /\ tx'[w].op # "bootstrap" =>
           \/ tx[w].pc # "idle" /\ tx'[w].op = tx[w].op /\ tx'[w].case = tx[w].case
           \/ Exists(tx'[w].case)
<1>2. CASE UNCHANGED vars
  BY <1>1, <1>2 DEF vars
<1>3. ASSUME NEW w \in Worker, End(w) PROVE \A v \in Worker : Same(v)
  BY <1>0, <1>3, Basics DEF End
<1>4. ASSUME NEW w \in Worker, NEW c \in Case, NEW pc \in {"accept", "replay", "update", "create", "append"},
             NEW op, NEW target, Begin(w, pc, op, c, target), op = "bootstrap" \/ Exists(c)
      PROVE  \A v \in Worker : Same(v)
  BY <1>0, <1>4 DEF Begin
<1>5. ASSUME NEW w \in Worker, NEW c \in Case,
             \/ Bootstrap(w, c) \/ (\E target \in Lifecycle : Transition(w, c, target))
             \/ ExecutionVerified(w, c) \/ AcceptCase(w, c) \/ RouteCase(w, c)
             \/ StartExecution(w, c) \/ Deliver(w, c) \/ Reconcile(w, c)
      PROVE  \A v \in Worker : Same(v)
  <2>1. AcceptCase(w, c) => Exists(c)
    BY ConstantsAssumption DEF AcceptCase, Exists, Lifecycle
  <2> QED
    BY <1>4, <1>5, <2>1 DEF Bootstrap, Transition, TransitionAllowed, ExecutionVerified, AcceptCase,
                      RouteCase, StartExecution, Deliver, Reconcile
<1>6. ASSUME NEW w \in Worker, Step(w) \/ Rollback(w) PROVE \A v \in Worker : Same(v)
  <2>1. CASE End(w)
    BY <1>3, <2>1
  <2>2. CASE ~End(w)
    BY <1>0, <1>6, <2>2 DEF Step, AcceptInner, ReplayLedger, GuardRejects, CreateExecution,
                            UpdateCase, Rollback, Transaction
  <2> QED
    BY <2>1, <2>2
<1> QED
  BY <1>1, <1>2, <1>5, <1>6 DEF Next

\* A step that draws no number and commits nothing tells nothing new.
LEMMA HistoryOther ==
  ASSUME LedgerInv, HistoryInv, [Next]_vars, \A w \in Worker : ~NextTs(w) /\ ~CommitTx(w)
  PROVE  HistoryInv'
<1>1. UNCHANGED <<lifecycle, ledger>>
  BY OtherSteps
<1>2. \A w \in Worker :
        /\ tx'[w].pc = "insert" => tx'[w] = tx[w]
        /\ tx'[w].pc # "idle" /\ tx'[w].op # "bootstrap" =>
             \/ tx[w].pc # "idle" /\ tx'[w].op = tx[w].op /\ tx'[w].case = tx[w].case
             \/ Exists(tx'[w].case)
  BY OtherSteps
<1>3. NumbersUnique'
  BY <1>1, <1>2 DEF HistoryInv, NumbersUnique
<1>4. Announced'
  <2>1. \A d, c : Announces(d, c) => Announces(d, c)'
    BY <1>1, <1>2 DEF Announces, CommitsOf
  <2>2. \A c : Exists(c)' <=> Exists(c)
    BY <1>1 DEF Exists
  <2>3. \A c : CommitsOf(c)' = CommitsOf(c)
    BY <1>1 DEF CommitsOf
  <2>4. \A w \in Worker : tx'[w].pc # "idle" /\ tx'[w].op # "bootstrap" => Exists(tx'[w].case)
    BY <1>2 DEF HistoryInv, Announced
  <2> QED
    BY <1>1, <2>1, <2>2, <2>3, <2>4 DEF HistoryInv, Announced, Exists
<1>5. MovesAreNamed'
  BY <1>1 DEF HistoryInv, MovesAreNamed, Moves
<1> QED
  BY <1>3, <1>4, <1>5 DEF HistoryInv

\* A number drawn is above all there are.
LEMMA HistoryNextTs ==
  ASSUME LedgerInv, HistoryInv, NEW w \in Worker, NextTs(w)
  PROVE  HistoryInv'
<1>1. /\ tx[w].pc = "append" /\ tx'[w].ts = seq + 1 /\ tx'[w].op = tx[w].op
      /\ tx'[w].case = tx[w].case /\ \A v \in Worker : v # w => tx'[v] = tx[v]
  BY DEF NextTs, LedgerInv, TypeOK, Transaction
<1>2. UNCHANGED <<lifecycle, ledger>>
  BY DEF NextTs
<1>3. /\ seq \in Nat /\ \A e \in ledger : e.ts \in Nat /\ e.ts <= seq
      /\ \A v \in Worker : tx[v].ts \in Nat /\ (tx[v].pc = "insert" => tx[v].ts <= seq)
  BY ConstantsAssumption DEF LedgerInv, TypeOK, SeqInv, Commit, CallInv, Fresh, Transaction
<1>4. NumbersUnique'
  BY <1>1, <1>2, <1>3 DEF HistoryInv, NumbersUnique
<1>5. Announced'
  <2>1. \A c : \A d \in ledger : Announces(d, c) => Announces(d, c)'
    BY <1>1, <1>2, <1>3 DEF Announces, CommitsOf
  <2>2. \A c : Exists(c)' <=> Exists(c)
    BY <1>2 DEF Exists
  <2>3. \A c : CommitsOf(c)' = CommitsOf(c)
    BY <1>2 DEF CommitsOf
  <2>4. \A v \in Worker : tx'[v].pc # "idle" /\ tx'[v].op # "bootstrap" => Exists(tx'[v].case)
    BY <1>1 DEF HistoryInv, Announced
  <2> QED
    BY <1>2, <2>1, <2>2, <2>3, <2>4 DEF HistoryInv, Announced, Exists
<1>6. MovesAreNamed'
  BY <1>2 DEF HistoryInv, MovesAreNamed, Moves
<1> QED
  BY <1>4, <1>5, <1>6 DEF HistoryInv

\* The event of a row: a bootstrap announces its case, no other call does, and
\* a move is named after its target.
LEMMA RowEvent ==
  ASSUME LedgerInv, NEW w \in Worker, tx[w].pc = "insert"
  PROVE  /\ Row(tx[w]).event = "CASE_CREATED" <=> tx[w].op = "bootstrap"
         /\ Writes(tx[w]) => Row(tx[w]).event = LedgerEvent[tx[w].target]
                            /\ tx[w].target \in Lifecycle
<1>1. \/ Writes(tx[w]) /\ CanMove(tx[w].seen, tx[w].target)
      \/ tx[w].op \in {"route", "start", "deliver", "bootstrap"}
  BY DEF LedgerInv, CallInv, WellFormed, InTransaction
<1>2. CASE Writes(tx[w])
  <2>1. Row(tx[w]).event = LedgerEvent[tx[w].target]
    BY <1>2 DEF Row, Writes
  <2>2. tx[w].target \in Lifecycle \ {"INTAKE"}
    BY <1>1, <1>2 DEF Writes, CanMove, Transitions, Lifecycle
  <2>3. \A s \in Lifecycle \ {"INTAKE"} : LedgerEvent[s] # "CASE_CREATED"
    BY DEF LedgerEvent, Lifecycle
  <2> QED
    BY <1>2, <2>1, <2>2, <2>3 DEF Writes
<1>3. CASE tx[w].op = "route"
  BY <1>3 DEF Row, Writes
<1>4. CASE tx[w].op = "start"
  BY <1>4 DEF Row, Writes
<1>5. CASE tx[w].op = "deliver"
  BY <1>5 DEF Row, Writes
<1>6. CASE tx[w].op = "bootstrap"
  BY <1>6 DEF Row, Writes
<1> QED
  BY <1>1, <1>2, <1>3, <1>4, <1>5, <1>6

\* A commit adds one row with a number of its own, after the creation of its
\* case or as that creation.
LEMMA HistoryCommit ==
  ASSUME LedgerInv, HistoryInv, NEW w \in Worker, CommitTx(w)
  PROVE  HistoryInv'
<1>1. /\ tx[w].pc = "insert" /\ tx[w].case \in Case
      /\ ledger' = ledger \cup {Row(tx[w])}
      /\ tx'[w].pc = "idle" /\ \A v \in Worker : v # w => tx'[v] = tx[v]
  BY Basics DEF CommitTx, End, LedgerInv, TypeOK, CallInv, WellFormed
<1>2. PICK r, k : r = Row(tx[w]) /\ k = tx[w].case
  OBVIOUS
<1>3. /\ r.ts = tx[w].ts /\ r.case = k /\ k \in Case /\ r.to = tx[w].target /\ r \in Commit
      /\ r.domain = "CASE_LIFECYCLE" <=> Writes(tx[w])
      /\ r.event = "CASE_CREATED" <=> tx[w].op = "bootstrap"
      /\ Writes(tx[w]) => r.event = LedgerEvent[tx[w].target] /\ tx[w].target \in Lifecycle
  BY <1>1, <1>2, RowFacts, RowEvent
<1>4. ledger' = ledger \cup {r}
  BY <1>1, <1>2
<1>5. NumbersUnique'
  BY <1>1, <1>3, <1>4 DEF HistoryInv, NumbersUnique
<1>6. MovesAreNamed'
  BY <1>3, <1>4 DEF HistoryInv, MovesAreNamed, Moves
<1>7. lifecycle' = IF tx[w].op \in {"route", "start", "deliver"} THEN lifecycle
                   ELSE [lifecycle EXCEPT ![k] = tx[w].target]
  BY <1>2 DEF CommitTx
<1>8. /\ Writes(tx[w]) => tx[w].target # Absent
      /\ tx[w].op = "bootstrap" => tx[w].target = "INTAKE"
      /\ tx[w].op \in {"route", "start", "deliver", "bootstrap"} \/ Writes(tx[w])
  BY <1>1, <1>3, ConstantsAssumption DEF LedgerInv, CallInv, WellFormed, InTransaction, Writes
<1>9. Exists(k)' /\ \A c \in Case : c # k => (Exists(c)' <=> Exists(c))
  <2>1. tx[w].op \in {"route", "start", "deliver"} => Exists(k)
    BY <1>1, <1>2 DEF HistoryInv, Announced
  <2>2. "INTAKE" # Absent
    BY ConstantsAssumption DEF Lifecycle
  <2> QED
    BY <1>3, <1>7, <1>8, <2>1, <2>2 DEF Exists, LedgerInv, TypeOK
<1>10. \A c \in Case : c # k => CommitsOf(c)' = CommitsOf(c)
  BY <1>3, <1>4 DEF CommitsOf
<1>11. CommitsOf(k)' = CommitsOf(k) \cup {r}
  BY <1>3, <1>4 DEF CommitsOf
<1>12. \A v \in Worker : tx'[v].pc # "idle" => v # w /\ tx'[v] = tx[v]
  BY <1>1
<1>13. ASSUME NEW c \in Case, Exists(c)' PROVE \E d \in ledger' : Announces(d, c)'
  <2>1. CASE c # k
    <3>1. PICK d \in ledger : Announces(d, c)
      BY <1>9, <1>13, <2>1 DEF HistoryInv, Announced
    <3>2. Announces(d, c)'
      BY <1>10, <1>12, <2>1, <3>1 DEF Announces
    <3> QED
      BY <1>4, <3>2
  <2>2. CASE c = k /\ tx[w].op # "bootstrap"
    <3>1. Exists(c)
      BY <1>1, <1>2, <2>2 DEF HistoryInv, Announced
    <3>2. PICK d \in ledger : Announces(d, c)
      BY <3>1 DEF HistoryInv, Announced
    <3>3. d.ts < r.ts /\ r.event # "CASE_CREATED"
      BY <1>1, <1>2, <1>3, <2>2, <3>2 DEF Announces
    <3>4. Announces(d, c)'
      BY <1>11, <1>12, <2>2, <3>2, <3>3 DEF Announces
    <3> QED
      BY <1>4, <3>4
  <2>3. CASE c = k /\ tx[w].op = "bootstrap"
    <3>1. ~Exists(c) /\ \A v \in Worker : v # w /\ tx[v].pc # "idle" => tx[v].case # c
      BY <1>1, <1>2, <2>3 DEF LedgerInv, CallInv, Creates, Exists
    <3>2. CommitsOf(c) = {}
      BY <3>1 DEF HistoryInv, Announced
    <3>3. Announces(r, c)'
      BY <1>3, <1>11, <1>12, <2>3, <3>1, <3>2 DEF Announces
    <3> QED
      BY <1>4, <3>3
  <2> QED
    BY <2>1, <2>2, <2>3
<1>14. \A c \in Case : ~Exists(c)' => CommitsOf(c)' = {}
  BY <1>9, <1>10 DEF HistoryInv, Announced
<1>15. (\A v \in Worker : tx[v].pc # "idle" /\ tx[v].op # "bootstrap" => Exists(tx[v].case))'
  <2> SUFFICES ASSUME NEW v \in Worker, tx'[v].pc # "idle", tx'[v].op # "bootstrap"
               PROVE  lifecycle'[tx[v].case] # Absent
    BY <1>12 DEF Exists
  <2>1. tx[v].pc # "idle" /\ Exists(tx[v].case)
    BY <1>12 DEF HistoryInv, Announced
  <2>2. tx[v].case \in Case
    BY <2>1 DEF LedgerInv, CallInv, WellFormed
  <2> QED
    BY <1>9, <2>1, <2>2 DEF Exists
<1>16. Announced'
  BY <1>13, <1>14, <1>15 DEF Announced
<1> QED
  BY <1>5, <1>6, <1>16 DEF HistoryInv

\* The history facts hold in every reachable state.
LEMMA HistoryInvariant == Spec => []HistoryInv
<1>1. Init => HistoryInv
  BY Basics DEF Init, HistoryInv, NumbersUnique, Announced, MovesAreNamed, Moves, CommitsOf, Exists
<1>2. LedgerInv /\ HistoryInv /\ [Next]_vars => HistoryInv'
  BY HistoryOther, HistoryNextTs, HistoryCommit
<1> QED
  BY <1>1, <1>2, LedgerInvariant, PTL DEF Spec

(***************************************************************************)
(* The first thing the ledger says of a case is that it was created.       *)
(***************************************************************************)
THEOREM CreationComesFirst == Spec => []CreationIsFirst
<1>1. LedgerInv /\ HistoryInv => CreationIsFirst
  <2> SUFFICES ASSUME LedgerInv, HistoryInv, NEW e \in ledger
               PROVE  \E d \in ledger :
                        /\ d.case = e.case /\ d.event = "CASE_CREATED"
                        /\ \A x \in CommitsOf(e.case) :
                             x = d \/ (d.ts < x.ts /\ x.event # "CASE_CREATED")
    BY DEF CreationIsFirst
  <2>1. e.case \in Case /\ e \in CommitsOf(e.case)
    BY DEF LedgerInv, TypeOK, Commit, CommitsOf
  <2>2. Exists(e.case)
    BY <2>1 DEF HistoryInv, Announced
  <2>3. PICK d \in ledger : Announces(d, e.case)
    BY <2>1, <2>2 DEF HistoryInv, Announced
  <2> QED
    BY <2>3 DEF Announces
<1> QED
  BY <1>1, HistoryInvariant, LedgerInvariant, PTL

(***************************************************************************)
(* Right after a transition into a state replay knows, replay agrees with  *)
(* the row.                                                                *)
(***************************************************************************)
THEOREM ReplayAfterTransition == Spec => []ReplayRebuildsKnownStates
<1>1. LedgerInv /\ HistoryInv /\ LedgerIsThePath => ReplayRebuildsKnownStates
  <2> SUFFICES ASSUME LedgerInv, HistoryInv, LedgerIsThePath,
                      NEW c \in Case, LastIsTransition(c), lifecycle[c] \in ReplayKnows
               PROVE  Derived(c) = lifecycle[c]
    BY DEF ReplayRebuildsKnownStates
  <2>1. PICK e \in CommitsOf(c) :
          e.domain = "CASE_LIFECYCLE" /\ \A d \in CommitsOf(c) : d.ts <= e.ts
    BY DEF LastIsTransition
  <2>2. e \in Moves /\ e.case = c
    BY <2>1 DEF Moves, CommitsOf
  <2>3. lifecycle[c] = e.to
    <3>1. JournalEntry(e) \in Entries /\ JournalEntry(e).case = c /\ JournalEntry(e).to = e.to
      BY <2>2 DEF Entries, JournalEntry
    <3>2. \A x \in Entries : x.case = c => x.n <= JournalEntry(e).n
      BY <2>1 DEF Entries, JournalEntry, Moves, CommitsOf
    <3> QED
      BY <3>1, <3>2 DEF LedgerIsThePath, Journal!JournalIsThePath, Journal!Last, Entries
  <2>4. e.event = LedgerEvent[lifecycle[c]]
    BY <2>2, <2>3 DEF HistoryInv, MovesAreNamed
  <2>5. \A s \in ReplayKnows : /\ LedgerEvent[s] \in DOMAIN ReplayEffect
                              /\ ReplayEffect[LedgerEvent[s]] = s
    BY DEF ReplayKnows, LedgerEvent, ReplayEffect
  <2> DEFINE effective == {x \in CommitsOf(c) : x.event \in DOMAIN ReplayEffect}
             last == {x \in effective : \A d \in effective : d.ts <= x.ts}
  <2>6. e \in effective
    BY <2>4, <2>5
  <2>7. ASSUME NEW x \in last PROVE x = e
    <3>1. x \in ledger /\ e \in ledger /\ x.ts \in Nat /\ e.ts \in Nat /\ e.ts <= x.ts /\ x.ts <= e.ts
      BY <2>1, <2>6 DEF CommitsOf, LedgerInv, TypeOK, Commit
    <3> QED
      BY <3>1 DEF HistoryInv, NumbersUnique
  <2>8. last = {e}
    BY <2>1, <2>6, <2>7
  <2>9. Derived(c) = ReplayEffect[e.event]
    BY <2>8 DEF Derived
  <2> QED
    BY <2>4, <2>5, <2>9
<1> QED
  BY <1>1, HistoryInvariant, LedgerInvariant, LedgerRecordsThePath, PTL

(***************************************************************************)
(* deriveLifecycleFromLedger(), the loop over the SELECT ordered by ts,    *)
(* returns what the last commit with an effect says, of every ledger the   *)
(* services write.                                                         *)
(***************************************************************************)
THEOREM ReplayLoopIsDerived == Spec => []ReplayIsByLastEffect
<1>1. LedgerInv /\ HistoryInv => ReplayIsByLastEffect
  <2> SUFFICES ASSUME LedgerInv, HistoryInv, NEW c \in Case
               PROVE  deriveLifecycleFromLedger(EventsOf(c)) = Derived(c)
    BY DEF ReplayIsByLastEffect
  <2>1. PICK S : S = CommitsOf(c)
    OBVIOUS
  <2>2. S \subseteq Commit /\ \A d, e \in S : d.ts = e.ts => d = e
    BY <2>1 DEF LedgerInv, TypeOK, CommitsOf, HistoryInv, NumbersUnique
  <2>3. \A e \in S : e.ts \in 1..MaxTs
    BY <2>2 DEF Commit
  <2>4. PICK key : key = [e \in S |-> e.ts]
    OBVIOUS
  <2>5. KeysDiffer(S, key)
    BY <2>2, <2>3, <2>4 DEF KeysDiffer
  <2>6. IsFiniteSet(S)
    <3>1. key \in [S -> 1..MaxTs] /\ DOMAIN key = S
      BY <2>3, <2>4
    <3>2. key \in Injection(S, 1..MaxTs)
      BY <2>5, <3>1 DEF Injection, IsInjective, KeysDiffer
    <3>3. IsFiniteSet(1..MaxTs)
      BY ConstantsAssumption, FS_Interval
    <3> QED
      BY <3>2, <3>3, FS_Injection
  <2>7. PICK rank : rank = RankBy(S, key)
    OBVIOUS
  <2>8. PICK n : n = Cardinality(S)
    OBVIOUS
  <2>9. Numbering(S, key, rank, n)
    BY <2>5, <2>6, <2>7, <2>8, Ranking
  <2>10. PICK row : row = [i \in 1..n |-> CHOOSE e \in S : Cardinality({ d \in S : d.ts <= e.ts }) = i]
    OBVIOUS
  <2>11. \A i \in 1..n : row[i] \in S /\ rank[row[i]] = i
    <3>1. ASSUME NEW e \in S PROVE rank[e] = Cardinality({ d \in S : d.ts <= e.ts })
      <4>1. { d \in S : key[d] <= key[e] } = { d \in S : d.ts <= e.ts }
        BY <2>4
      <4> QED
        BY <2>7, <4>1 DEF RankBy
    <3>2. \A i \in 1..n : \E e \in S : Cardinality({ d \in S : d.ts <= e.ts }) = i
      BY <2>9, <3>1 DEF Numbering
    <3>3. \A i \in 1..n : row[i] \in S /\ Cardinality({ d \in S : d.ts <= row[i].ts }) = i
      BY <2>10, <3>2
    <3> QED
      BY <3>1, <3>3
  <2>12. \A d, e \in S : rank[d] <= rank[e] => d.ts <= e.ts
    <3>1. \A d \in S : key[d] = d.ts /\ key[d] \in Int /\ rank[d] \in Int
      BY <2>3, <2>4, <2>9 DEF Numbering
    <3> QED
      BY <2>4, <2>9, <3>1 DEF Numbering
  <2>13. \A e \in S : row[rank[e]] = e
    <3> SUFFICES ASSUME NEW e \in S PROVE row[rank[e]] = e
      OBVIOUS
    <3>1. row[rank[e]] \in S /\ rank[row[rank[e]]] = rank[e] /\ rank[e] \in Int
      BY <2>9, <2>11 DEF Numbering
    <3>2. row[rank[e]].ts <= e.ts /\ e.ts <= row[rank[e]].ts
      BY <2>12, <3>1
    <3> QED
      BY <2>2, <2>3, <3>1, <3>2
  <2>14. PICK events : events = EventsOf(c)
    OBVIOUS
  <2>15. DOMAIN events = 1..n /\ \A i \in 1..n : events[i] = row[i].event
    BY <2>1, <2>8, <2>10, <2>14 DEF EventsOf
  <2>16. deriveLifecycleFromLedger(events) = ByLast(events, 1..n)
    BY <2>9, <2>15, ReplayByLastEffect DEF Numbering
  <2>17. PICK told : told = Effective(events, 1..n)
    OBVIOUS
  <2>18. told \subseteq 1..n /\ \A e \in S : e.event \in DOMAIN ReplayEffect <=> rank[e] \in told
    BY <2>9, <2>13, <2>15, <2>17 DEF Effective, Numbering
  <2> DEFINE effective == { e \in CommitsOf(c) : e.event \in DOMAIN ReplayEffect }
             last == { e \in effective : \A d \in effective : d.ts <= e.ts }
  <2>19. CASE told = {}
    <3>1. last = {}
      BY <2>1, <2>18, <2>19
    <3> QED
      BY <2>14, <2>16, <2>17, <2>19, <3>1 DEF ByLast, Derived
  <2>20. CASE told # {}
    <3>1. PICK top : top = Max(told)
      OBVIOUS
    <3>2. top \in told /\ \A i \in told : i <= top
      <4>1. told \subseteq Nat /\ \A i \in told : i <= n
        BY <2>9, <2>18 DEF Numbering
      <4> QED
        BY <2>9, <2>20, <3>1, <4>1, GreatestNumber DEF Numbering
    <3>3. top \in 1..n /\ row[top] \in S /\ rank[row[top]] = top /\ events[top] = row[top].event
      BY <2>11, <2>15, <2>18, <3>2
    <3>4. row[top] \in effective
      BY <2>1, <2>18, <3>2, <3>3
    <3>5. \A d \in effective : d.ts <= row[top].ts
      BY <2>1, <2>12, <2>18, <3>2, <3>3
    <3>6. \A x \in last : x = row[top]
      <4> SUFFICES ASSUME NEW x \in last PROVE x = row[top]
        OBVIOUS
      <4>1. x \in S /\ x.ts <= row[top].ts /\ row[top].ts <= x.ts
        BY <2>1, <3>4, <3>5
      <4> QED
        BY <2>2, <2>3, <3>3, <4>1
    <3>7. last = {row[top]}
      BY <3>4, <3>5, <3>6
    <3>8. Derived(c) = ReplayEffect[row[top].event]
      BY <3>7 DEF Derived
    <3> QED
      BY <2>14, <2>16, <2>17, <2>20, <3>1, <3>3, <3>8 DEF ByLast
  <2> QED
    BY <2>19, <2>20
<1> QED
  BY <1>1, HistoryInvariant, LedgerInvariant, PTL
=============================================================================
