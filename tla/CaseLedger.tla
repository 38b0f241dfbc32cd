----------------------------- MODULE CaseLedger -----------------------------
(***************************************************************************)
(* The lifecycle of a tenant's cases and the ledger that records it, as    *)
(* the services that write them run: each service call is an interactive   *)
(* PostgreSQL transaction at READ COMMITTED, its statements interleaved    *)
(* with those of the other calls in flight.                                *)
(*                                                                         *)
(* A statement that reads sees what is committed.  An UPDATE of a Case row *)
(* waits for the row lock, re-evaluates its WHERE clause and keeps the     *)
(* lock until the transaction ends.  nextval() is not transactional: a     *)
(* number taken by a transaction that rolls back is never given again.     *)
(* What a transaction wrote becomes visible when it commits.               *)
(***************************************************************************)
EXTENDS CaseLifecycle, Integers, FiniteSets

CONSTANTS
  Case,       \* cases of one tenant, created or still to be created
  Worker,     \* calls that may be in flight at once
  Assigned,   \* cases with a CaseAssignment row (written only by provisioning)
  MaxTs,      \* bound on ledger_global_seq
  MaxShared,  \* bound: calls begin next to others while ledger_global_seq is below it
  Absent,     \* the lifecycle of a case that has no row yet
  None        \* no worker, no case

ASSUME ConstantsAssumption ==
  /\ Assigned \subseteq Case
  /\ MaxTs \in Nat /\ MaxShared \in Nat
  /\ Absent \notin Lifecycle
  /\ None \notin Worker \cup Case

VARIABLES
  lifecycle,  \* Case.lifecycle, or Absent
  execution,  \* cases with an Execution row
  decision,   \* cases with a RoutingDecision row
  ledger,     \* the committed LedgerCommit rows
  seq,        \* the last value drawn from ledger_global_seq
  lock,       \* the worker holding the lock of each Case row
  tx          \* what each worker's transaction has read and is about to do

vars == <<lifecycle, execution, decision, ledger, seq, lock, tx>>

Stage == Lifecycle \cup {Absent}

Op == {"none", "bootstrap", "transition", "effect", "accept", "route",
       "start", "deliver", "reconcile"}

\* The LedgerEventType values these services write.
Event ==
  {LedgerEvent[s] : s \in Lifecycle} \cup
  {"EXECUTION_PROGRESS_RECORDED", "LIFECYCLE_REPAIRED"}

Commit ==
  [ts: 1..MaxTs, case: Case, domain: {"CASE", "CASE_LIFECYCLE", "ROUTING", "EXECUTION"},
   event: Event, from: Stage, to: Stage]

Transaction ==
  [pc: {"idle", "accept", "replay", "update", "create", "append", "insert"}, op: Op,
   case: Case \cup {None}, seen: Stage, target: Stage, ts: 0..MaxTs]

Idle == [pc |-> "idle", op |-> "none", case |-> None,
         seen |-> Absent, target |-> Absent, ts |-> 0]

Exists(c) == lifecycle[c] # Absent

CommitsOf(c) == {e \in ledger : e.case = c}

(***************************************************************************)
(* deriveLifecycleFromLedger() replays every commit of the case in ts      *)
(* order.  An arm either assigns a constant or does nothing, so the last   *)
(* commit with an effect decides (LedgerReplay checks this against the     *)
(* fold over the ordered events that the code writes).                     *)
(***************************************************************************)
Derived(c) ==
  LET effective == {e \in CommitsOf(c) : e.event \in DOMAIN ReplayEffect}
      last == {e \in effective : \A d \in effective : d.ts <= e.ts}
  IN  IF last = {} THEN "INTAKE" ELSE ReplayEffect[(CHOOSE e \in last : TRUE).event]

Init ==
  /\ lifecycle = [c \in Case |-> Absent]
  /\ execution = {}
  /\ decision = {}
  /\ ledger = {}
  /\ seq = 0
  /\ lock = [c \in Case |-> None]
  /\ tx = [w \in Worker |-> Idle]

-----------------------------------------------------------------------------
(* Beginning a call. *)

Busy == {w \in Worker : tx[w].pc # "idle"}

\* Calls on the guarded client that write lifecycle: the guard stops them
\* before they come to the ledger.
Guarded == {"effect", "reconcile"}

\* The bounds: no call begins that could draw a number beyond MaxTs, and from
\* MaxShared on none begins while another is in flight.
MayBegin(w, op) ==
  /\ tx[w].pc = "idle"
  /\ Busy = {} \/ seq < MaxShared
  /\ op \notin Guarded =>
       seq + Cardinality({v \in Busy : tx[v].pc # "insert" /\ tx[v].op \notin Guarded}) < MaxTs

Begin(w, pc, op, c, target) ==
  /\ MayBegin(w, op)
  /\ tx' = [tx EXCEPT ![w] = [pc |-> pc, op |-> op, case |-> c,
                              seen |-> lifecycle[c], target |-> target, ts |-> 0]]
  /\ UNCHANGED <<lifecycle, execution, decision, ledger, seq, lock>>

\* Variant: the initial CaseStatus written where the CaseLifecycle belongs.
BootstrapWithStatus(w, c) ==
  /\ ~Exists(c)
  /\ \A v \in Busy : tx[v].case # c
  /\ Begin(w, "append", "bootstrap", c, "INTAKED")

\* The bootstrap service: the row it inserts has a fresh id.
Bootstrap(w, c) ==
  /\ ~Exists(c)
  /\ \A v \in Busy : tx[v].case # c
  /\ Begin(w, "append", "bootstrap", c, "INTAKE")

\* Variant: EXECUTING without the Execution check.
TransitionUnchecked(c, target) == Exists(c) /\ CanMove(lifecycle[c], target)

\* The reads and checks of transitionCaseLifecycleWithLedger().
TransitionAllowed(c, target) ==
  /\ Exists(c)
  /\ CanMove(lifecycle[c], target)
  /\ target = "EXECUTING" => c \in execution

\* Called without a transaction: it opens its own on the unguarded client.
Transition(w, c, target) ==
  /\ TransitionAllowed(c, target)
  /\ Begin(w, "update", "transition", c, target)

\* Called by OrchestratorService.executeEffect() with the caller's
\* transaction, which belongs to the guarded client.
ExecutionVerified(w, c) ==
  /\ TransitionAllowed(c, "VERIFIED")
  /\ Begin(w, "update", "effect", c, "VERIFIED")

\* acceptCase(): the checks of the outer transaction, which then waits.
AcceptCase(w, c) ==
  /\ lifecycle[c] = "ROUTED"
  /\ c \in Assigned
  /\ Begin(w, "accept", "accept", c, "ACCEPTED")

\* Variant: routing that does not load the case first.
RouteUnknownCase(w, c) ==
  /\ c \notin decision
  /\ \A e \in CommitsOf(c) : e.event # "ROUTED"
  /\ Begin(w, "append", "route", c, Absent)

\* RoutingService.routeCase(): no decision yet, and (commitRoutingLedger) no
\* ROUTED commit, which SYSTEM could not supersede.
RouteCase(w, c) ==
  /\ Exists(c)
  /\ c \notin decision
  /\ \A e \in CommitsOf(c) : e.event # "ROUTED"
  /\ Begin(w, "append", "route", c, Absent)

\* startExecution(): an Execution row that exists is returned as it is.
StartExecution(w, c) ==
  /\ Exists(c)
  /\ c \notin execution
  /\ Begin(w, "create", "start", c, Absent)

\* handleIntakeDelivery(): whatever stage the case is in.
Deliver(w, c) ==
  /\ Exists(c)
  /\ Begin(w, "create", "deliver", c, Absent)

\* reconcileCaseLifecycle(): the first of its two reads.
Reconcile(w, c) ==
  /\ Exists(c)
  /\ Begin(w, "replay", "reconcile", c, Absent)

-----------------------------------------------------------------------------
(* The steps of a call in flight. *)

\* Variant: a transaction that ends without giving its row lock back.
EndKeepingLock(w) == tx' = [tx EXCEPT ![w] = Idle] /\ UNCHANGED lock

\* The transaction of w ends, committed or rolled back.
End(w) ==
  /\ tx' = [tx EXCEPT ![w] = Idle]
  /\ lock' = [c \in Case |-> IF lock[c] = w THEN None ELSE lock[c]]

NoEffect == UNCHANGED <<lifecycle, execution, decision, ledger, seq>>

\* The inner transaction acceptCase() opens reads the row again.
AcceptInner(w) ==
  /\ tx[w].pc = "accept"
  /\ IF TransitionAllowed(tx[w].case, "ACCEPTED")
       THEN /\ tx' = [tx EXCEPT ![w].pc = "update", ![w].seen = lifecycle[tx[w].case]]
            /\ UNCHANGED lock
       ELSE End(w)
  /\ NoEffect

\* The second read of the reconciliation: the ledger, replayed.
ReplayLedger(w) ==
  /\ tx[w].pc = "replay"
  /\ LET derived == Derived(tx[w].case)
     IN  IF derived = tx[w].seen
           THEN End(w)
           ELSE /\ tx' = [tx EXCEPT ![w].pc = "update", ![w].target = derived]
                /\ UNCHANGED lock
  /\ NoEffect

\* The Execution row of c, written by a transaction that has not ended.
ExecutionPending(c) ==
  \E v \in Worker : /\ tx[v].op \in {"start", "deliver"} /\ tx[v].case = c
                   /\ tx[v].pc \in {"append", "insert"}

\* Execution.caseId is unique: an insert waits for a concurrent one and fails
\* if that one commits, where an upsert updates the row instead.
CreateExecution(w) ==
  LET t == tx[w]
  IN  /\ t.pc = "create"
      /\ IF t.op = "start" /\ t.case \in execution
           THEN End(w)
           ELSE /\ ~ExecutionPending(t.case)
                /\ tx' = [tx EXCEPT ![w].pc = "append"]
                /\ UNCHANGED lock
      /\ NoEffect

\* Variant: a client without the guard.
AnyoneMayWrite(op) == op \in Op

\* enforceLifecycleLaw(): only the unguarded client may write lifecycle.
MayWriteLifecycle(op) == op \in {"transition", "accept"}

GuardRejects(w) ==
  /\ tx[w].pc = "update"
  /\ ~MayWriteLifecycle(tx[w].op)
  /\ End(w)
  /\ NoEffect

\* Variant: an UPDATE whose WHERE clause does not name the lifecycle read.
RowAlwaysMatches(w) == w \in Worker

\* The WHERE clause of the UPDATE: a reconciliation names only the id.
RowMatches(w) ==
  tx[w].op = "reconcile" \/ lifecycle[tx[w].case] = tx[w].seen

\* Variant: an UPDATE that is its own transaction, its lock gone at once.
UpdateUnlocked(w) ==
  /\ tx[w].pc = "update"
  /\ MayWriteLifecycle(tx[w].op)
  /\ IF RowMatches(w)
       THEN tx' = [tx EXCEPT ![w].pc = "append"] /\ UNCHANGED lock
       ELSE End(w)
  /\ NoEffect

\* The UPDATE, when it gets the row lock: one row matches, or the call throws.
UpdateCase(w) ==
  /\ tx[w].pc = "update"
  /\ MayWriteLifecycle(tx[w].op)
  /\ lock[tx[w].case] = None
  /\ IF RowMatches(w)
       THEN /\ lock' = [lock EXCEPT ![tx[w].case] = w]
            /\ tx' = [tx EXCEPT ![w].pc = "append"]
       ELSE End(w)
  /\ NoEffect

\* LedgerService.commit(): SELECT nextval('ledger_global_seq').
NextTs(w) ==
  /\ tx[w].pc = "append"
  /\ seq < MaxTs
  /\ seq' = seq + 1
  /\ tx' = [tx EXCEPT ![w].pc = "insert", ![w].ts = seq + 1]
  /\ UNCHANGED <<lifecycle, execution, decision, ledger, lock>>

\* The LedgerCommit row each operation inserts.
Row(t) ==
  LET row(domain, event) == [ts |-> t.ts, case |-> t.case, domain |-> domain,
                             event |-> event, from |-> t.seen, to |-> t.target]
  IN  CASE t.op = "bootstrap" -> row("CASE", "CASE_CREATED")
        [] t.op = "route"     -> row("ROUTING", "ROUTED")
        [] t.op = "start"     -> row("EXECUTION", "EXECUTION_STARTED")
        [] t.op = "deliver"   -> row("EXECUTION", "EXECUTION_PROGRESS_RECORDED")
        [] t.op = "reconcile" -> row("CASE_LIFECYCLE", "LIFECYCLE_REPAIRED")
        [] OTHER              -> row("CASE_LIFECYCLE", LedgerEvent[t.target])

\* The insert of the row and COMMIT: everything the call wrote, at once.
CommitTx(w) ==
  LET t == tx[w]
  IN  /\ t.pc = "insert"
      /\ ledger' = ledger \cup {Row(t)}
      /\ lifecycle' = IF t.op \in {"route", "start", "deliver"} THEN lifecycle
                      ELSE [lifecycle EXCEPT ![t.case] = t.target]
      /\ execution' = IF t.op \in {"start", "deliver"} THEN execution \cup {t.case}
                      ELSE execution
      /\ decision' = IF t.op = "route" THEN decision \cup {t.case} ELSE decision
      /\ End(w)
      /\ UNCHANGED seq

\* A lost connection, a transaction timeout, a crash of the process.
Rollback(w) ==
  /\ w \in Busy
  /\ End(w)
  /\ NoEffect

Step(w) ==
  \/ AcceptInner(w) \/ ReplayLedger(w) \/ GuardRejects(w) \/ UpdateCase(w)
  \/ CreateExecution(w) \/ NextTs(w) \/ CommitTx(w)

Next ==
  \E w \in Worker :
    \/ \E c \in Case :
         \/ Bootstrap(w, c)
         \/ \E target \in Lifecycle : Transition(w, c, target)
         \/ ExecutionVerified(w, c)
         \/ AcceptCase(w, c)
         \/ RouteCase(w, c)
         \/ StartExecution(w, c)
         \/ Deliver(w, c)
         \/ Reconcile(w, c)
    \/ Step(w)
    \/ Rollback(w)

Spec == Init /\ [][Next]_vars

(***************************************************************************)
(* A call in flight is driven by its own event-loop turns; the lock queues *)
(* of PostgreSQL are first come first served, so a waiting statement is    *)
(* not overtaken for ever.  Nothing obliges a new call to begin, and no    *)
(* transaction has to fail.                                                *)
(***************************************************************************)
Fairness ==
  \A w \in Worker :
    /\ WF_vars(AcceptInner(w) \/ ReplayLedger(w) \/ GuardRejects(w))
    /\ SF_vars(UpdateCase(w))
    /\ SF_vars(CreateExecution(w))
    /\ WF_vars(NextTs(w) \/ CommitTx(w))

FairSpec == Spec /\ Fairness
-----------------------------------------------------------------------------
\* Every variable has its type; lifecycle holds only members of the enum.
TypeOK ==
  /\ lifecycle \in [Case -> Stage]
  /\ execution \subseteq Case
  /\ decision \subseteq Case
  /\ ledger \subseteq Commit
  /\ seq \in 0..MaxTs
  /\ lock \in [Case -> Worker \cup {None}]
  /\ tx \in [Worker -> Transaction]

\* The abstract journal this module implements: its entries are the commits
\* of the CASE_LIFECYCLE domain.
Moves == {e \in ledger : e.domain = "CASE_LIFECYCLE"}

JournalEntry(e) == [case |-> e.case, n |-> e.ts, from |-> e.from, to |-> e.to]

Journal == INSTANCE CaseJournal WITH
             stage <- lifecycle,
             journal <- {JournalEntry(e) : e \in Moves},
             Stamp <- 1..MaxTs

(***************************************************************************)
(* Every behaviour of the services is one of the abstract journal: the     *)
(* lifecycle write and its ledger entry appear in one step, and an entry   *)
(* never gets a ts below one the case already has, although ts values are  *)
(* drawn before the commit and by several calls at once.                   *)
(***************************************************************************)
ImplementsJournal == Journal!Spec

(***************************************************************************)
(* The CASE_LIFECYCLE commits of a case, in ts order, are the path its     *)
(* lifecycle has taken, and the last one says where it stands: what        *)
(* auditors assume when they read the ledger by ts.                        *)
(***************************************************************************)
LedgerIsThePath == Journal!JournalIsThePath

(***************************************************************************)
(* A lifecycle only ever changes by creation or along an edge of the       *)
(* transition law, whichever of the services, reconciliation included,     *)
(* makes the step.                                                         *)
(***************************************************************************)
LifecycleLaw ==
  [][\A c \in Case :
       \/ lifecycle'[c] = lifecycle[c]
       \/ lifecycle[c] = Absent /\ lifecycle'[c] = "INTAKE"
       \/ CanMove(lifecycle[c], lifecycle'[c])]_vars

\* A case past ACCEPTED has an Execution row, although the check and the
\* lifecycle write are statements of different moments.
PastAcceptance == {"EXECUTING", "VERIFIED", "FLAGGED", "HUMAN_REVIEW",
                   "COMPLETED", "REJECTED"}

ExecutingHasExecution ==
  \A c \in Case : lifecycle[c] \in PastAcceptance => c \in execution

\* The first thing the ledger says of a case is that it was created, and it
\* says so once.
CreationIsFirst ==
  \A e \in ledger : \E d \in ledger :
    /\ d.case = e.case /\ d.event = "CASE_CREATED"
    /\ \A x \in CommitsOf(e.case) : x = d \/ (d.ts < x.ts /\ x.event # "CASE_CREATED")

\* The commit that speaks last of c, in ts order, is a transition.
LastIsTransition(c) ==
  \E e \in CommitsOf(c) :
    e.domain = "CASE_LIFECYCLE" /\ \A d \in CommitsOf(c) : d.ts <= e.ts

(***************************************************************************)
(* Right after a transition into a state that replay knows, replay agrees  *)
(* with the row, whatever the other services have written before.          *)
(***************************************************************************)
ReplayKnows == {"ROUTED", "ACCEPTED", "EXECUTING", "VERIFIED", "FLAGGED"}

ReplayRebuildsKnownStates ==
  \A c \in Case :
    LastIsTransition(c) /\ lifecycle[c] \in ReplayKnows => Derived(c) = lifecycle[c]

(***************************************************************************)
(* "Lifecycle transitions remain replayable": right after a transition,    *)
(* replaying the ledger of the case gives its lifecycle.                   *)
(***************************************************************************)
ReplayRebuildsLifecycle ==
  \A c \in Case : LastIsTransition(c) => Derived(c) = lifecycle[c]

\* Every call ends: none waits for ever for a row lock or in mid-transaction.
EveryCallEnds == \A w \in Worker : tx[w].pc # "idle" ~> tx[w].pc = "idle"

(***************************************************************************)
(* RoutingService declares itself idempotent: a case is routed, and the    *)
(* routing recorded in the ledger, at most once.                           *)
(***************************************************************************)
RoutedOnce ==
  \A e, d \in ledger :
    e.domain = "ROUTING" /\ d.domain = "ROUTING" /\ e.case = d.case => e = d

(***************************************************************************)
(* "Projection repairable": a case whose lifecycle differs from its ledger *)
(* is repaired, if the reconciliation keeps being run on it.               *)
(***************************************************************************)
Drifted(c) == Exists(c) /\ Derived(c) # lifecycle[c]

DriftIsRepaired == \A c \in Case : Drifted(c) ~> ~Drifted(c)

ReconcilingSpec ==
  FairSpec /\ \A c \in Case : SF_vars(\E w \in Worker : Reconcile(w, c))
=============================================================================
