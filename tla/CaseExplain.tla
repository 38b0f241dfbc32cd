---------------------------- MODULE CaseExplain ----------------------------
(***************************************************************************)
(* The readers that explain a case: DecisionQueryService.explainLifecycle  *)
(* and CaseExplainService.explain.  Neither is a transaction: the case,    *)
(* its decisions and its ledger are separate SELECTs, and moves, commits   *)
(* of other writers and decisions come between them.  A move appears with  *)
(* the commit that announces it, as CaseLedger shows; its number, like     *)
(* every other, was drawn before, so that a commit may come to stand       *)
(* before others that were there already.                                  *)
(***************************************************************************)
EXTENDS LedgerReplay, Integers

CONSTANTS
  ExplainCall,   \* explanations in flight at once
  Viewer,        \* the role sets of the viewers who ask
  MaxDecided,    \* bound on the decisions of the case
  MaxTrail,      \* bound on its commits
  Unread         \* nothing read yet

ASSUME ExplainAssumption ==
  /\ MaxDecided \in Nat /\ MaxTrail \in Nat
  /\ Unread \notin Lifecycle
  /\ Viewer \subseteq SUBSET {"ADMIN", "AUDITOR", "NGO_PARTNER"}

VARIABLES
  stored,     \* Case.lifecycle
  trail,      \* the case's LedgerCommit rows by ts: the event, and whether a transition wrote it
  decided,    \* its Decision rows by decidedAt: TRUE while not superseded
  explained   \* what each call has read, and its answer

explainVars == <<stored, trail, decided, explained>>

NoExplanation == [pc |-> "none", of |-> "lifecycle", viewer |-> {}, ref |-> 0,
                  lifecycle |-> Unread, ledger |-> <<>>, decisions |-> <<>>]

\* The commits of a transition, and those of the other writers.
Move(s) == [event |-> LedgerEvent[s], move |-> TRUE]

Fact(event) == [event |-> event, move |-> FALSE]

ExplainInit ==
  /\ stored = "INTAKE"
  /\ trail = <<Move("INTAKE")>>
  /\ decided = <<>>
  /\ explained = [x \in ExplainCall |-> NoExplanation]

-----------------------------------------------------------------------------
(* The writers. *)

ExecutionEvent == {"EXECUTION_STARTED", "EXECUTION_PROGRESS_RECORDED", "EXECUTION_COMPLETED"}

\* The events that are committed without a move.  Replay ignores the last.
FactEvent == ExecutionEvent \cup {"ROUTED", "VERIFICATION_REQUESTED"}

Executed(ledger) == \E i \in DOMAIN ledger : ~ledger[i].move /\ ledger[i].event \in ExecutionEvent

\* A commit appears at the place of its number, after the first.
Appears(entry, place) ==
  /\ Len(trail) < MaxTrail
  /\ trail' = InsertAt(trail, place, entry)

\* A transitionCaseLifecycleWithLedger() commits.  It drew its number under the lock of the case,
\* so that no other move comes after it; EXECUTING needs the Execution.
MoveExplained(to, place) ==
  /\ CanMove(stored, to)
  /\ to = "EXECUTING" => Executed(trail)
  /\ \A i \in DOMAIN trail : trail[i].move => i < place
  /\ Appears(Move(to), place)
  /\ stored' = to
  /\ UNCHANGED <<decided, explained>>

\* routeCase(), startExecution(), a delivery or milestone, a completion and a request for
\* verification commit, whatever the lifecycle is.  The Execution is started once, and exists
\* before it is completed.
FactExplained(event, place) ==
  /\ event = "EXECUTION_STARTED" => ~Executed(trail)
  /\ event = "EXECUTION_COMPLETED" => Executed(trail)
  /\ Appears(Fact(event), place)
  /\ UNCHANGED <<stored, decided, explained>>

\* A decision commits; it has superseded those it saw, all or all but the newest.
DecideExplained(unseen) ==
  /\ Len(decided) < MaxDecided
  /\ decided' = Append([i \in DOMAIN decided |-> decided[i] /\ i > Len(decided) - unseen], TRUE)
  /\ UNCHANGED <<stored, trail, explained>>

-----------------------------------------------------------------------------
(* The readers. *)

\* Variant: the case is selected after its ledger.
ReadOrderLedgerFirst(of) ==
  IF of = "case" THEN <<"ledger", "decisions", "case">> ELSE <<"ledger", "case", "decisions">>

\* The order of the SELECTs, in the loader and in explainLifecycle().
ReadOrder(of) ==
  IF of = "case" THEN <<"case", "decisions", "ledger">> ELSE <<"case", "ledger", "decisions">>

\* The read that follows one, and the answer after the last.
ReadAfter(of, what) ==
  LET i == CHOOSE i \in 1..3 : ReadOrder(of)[i] = what
  IN  IF i = 3 THEN "answer" ELSE ReadOrder(of)[i + 1]

\* A request: of a case by a reference, or of a lifecycle.
AskExplanation(x, of, viewer, ref) ==
  /\ explained[x].pc = "none"
  /\ explained' = [explained EXCEPT ![x] =
                     [NoExplanation EXCEPT !.pc = IF of = "case" THEN "resolve" ELSE ReadOrder(of)[1],
                                           !.of = of, !.viewer = viewer, !.ref = ref]]
  /\ UNCHANGED <<stored, trail, decided>>

\* CaseRefResolver: the case (here 0) is found, a decision only while it is not superseded.
ResolveRef(x) ==
  LET ref == explained[x].ref
  IN  /\ explained[x].pc = "resolve"
      /\ explained' = IF ref = 0 \/ (ref \in DOMAIN decided /\ decided[ref])
                      THEN [explained EXCEPT ![x].pc = ReadOrder("case")[1]]
                      ELSE [explained EXCEPT ![x] = NoExplanation]
      /\ UNCHANGED <<stored, trail, decided>>

\* One SELECT: what it sees is what is committed.
ReadPart(x, what) ==
  /\ explained[x].pc = what
  /\ explained' = [explained EXCEPT
                     ![x].pc = ReadAfter(explained[x].of, what),
                     ![x].lifecycle = IF what = "case" THEN stored ELSE @,
                     ![x].ledger = IF what = "ledger" THEN trail ELSE @,
                     ![x].decisions = IF what = "decisions" THEN decided ELSE @]
  /\ UNCHANGED <<stored, trail, decided>>

\* resolveRedactionPolicy(): what the first of the roles that counts may see.
RedactionPolicy(roles) ==
  CASE "ADMIN" \in roles -> {"restricted", "pii", "evidence", "superseded", "payloads"}
    [] "AUDITOR" \in roles -> {"restricted", "evidence", "superseded", "payloads"}
    [] "NGO_PARTNER" \in roles -> {"evidence"}
    [] OTHER -> {}

Active(decisions) == { i \in DOMAIN decisions : decisions[i] }

\* The decision a lifecycle is attributed to: the newest that is not superseded, 0 without one.
CausedBy(decisions) ==
  IF Active(decisions) = {} THEN 0 ELSE CHOOSE i \in Active(decisions) : \A j \in Active(decisions) : j <= i

\* ExplainableCaseRedactor.redact(): a case with a restricted tag is cut down to its id and
\* lifecycle; otherwise the viewer has what the policy leaves.
Redacted(e, restricted) ==
  LET sees == RedactionPolicy(e.viewer)
  IN  [cut |-> restricted /\ "restricted" \notin sees,
       active |-> Active(e.decisions),
       history |-> IF "superseded" \in sees THEN DOMAIN e.decisions ELSE Active(e.decisions),
       fields |-> sees \ {"restricted"}]

\* mapExplainableCaseToResponse(): on a case that was cut down, without decisions, it throws.
CaseAnswer(e, restricted) ==
  LET payload == Redacted(e, restricted)
  IN  IF payload.cut THEN [error |-> TRUE]
      ELSE [error |-> FALSE, lifecycle |-> e.lifecycle, ledger |-> e.ledger,
            history |-> payload.history, causedBy |-> CausedBy(e.decisions), fields |-> payload.fields]

\* explainLifecycle(): the stored lifecycle, the replayed one and whether they differ.
LifecycleAnswer(e) ==
  LET replayed == deriveLifecycleFromLedger([i \in DOMAIN e.ledger |-> e.ledger[i].event])
  IN  [lifecycle |-> e.lifecycle, ledgerDerivedLifecycle |-> replayed,
       drift |-> replayed # e.lifecycle, causedBy |-> CausedBy(e.decisions)]

\* The answer goes out.
AnswerExplanation(x) ==
  /\ explained[x].pc = "answer"
  /\ explained' = [explained EXCEPT ![x] = NoExplanation]
  /\ UNCHANGED <<stored, trail, decided>>

ExplainNext ==
  \/ \E place \in 2..MaxTrail :
       /\ place <= Len(trail) + 1
       /\ \/ \E to \in Lifecycle : MoveExplained(to, place)
          \/ \E event \in FactEvent : FactExplained(event, place)
  \/ \E unseen \in 0..1 : DecideExplained(unseen)
  \/ \E x \in ExplainCall :
       \/ \E viewer \in Viewer, ref \in 0..MaxDecided : AskExplanation(x, "case", viewer, ref)
       \/ AskExplanation(x, "lifecycle", {}, 0)
       \/ ResolveRef(x)
       \/ \E what \in {"case", "decisions", "ledger"} : ReadPart(x, what)
       \/ AnswerExplanation(x)

ExplainSpec == ExplainInit /\ [][ExplainNext]_explainVars
-----------------------------------------------------------------------------
ExplainTypeOK ==
  /\ stored \in Lifecycle
  /\ trail \in Seq({Move(s) : s \in Lifecycle} \cup {Fact(event) : event \in FactEvent})
  /\ decided \in Seq(BOOLEAN)
  /\ \A x \in ExplainCall :
       /\ explained[x].pc \in {"none", "resolve", "case", "decisions", "ledger", "answer"}
       /\ explained[x].viewer \in Viewer \cup {{}}
       /\ explained[x].ref \in 0..MaxDecided
       /\ explained[x].lifecycle \in Lifecycle \cup {Unread}

Answered(of) == { x \in ExplainCall : explained[x].pc = "answer" /\ explained[x].of = of }

\* States whose announcing event replays to another state, or to none.
NotReplayed ==
  { s \in Lifecycle : LedgerEvent[s] \notin DOMAIN ReplayEffect \/ ReplayEffect[LedgerEvent[s]] # s }

\* After the move into this state the ledger has another writer's commit that replays to another.
Overwritten(ledger, s) ==
  \E i, j \in DOMAIN ledger :
    /\ i < j /\ ledger[i] = Move(s)
    /\ ~ledger[j].move
    /\ ledger[j].event \in DOMAIN ReplayEffect /\ ReplayEffect[ledger[j].event] # s

(***************************************************************************)
(* An explanation holds together although it is read in pieces.  The move  *)
(* into the lifecycle shown is on the ledger shown, never a lifecycle      *)
(* without its record.  A drift is reported only when the case has moved   *)
(* on since its lifecycle was read, for the states replay does not know,   *)
(* or where routing or an execution committed an event of another stage    *)
(* after the move: never because the pieces are of different moments.  And *)
(* no decision that is shown as superseded is named as the cause.          *)
(***************************************************************************)
ExplanationHoldsTogether ==
  /\ \A x \in Answered("case") \cup Answered("lifecycle") :
       \E i \in DOMAIN explained[x].ledger : explained[x].ledger[i] = Move(explained[x].lifecycle)
  /\ \A x \in Answered("lifecycle") :
       LifecycleAnswer(explained[x]).drift =>
         \/ explained[x].lifecycle \in NotReplayed
         \/ explained[x].lifecycle # stored
         \/ Overwritten(explained[x].ledger, explained[x].lifecycle)
  /\ \A x \in Answered("case"), restricted \in BOOLEAN :
       LET answer == CaseAnswer(explained[x], restricted)
       IN  ~answer.error /\ answer.causedBy # 0 =>
             answer.causedBy \in answer.history /\ explained[x].decisions[answer.causedBy]
=============================================================================
