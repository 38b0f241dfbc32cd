------------------------------ MODULE Authority ------------------------------
(***************************************************************************)
(* Approval requests of one case and the BUDGET decisions that resolve()   *)
(* makes of them, as transactions at READ COMMITTED run it: the status is  *)
(* checked by a read and written by another statement, by id; updateMany   *)
(* first looks for the active decisions, then waits for their locks and    *)
(* looks at each again; the decision and its effect follow.                *)
(*                                                                         *)
(* Of the gated effects OrchestratorService implements PROVISION_VERIFIER; *)
(* the others throw, and so does every vote, whose ledger event has no     *)
(* intentContext: their transactions roll back.                            *)
(***************************************************************************)
EXTENDS Integers, FiniteSets

CONSTANTS
  Approver,     \* transactions that may be open at once
  Approval,     \* ids of approval requests
  MaxDecisions  \* bound on the decisions created

ASSUME MaxDecisionsAssumption == MaxDecisions \in Nat \ {0}

VARIABLES
  approvals,    \* committed rows of ApprovalRequest
  decisions,    \* committed rows of Decision, of one case and type
  provisioned,  \* how often the effect of each request was applied
  lastDecision, \* the last decision created
  rtx           \* the open transactions: what they have read, written and locked

authorityVars == <<approvals, decisions, provisioned, lastDecision, rtx>>

GatedEffect == {"PROVISION_VERIFIER", "ROUTE_CASE", "ADVANCE_TASK"}
NoResolution == [pc |-> "none", approval |-> "none", approved |-> FALSE, active |-> {},
                 superseded |-> {}, decision |-> 0]

AuthorityInit ==
  /\ approvals = [a \in Approval |-> [status |-> "none", effect |-> "none"]]
  /\ decisions = {}
  /\ provisioned = [a \in Approval |-> 0]
  /\ lastDecision = 0
  /\ rtx = [w \in Approver |-> NoResolution]

Resolving(w, t) ==
  rtx' = [rtx EXCEPT ![w] = t] /\ UNCHANGED <<approvals, decisions, provisioned, lastDecision>>

\* propose(): the verifier controllers propose PROVISION_VERIFIER, the two policies their own.
Propose(a, effect) ==
  /\ approvals[a].status = "none"
  /\ approvals' = [approvals EXCEPT ![a] = [status |-> "PENDING", effect |-> effect]]
  /\ UNCHANGED <<decisions, provisioned, lastDecision, rtx>>

RequestUnlocked(a, others) ==
  \A v \in others : rtx[v].approval = a => rtx[v].pc \in {"none", "update"}

\* approve() and reject() of the gate: an update by id, whatever the status is.
GateUpdate(a, status) ==
  /\ approvals[a].status # "none"
  /\ RequestUnlocked(a, Approver)
  /\ approvals' = [approvals EXCEPT ![a].status = status]
  /\ UNCHANGED <<decisions, provisioned, lastDecision, rtx>>

\* resolve(): findUnique, then the check of the status it has read.
ReadRequest(w, a, approved) ==
  /\ rtx[w].pc = "none"
  /\ approvals[a].status = "PENDING"
  /\ Resolving(w, [NoResolution EXCEPT !.pc = "update", !.approval = a, !.approved = approved])

\* The update by id, which waits for the row and does not look at its status again.
UpdateRequest(w) ==
  /\ rtx[w].pc = "update"
  /\ RequestUnlocked(rtx[w].approval, Approver \ {w})
  /\ Resolving(w, [rtx[w] EXCEPT !.pc = IF rtx[w].approved THEN "findActive" ELSE "commit"])

\* applyDecision(), updateMany: the active decisions of the moment ...
FindActive(w) ==
  /\ rtx[w].pc = "findActive"
  /\ Resolving(w, [rtx[w] EXCEPT !.pc = "supersede", !.active = { d \in decisions : d.active }])

\* Variant: rows that another transaction holds are skipped instead of waited for.
SupersedeSkippingLocked(w) ==
  /\ rtx[w].pc = "supersede"
  /\ Resolving(w, [rtx[w] EXCEPT !.pc = "create",
       !.superseded = (rtx[w].active \cap decisions) \ UNION { rtx[v].superseded : v \in Approver \ {w} }])

\* ... of which those are superseded that still are when their locks are free.
Supersede(w) ==
  /\ rtx[w].pc = "supersede"
  /\ \A v \in Approver \ {w} : rtx[v].superseded \cap rtx[w].active = {}
  /\ Resolving(w, [rtx[w] EXCEPT !.pc = "create", !.superseded = rtx[w].active \cap decisions])

\* decision.create in the transaction.
CreateDecision(w) ==
  /\ rtx[w].pc = "create"
  /\ lastDecision < MaxDecisions
  /\ lastDecision' = lastDecision + 1
  /\ rtx' = [rtx EXCEPT ![w].pc = "effect", ![w].decision = lastDecision + 1]
  /\ UNCHANGED <<approvals, decisions, provisioned>>

\* executeEffect(): only PROVISION_VERIFIER returns (Invitations has its statements).
ExecuteEffect(w) ==
  /\ rtx[w].pc = "effect"
  /\ Resolving(w, IF approvals[rtx[w].approval].effect = "PROVISION_VERIFIER"
                  THEN [rtx[w] EXCEPT !.pc = "commit"] ELSE NoResolution)

\* recordVerification(): its checks and its insert; the ledger then takes no event without
\* intentContext, and the vote rolls back before any quorum is counted.
CastVote(w) ==
  /\ rtx[w].pc = "none"
  /\ Resolving(w, [NoResolution EXCEPT !.pc = "appendVote"])

RefuseVote(w) == rtx[w].pc = "appendVote" /\ Resolving(w, NoResolution)

\* The transaction commits: the status, and with an approval its decision and effect.
CommitResolution(w) ==
  LET t == rtx[w]
  IN  /\ t.pc = "commit"
      /\ approvals' = [approvals EXCEPT ![t.approval].status = IF t.approved THEN "APPROVED" ELSE "REJECTED"]
      /\ decisions' = (decisions \ t.superseded)
           \cup { [d EXCEPT !.active = FALSE] : d \in t.superseded }
           \cup (IF t.approved THEN {[n |-> t.decision, approval |-> t.approval, active |-> TRUE]} ELSE {})
      /\ provisioned' = IF t.approved THEN [provisioned EXCEPT ![t.approval] = @ + 1] ELSE provisioned
      /\ rtx' = [rtx EXCEPT ![w] = NoResolution]
      /\ UNCHANGED lastDecision

\* A missing role, a failed statement, a deadlock or a crash.
RollbackResolution(w) == rtx[w].pc # "none" /\ Resolving(w, NoResolution)

AuthorityNext ==
  \/ \E a \in Approval : \/ \E effect \in GatedEffect : Propose(a, effect)
                         \/ \E status \in {"APPROVED", "REJECTED"} : GateUpdate(a, status)
  \/ \E w \in Approver :
       \/ \E a \in Approval, approved \in BOOLEAN : ReadRequest(w, a, approved)
       \/ UpdateRequest(w) \/ FindActive(w) \/ Supersede(w) \/ CreateDecision(w) \/ ExecuteEffect(w)
       \/ CastVote(w) \/ RefuseVote(w) \/ CommitResolution(w) \/ RollbackResolution(w)

AuthoritySpec == AuthorityInit /\ [][AuthorityNext]_authorityVars
-----------------------------------------------------------------------------
Decisions == [n: 1..MaxDecisions, approval: Approval, active: BOOLEAN]

AuthorityTypeOK ==
  /\ approvals \in [Approval -> [status: {"none", "PENDING", "APPROVED", "REJECTED"},
                                 effect: GatedEffect \cup {"none"}]]
  /\ decisions \subseteq Decisions
  /\ provisioned \in [Approval -> 0..MaxDecisions]
  /\ lastDecision \in 0..MaxDecisions
  /\ rtx \in [Approver ->
       [pc: {"none", "update", "findActive", "supersede", "create", "effect", "appendVote", "commit"},
        approval: Approval \cup {"none"}, approved: BOOLEAN, active: SUBSET Decisions,
        superseded: SUBSET Decisions, decision: 0..MaxDecisions]]

(***************************************************************************)
(* What supersession does keep: a decision that a resolution found active  *)
(* is not active any more once the resolution has committed its own,       *)
(* whatever others superseded, held locked or rolled back between the two, *)
(* and a superseded decision never becomes active again ("Immutable        *)
(* decision history").                                                     *)
(***************************************************************************)
ResolutionsReplaceWhatTheySaw ==
  [][/\ \A w \in Approver :
          /\ rtx[w].pc = "commit" /\ rtx[w].approved
          /\ \E new \in decisions' : new.n = rtx[w].decision
          => \A d \in rtx[w].active, e \in decisions' : e.n = d.n => ~e.active
     /\ \A d \in decisions, e \in decisions' : e.n = d.n /\ e.active => d.active]_authorityVars

(***************************************************************************)
(* "Single active decision per (caseId, decisionType)", which two          *)
(* resolutions break that looked for active decisions before either had    *)
(* committed, of two requests or, since both read it as PENDING, of one.   *)
(***************************************************************************)
OneActiveDecision == \A d, e \in decisions : d.active /\ e.active => d = e
=============================================================================
