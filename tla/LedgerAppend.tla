---------------------------- MODULE LedgerAppend ----------------------------
(***************************************************************************)
(* LedgerService.commit(), the one way into the ledger, as concurrent      *)
(* transactions run it.  The supersession checks, the draw from            *)
(* ledger_global_seq and the INSERT are three statements, each seeing what *)
(* is committed by then and what its own transaction wrote.                *)
(*                                                                         *)
(* The checks are not atomic with the INSERT: what holds the ledger        *)
(* together are the unique indexes of LedgerCommit.  An INSERT whose key   *)
(* is in a committed row fails, and one whose key is in the row of an open *)
(* transaction waits for that transaction to end.                          *)
(***************************************************************************)
EXTENDS Integers, FiniteSets

CONSTANTS
  Tenant,    \* tenants
  Writer,    \* transactions that may be open at once
  Request,   \* values of X-Request-Id; a retry repeats one
  Proof,     \* the values of authorityProof, by their prefix
  Nil,       \* no tenant, no input; also the request of a job
  MaxTs      \* bound on ledger_global_seq

ASSUME TsAssumption == MaxTs \in Nat
ASSUME NilAssumption == Nil \notin Tenant \cup Request
ASSUME ProofAssumption == Proof \subseteq {"EXEC:", "ADMIN:", "other"}

VARIABLES
  ledger,    \* the committed LedgerCommit rows, each known by its ts
  seq,       \* the last value drawn from ledger_global_seq
  pending,   \* the rows each open transaction has inserted
  appends    \* what each open transaction is about to append

appendVars == <<ledger, seq, pending, appends>>

Actor == [kind: {"SYSTEM", "HUMAN"}, proof: Proof]

\* supersedes is the ts of the superseded commit, 0 for null.
Commit == [ts: 1..MaxTs, tenant: Tenant, request: Request \cup {Nil},
           actor: Actor, supersedes: 0..MaxTs]

\* The appends a transaction may make: LedgerCommitSchema accepts them.
Input == [actor: Actor, supersedes: 0..MaxTs]

AppendTx == [pc: {"idle", "open", "number", "insert"}, tenant: Tenant \cup {Nil},
             request: Request \cup {Nil}, input: Input \cup {Nil}, ts: 0..MaxTs]

Closed == [pc |-> "idle", tenant |-> Nil, request |-> Nil, input |-> Nil, ts |-> 0]

\* deriveAuthorityLevel(): SYSTEM is SYSTEM whatever its proof says.
Level(actor) ==
  CASE actor.kind = "SYSTEM"   -> 1
    [] actor.kind = "HUMAN" /\ actor.proof = "other"  -> 2
    [] actor.kind = "HUMAN" /\ actor.proof = "ADMIN:" -> 3
    [] actor.kind = "HUMAN" /\ actor.proof = "EXEC:"  -> 4

\* Variant: without the rule on equal authorities.
OutranksOrEquals(actor, target) == Level(actor) >= Level(target)

\* validateAuthoritySupersession(): what its three rules let through.
Outranks(actor, target) == Level(actor) > Level(target)

AppendInit ==
  /\ ledger = {}
  /\ seq = 0
  /\ pending = [w \in Writer |-> {}]
  /\ appends = [w \in Writer |-> Closed]

-----------------------------------------------------------------------------
\* What a statement of w sees.
Visible(w) == ledger \cup pending[w]

\* The transaction of w ends, and its rows leave the unique indexes unless
\* they are committed with it.
Close(w) ==
  /\ appends' = [appends EXCEPT ![w] = Closed]
  /\ pending' = [pending EXCEPT ![w] = {}]

\* A transaction opens, for an HTTP request (new or retried) or for a job.
Open(w, tenant, request) ==
  /\ appends[w].pc = "idle"
  /\ appends' = [appends EXCEPT ![w] = [Closed EXCEPT !.pc = "open", !.tenant = tenant,
                                                !.request = request]]
  /\ UNCHANGED <<ledger, seq, pending>>

\* The commit with this ts, as the supersession checks of w need it: of the
\* same tenant, not superseded yet, by a lower authority.
MaySupersede(w, input) ==
  \E d \in Visible(w) :
    /\ d.ts = input.supersedes
    /\ d.tenant = appends[w].tenant
    /\ \A e \in Visible(w) : e.supersedes # d.ts
    /\ Outranks(input.actor, d.actor)

\* The bound: no append that could draw a number beyond MaxTs.
MayAppend == seq + Cardinality({v \in Writer : appends[v].pc = "number"}) < MaxTs

\* commit() up to the checks; a check that fails throws (RollbackAppends).  No
\* job supersedes: reconciliation only adds LIFECYCLE_REPAIRED.
Append(w, input) ==
  /\ appends[w].pc = "open"
  /\ MayAppend
  /\ appends[w].request = Nil => input.supersedes = 0
  /\ input.supersedes # 0 => MaySupersede(w, input)
  /\ appends' = [appends EXCEPT ![w].pc = "number", ![w].input = input]
  /\ UNCHANGED <<ledger, seq, pending>>

\* SELECT nextval('ledger_global_seq'), never undone.
NextTs(w) ==
  /\ appends[w].pc = "number"
  /\ seq < MaxTs
  /\ seq' = seq + 1
  /\ appends' = [appends EXCEPT ![w].pc = "insert", ![w].ts = seq + 1]
  /\ UNCHANGED <<ledger, pending>>

\* Variant: the row built before the sequence was asked.
UnnumberedRow(t) ==
  [ts |-> 0, tenant |-> t.tenant, request |-> t.request,
   actor |-> t.input.actor, supersedes |-> t.input.supersedes]

Row(t) ==
  [ts |-> t.ts, tenant |-> t.tenant, request |-> t.request,
   actor |-> t.input.actor, supersedes |-> t.input.supersedes]

\* Variant: no unique index on supersedesCommitId.
SameRequestOnly(r, e) ==
  r.request # Nil /\ r.request = e.request /\ r.tenant = e.tenant

\* Variant: the request id kept for observability only.
SameTargetOnly(r, e) == r.supersedes # 0 /\ r.supersedes = e.supersedes

\* supersedesCommitId and (tenantId, requestId) are unique where not null.
SameKey(r, e) ==
  \/ r.supersedes # 0 /\ r.supersedes = e.supersedes
  \/ r.request # Nil /\ r.request = e.request /\ r.tenant = e.tenant

\* Variant: a waiting INSERT with no one to wake it.
InsertWithoutFailure(w) ==
  /\ appends[w].pc = "insert"
  /\ \A v \in Writer : \A e \in Visible(v) : ~SameKey(Row(appends[w]), e)
  /\ pending' = [pending EXCEPT ![w] = @ \cup {Row(appends[w])}]
  /\ appends' = [appends EXCEPT ![w].pc = "open", ![w].input = Nil, ![w].ts = 0]
  /\ UNCHANGED <<ledger, seq>>

\* ledgerCommit.create(): fails, waits or inserts.
Insert(w) ==
  LET r == Row(appends[w])
  IN  /\ appends[w].pc = "insert"
      /\ IF \E e \in Visible(w) : SameKey(r, e)
           THEN Close(w)
           ELSE /\ \A v \in Writer : \A e \in pending[v] : ~SameKey(r, e)
                /\ pending' = [pending EXCEPT ![w] = @ \cup {r}]
                /\ appends' = [appends EXCEPT ![w].pc = "open", ![w].input = Nil, ![w].ts = 0]
      /\ UNCHANGED <<ledger, seq>>

\* COMMIT of everything the transaction appended.
CommitAppends(w) ==
  /\ appends[w].pc = "open"
  /\ ledger' = ledger \cup pending[w]
  /\ Close(w)
  /\ UNCHANGED seq

\* A check that throws, a lost connection, a timeout, a crash.
RollbackAppends(w) ==
  /\ appends[w].pc # "idle"
  /\ Close(w)
  /\ UNCHANGED <<ledger, seq>>

AppendNext ==
  \E w \in Writer :
    \/ \E tenant \in Tenant, request \in Request \cup {Nil} : Open(w, tenant, request)
    \/ \E input \in Input : Append(w, input)
    \/ NextTs(w)
    \/ Insert(w)
    \/ CommitAppends(w)
    \/ RollbackAppends(w)

AppendSpec == AppendInit /\ [][AppendNext]_appendVars

(***************************************************************************)
(* Each transaction runs its statements to the end; PostgreSQL wakes a     *)
(* waiting INSERT when the transaction it waits for ends.  No transaction  *)
(* has to begin, to append again, or to fail.                              *)
(***************************************************************************)
AppendFairSpec ==
  /\ AppendSpec
  /\ \A w \in Writer : /\ WF_appendVars(NextTs(w) \/ CommitAppends(w))
                       /\ SF_appendVars(Insert(w))
-----------------------------------------------------------------------------
\* Every variable has its type.
AppendTypeOK ==
  /\ ledger \subseteq Commit
  /\ seq \in 0..MaxTs
  /\ pending \in [Writer -> SUBSET Commit]
  /\ appends \in [Writer -> AppendTx]

(***************************************************************************)
(* A commit is superseded at most once, although the check for it reads    *)
(* before a concurrent override of the same commit is visible.             *)
(***************************************************************************)
SupersededOnce ==
  \A e, d \in ledger : e.supersedes = d.supersedes /\ e.supersedes # 0 => e = d

(***************************************************************************)
(* An override names a commit of its own tenant that the ledger holds,     *)
(* comes later, and is of strictly higher authority: chains of overrides   *)
(* end, and SYSTEM overrides nobody.                                       *)
(***************************************************************************)
AuthorityRises ==
  \A e \in ledger : e.supersedes # 0 =>
    \E d \in ledger : /\ d.ts = e.supersedes /\ d.tenant = e.tenant
                      /\ d.ts < e.ts /\ Level(d.actor) < Level(e.actor)

(***************************************************************************)
(* "Multi-tenant exactly-once guarantee": however often and however        *)
(* concurrently a request is retried, a tenant's ledger has it once.       *)
(***************************************************************************)
OncePerRequest ==
  \A e, d \in ledger :
    e.request = d.request /\ e.request # Nil /\ e.tenant = d.tenant => e = d

(***************************************************************************)
(* No transaction waits for ever: an INSERT waits only for a transaction   *)
(* that never waits in turn.                                               *)
(***************************************************************************)
EveryTransactionEnds == \A w \in Writer : appends[w].pc # "idle" ~> appends[w].pc = "idle"
=============================================================================
