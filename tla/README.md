# PostWins backend: a TLA+ model of its case lifecycle, ledger and services

The PostWins backend is an Express/TypeScript server over PostgreSQL (through
Prisma) and Redis. It takes in *cases* of a tenant, routes each to an executing
body, follows execution and verification, pays out, and writes what happened to
an append-only, signed *ledger*. Nothing in it takes explicit locks: correctness
rests on interactive transactions at READ COMMITTED, compare-and-set updates,
unique indexes, a database sequence, and on which of two Prisma clients a write
goes through. This project models those mechanisms, checks the models with TLC
and proves the most important results with TLAPS.

Paths below are relative to `src/src/` of the repository unless they begin with
`prisma/`.

## 1. Inventory

| Part | State it keeps | Operations | Hard behaviour | What makes it correct |
|---|---|---|---|---|
| Case lifecycle law (`modules/cases`) | `Case.lifecycle` | `transitionCaseLifecycleWithLedger` (own or caller's transaction) | concurrent calls on one case; two clients | only edges of the table; EXECUTING implies an Execution; one ledger entry per move, in order |
| Replay and reconciliation (`deriveLifecycleFromLedger`, `lifecycleReconciliation.service`, jobs) | none of its own | derive a lifecycle from the ledger; compare; repair | stale reads; the write guard | replay equals the row; drift is repaired |
| Ledger (`modules/intake/ledger`) | `LedgerCommit`, `ledger_global_seq` | `appendEntry` (validate, supersede, number, sign, insert) | numbers drawn before commit; check-then-insert; retried requests | one override per commit, rising authority, once per request |
| Guarded client (`lib/prisma.ts`) | none | intercepts writes of `Case.lifecycle` | not every writer uses it | no lifecycle write but the authority's |
| Intake bootstrap | Case, Message, VerificationRecord, first commit | `bootstrap` | audit twice, then one transaction | a case and its CASE_CREATED appear together |
| Routing (`modules/routing`) | RoutingDecision | `routeCase`, `acceptCase` | check-then-create; nested transactions | routed once; accepted only if assigned |
| Delivery (`intake.delivery.controller`) | Execution, commit | upsert + append | allowed at every stage | never contradicts the lifecycle |
| Execution (`modules/execution`) | Execution, milestones, progress | start, complete milestone, complete | last milestones racing; completion coupled to verification | completed exactly when all milestones are; evidence first |
| Verification (`modules/verification`) | VerificationRecord, roles, votes | open a round, vote, reach consensus | rounds opened concurrently; the append of a vote is refused | one open round; forecast and consensus agree |
| Decisions, effects, approvals (`modules/decision`, `approvals`, `orchestration`) | Decision, ApprovalRequest | propose, approve, reject, resolve, apply (supersede, create, effect) | check, then update by id; supersession of what a snapshot shows | what a resolution found active is replaced by its own decision, and stays superseded |
| Disbursement, tranches, appeals | Disbursement, Tranche, Appeal | authorize, execute, reconcile, reverse, open, resolve | every first step rolls back (section 7) | nothing is paid, reversed or appealed |
| Idempotency guard (`middleware`, `data/idempotency.json`) | one file | look up, run, save, answer | concurrent and retried keys; crash before save; reads and writes that fail | what was answered is not run again, unless the file lost it |
| Integrity audit (`modules/intake/intergrity`) | maps, counters, two files per process | audit a submission, gate, restart | two audits per bootstrap; state kept in memory and in files | blacklisting and device links are permanent |
| Messages, receipts, read position (`modules/message`) | Message, CaseReadPosition | create, page back, move position | retried posts; compare-then-upsert; late commits | once per client mutation; no message skipped; position never goes back |
| WebSocket gateway (`ws-gateway`, `server.ts`) | sockets per case, subscriptions, presence, counters | upgrade, register, close, heartbeat, relay | several processes over Redis pub/sub; peers that vanish | subscribed iff there are sockets; a broadcast once; dead sockets close |
| Sessions (`modules/auth`) | Session, LoginToken | login link, create, rotate, refresh, log out | concurrent redemption and rotation | one session per login; revoked stays revoked |
| Invitations (`orchestration`, `modules/auth`) | InviteToken, User, UserRole, Session | provision a verifier, accept | token read before the transaction; replaced meanwhile | an invite signs in at most once |
| Scheduler (`modules/cases/*.scheduler`) | timers, `inFlight`, advisory lock | start, boot, stop, run | lock and unlock on pooled connections that may end; stop during boot | at most one scan with its lock, in all processes |
| Offline queue | array | enqueue, sync every 5 s | overlapping rounds, malformed items | nothing lost or doubled while it runs; everything replayed |
| Case list and explanations (`modules/cases`, `explainability`) | none | page through cases; explain a case or a lifecycle | rows commit late; several SELECTs without a transaction | nothing skipped; an explanation holds together |
| Routing, consensus, progress, policies, capabilities, redaction | none | pure functions | ties, order of a SELECT, rounding, several roles | what one says the others do |
| Classification, timeline, evidence storage, tags, health, seed | none, read-only or data | pure functions and I/O | none | out of scope (section 7) |

How the parts meet: every service that changes a case calls the ledger inside
its own transaction (`tx`), except `acceptCase` and the appeals, which open a
second transaction while the first is open; `OrchestratorService.executeEffect`
and the reconciliation write through the *guarded* client of `lib/prisma.ts`,
`transitionCaseLifecycleWithLedger` without a transaction through the unguarded
one. HTTP calls carry a request id (`X-Request-Id`, else random) that reaches
the ledger through an async context; jobs have none.

## 2. Modules

In the order in which they build on one another:

1. `CaseLifecycle` (pure): enum, transition table, event of each state, effect
   of each event in replay.
2. `CaseJournal`: the abstract promise. A case is opened in INTAKE and moves
   along permitted edges, each move written, in the same step, after everything
   the journal says of that case.
3. `CaseLedger`: the core. Eight services as interleaved transactions over
   `Case`, `Execution`, `RoutingDecision`, `LedgerCommit` and the sequence. It
   implements `CaseJournal` (`Journal == INSTANCE CaseJournal WITH ...`).
4. `LedgerReplay` (pure): the loop of `deriveLifecycleFromLedger`, a fold;
   `MCCaseLedger` extends both and compares it with the closed form that
   `CaseLedger` uses.
5. `LedgerAppend`: `LedgerService.commit()` by itself, with supersession,
   authority, request ids and the unique indexes.
6. `ExecutionRecord` and `Execution`: what the execution services promise of a
   case in one step per call, and the transactions that implement it.
   `MCTransactions` puts `LedgerAppend` and `Execution` side by side for TLC.
7. The services beside the case ledger, a module each: `IdempotencyGuard`,
   `IntegrityAudit`, `OfflineQueue`, `Messaging`, `Sockets`, `Sessions`,
   `Invitations`, `Scheduler`, `Authority` (decisions and approvals),
   `CaseList`, `CaseExplain`.
8. `CaseViews`: the computations that answer for a service, as functions, with
   the properties that say they agree.
9. `MCServices` puts the modules of 7 and 8 side by side for TLC. As in
   `MCTransactions` they share no state, so a behaviour belongs to one of them,
   chosen in `Init`; the others stay as they began. Their state spaces add up
   instead of multiplying.
10. Proof modules: `CaseJournal_proofs`, `Replay_proofs`, `CaseLedger_proofs`,
   `LedgerAppend_proofs`, `Execution_proofs`; `OnceOnly_proofs` (guard, messages,
   invitations, sessions, decisions), `Processes_proofs` (scheduler, audit,
   offline queue, sockets) and `Services_proofs` (the cursors, explanations and
   views, then all services together).

`Authority` counts applications of the effect PROVISION_VERIFIER, `Invitations`
has its statements; `Scheduler` says who scans, `CaseLedger` what a scan does to
a case; `CaseExplain` takes the commits of a case as `CaseLedger` shows them to
be, a move and its commit at once, each at the place of its number. Recursive functions and folds are used instead
of RECURSIVE operators in every module proofs depend on.

## 3. How the models correspond to the code

### CaseLedger

| Variable | Code |
|---|---|
| `lifecycle` | `Case.lifecycle`; `Absent` before the row exists |
| `execution`, `decision` | cases with an `Execution` / `RoutingDecision` row |
| `ledger` | committed `LedgerCommit` rows: ts, case, domain and event of the payload envelope, from, to |
| `seq` | last value of `ledger_global_seq` |
| `lock` | who holds the row lock of a Case row |
| `tx` | for each call in flight: the next statement, the lifecycle read, the target, the number drawn |

A call begins with the action that makes its first reads and checks, then takes
one step per statement that other calls can come between:

| Service | Actions |
|---|---|
| `transitionCaseLifecycleWithLedger` | `Transition`, `UpdateCase`, `NextTs`, `CommitTx` |
| `executeEffect` EXECUTION_VERIFIED | `ExecutionVerified`, then `GuardRejects`: its transaction is one of the guarded client |
| `acceptCase` | `AcceptCase` (outer checks), `AcceptInner` (inner transaction), then as a transition |
| `routeCase`, `commitRoutingLedger` | `RouteCase`, `NextTs`, `CommitTx` |
| `startExecution`, `handleIntakeDelivery` | `StartExecution` / `Deliver`, `CreateExecution`, `NextTs`, `CommitTx` |
| `reconcileCaseLifecycle` | `Reconcile`, `ReplayLedger`, `GuardRejects` |
| `bootstrap` | `Bootstrap`, `NextTs`, `CommitTx` |
| any failure | `Rollback` at any step; a number drawn stays drawn |

Reads are of committed data. `UPDATE ... WHERE lifecycle = <read>` waits for the
row lock, re-evaluates its WHERE clause and keeps the lock until the end, as
PostgreSQL does at READ COMMITTED; the INSERT of an Execution waits for an
uncommitted one of the same case. The insert of the commit row and COMMIT are
one step: nobody sees the row before. The `update` branch of reconciliation
past the guard is kept in the model although the guard is never passed; this is
what the run `drift_not_repaired` is about, and `LifecycleLaw` with its mutant
shows that without the guard a reconciliation could leave the law.

Left out: who the actor is, hashes and signatures, payload contents beyond from
and to, request ids (see `LedgerAppend`).

### LedgerAppend

`ledger`, `seq` as above, with supersession, actor and request id; `pending` is
what each open transaction has inserted and not committed; `appends` where each
is. A transaction begins with `Open` and ends with `CommitAppends`, `RollbackAppends`
or an INSERT that fails.
`Append` makes the supersession checks against what the transaction sees,
`NextTs` draws the number, `Insert` fails, waits or inserts according to the
unique indexes of `prisma/schema.prisma:1107-1117`. A transaction may append
several times. `MaySupersede` and `Outranks` are the checks of
`ledger.service.ts:117-145` and of `authorityHierarchy.policy.ts`.

### Execution, ExecutionRecord

One case. `status`, `done`, `evidence`, `rounds` stand for `Execution.status`
(`"none"` without a row), the milestones with `completedAt`, whether a timeline
entry has evidence, and the verification records with
`consensusReached = false`; `logged` counts the ledger entries of each fact up
to 2: a completed milestone is logged at least once (`DoneIsLogged`), and, against
what its guard is for, twice when two calls complete it together
(`MilestoneLoggedOnce`, section 6). `tx` is, for each call in flight, its next statement and what it has
written and so locked; `CommitTx` makes all of it visible in one step.

| Service | Actions |
|---|---|
| `startExecution` | `ReadStart`, `CreateExecution` |
| `CompleteMilestoneService.complete` | `ReadMilestone`, `MarkMilestone`, `Recalculate`, `AutoComplete` |
| `completeExecution`, `initializeVerification` | `ReadCompletion`, `CheckEvidence`, `MarkCompleted`, `InitializeVerification` |
| `handleIntakeDelivery` | `RecordDelivery` |
| `ensureVerificationRound` | `FindRound`, `CreateRound` |

`Accepts` is the gate every one of them passes. `commitLedgerEvent` turns an
absent `intentContext` into null (`commitLedgerEvent.ts:28-36`), the schema of
the ledger has no null (`ledger.schema.ts:28-36`), so such an append throws and
the whole transaction is rolled back; and a request can append once only,
because (tenantId, requestId) is unique. Consequences that the model makes
visible: the route `POST /execution/start` as mounted never starts an execution
(it passes `intentContext: undefined`; the unmounted handler of
`start.execution.ts` passes one), the automatic completion of an execution
never commits, and `initializeVerification` succeeds only where a round is open
already, as the one that bootstrap opens without roles. A call whose caller
passes acceptable data has `intent = TRUE`. Two requests never share a request
id here; `LedgerAppend` treats that case. Left out: the statuses BLOCKED and
ABORTED, which nothing in the repository writes, and `executionProgress` rows.

### LedgerReplay, CaseLifecycle, CaseJournal

`ReplayEffect` holds the arms of the switch that assign; all other events fall
through. `CaseJournal` has no counterpart line by line: it is what
`transitionCaseLifecycleWithLedger.ts` promises in its comments.

### IdempotencyGuard

`responses` is `data/idempotency.json`, `answers` what clients have seen
answered, `http` where each request is. `Arrive`, `Guard` (`idempotencyGuard`),
`Handle` (the handler's transaction), `SaveResponse`
(`commitIdempotencyResponse`, load and write in one synchronous step), `Answer`,
and `ServerCrash` between any two. Only the controllers of bootstrap and delivery
save their response; the other guarded routes never do.

The file may fail. While `disk` is failing, `load()` may return an empty store
(`Loads`), and `save()`, which swallows its error, may leave the file as it was
or cut off (`Saves`); a crash may cut off a write too. A file that is cut off
cannot be parsed and loads as empty, and the next save makes that permanent. The
controller answers 201 in all these cases. `lost` is no state of the program: the
keys whose record was lost in one of these ways, until it is stored again.

The middleware says that it "Persists idempotency records so restarts don't
create duplicates" (`idempotency.middleware.ts:25`). The model does not bear that
out: a key runs twice after a crash between the handler's transaction and the
save, when two first requests are in flight at once, and when its record was lost
as above. What it does bear out is `AnsweredIsNotRepeated`: a request sent again
after an answer reaches the handler for a failure of the file only, never
because of other requests or of a restart as such. Left out: the status of a
replay, which is always 200 because `get()` drops the stored one.

### IntegrityAudit

`audit` is the memory of the `IntegrityService`, `files` its two stores,
`intake` a bootstrap between its two gates. `BootstrapGate` and `HandleIntake`
are the two audits of one bootstrap, so that a hostile narrative counts two
violations; `AuditRestart` constructs the service again from the files. Every
author is trusted, hence the gate never blocks, a blacklisted device included.
Left out: several service objects that overwrite each other's file, and write
failures, which the stores swallow.

### OfflineQueue

`queue`, the `rounds` of the timer that overlap, the routing answers in
`synced`, and what was ever `queued`. `StartSync` takes the queue over,
`SyncIntake` and `Requeue` deal with its head. A replay always answers BLOCKED,
since the projection's task ENROLL is none of `projectTasks`. The queue is
memory and is lost with the process; no file of the repository creates the
service.

### Messaging

`posts` are calls of `createMessage` (`SendMessage`, `FindMessage`,
`RefuseMessage`, `CreateRow` or `DuplicateRow`, `CommitMessage`,
`AnswerMessage`), `reads` calls of `updatePosition` (`ReadUpTo`,
`FetchPosition`, `IgnoreBackward`, `UpsertPosition`), `scroll` a client that
pages back (`OpenCase`, `ScrollBack`). A number stands for (createdAt, id) and
is drawn before the commit. A post that meets a committed row of its mutation in
the unique index is answered 400 although the message is stored. Left out:
receipts (single upserts), unread counts and the broadcast itself (`Sockets`).

### Sockets

`socket` is what became of each connection, `subscribedCases` the flags of each
process, `subQueue` the commands on its subscribing Redis connection, `channels`
what Redis knows, `published` and `inbox` the envelopes before and after Redis,
`received` what each connection got. Actions: `StartUpgrade`, `RefuseUpgrade`,
`RegisterSocket`, `PeerLeaves`, `Heartbeat`, `CloseSocket`, `Publish`,
`RedisSubscription`, `RedisPublish`, `ReceiveEnvelope`, `InstanceCrash`. The
server is made with `noServer`, so its `connection` handler never runs: nobody
listens to pongs, a live socket is terminated after two ticks as a dead one is,
and the connection counter is only ever counted down. Presence equals the
registered sockets. Left out: the rate limit in Redis and the contents of frames.

### Sessions

`loginTokens`, `sessions` (each with its last refresh token), the tokens
`issued` and `known` to clients, and the `calls` between two statements:
`RequestLogin`, `FindLoginToken`, `DeleteExpired` or `DeleteLoginToken`,
`CreateSession`; `FindSession`, `RotateSession`; `Logout`; expiry; `AuthCrash`.
A logout with a token that was rotated meanwhile finds no session, as in the
code. Left out: JWTs and cookies, which only carry these names.

### Invitations

`invites`, `userExists`, `userRoles` are committed rows, `itx` the open
transactions with what they will write and the rows they have locked.
`StartProvision`, `FindRole`, `FindInvites`, `DeleteInvites`, `CreateInvite` are
the PROVISION_VERIFIER effect, `StartAccept`, `FindUser`, `CreateUser`,
`FindRole`, `CreateRole`, `DeleteInvite` are `acceptInvite`; `CommitInvite` and
`RollbackInvite` end both. No route mounts `acceptInvite` and the raw token is
delivered to nobody; the model lets it be called.

### Scheduler

`scheduler` holds `running`, `inFlight`, the boots under way, whether a timer is
remembered and every interval that still fires; `advisory` how often each pooled
connection holds the lock; `safeRuns` the calls of `safeRun`. `StopScheduler`
during a boot and `StartScheduler` again leave an interval that nobody clears.
`Unlock` may go over another connection than `TryLock` and then does nothing:
the lock stays held, and later runs of other processes find it taken until that
connection ends. `LoseConnection` ends one: the pool recycles it, or the database
or the network drops it. Postgres then releases what it held, and a scan in
progress goes on over other connections and does not look again. `lost` marks
such scans. Hence `OneRunUnderLock`, what the lock can do, and not
`OneRunAtATime`, what the design notes say (section 6). Nothing in the repository
starts the scheduler.

### Authority

`approvals` and `decisions` are rows, `provisioned` counts applied effects,
`rtx` the open transactions of `resolve()`: `ReadRequest`, `UpdateRequest`,
`FindActive`, `Supersede`, `CreateDecision`, `ExecuteEffect`,
`CommitResolution`. `Propose` and `GateUpdate` are the gate's, `CastVote` and
`RefuseVote` are `recordVerification`. Only PROVISION_VERIFIER is implemented;
the other gated effects throw and leave the request PENDING. The status is
checked before, not by, the update, and the active decisions are looked for
before the new one is created: two resolutions at once leave two active
decisions, apply the effect twice where they are of one request, and an approval
with a rejection leaves REJECTED with a decision (`OneActiveDecision` does not
hold, section 6). `ResolutionsReplaceWhatTheySaw` says what supersession keeps:
whatever a resolution found active is superseded once it commits, also if another
resolution held or changed the row meanwhile, and nothing becomes active again.

### CaseList, CaseExplain, CaseViews

`CaseList`: a rank stands for (createdAt, id) of a case; cases commit later than
they are ranked. `ListCases` is the handler's SELECT and its cursor,
`OpenList` and `FollowCursor` a client that pages.

`CaseExplain`: `stored`, `trail` and `decided` are the case, its commits and its
decisions, which move under the readers; `explained` what each reader has read.
`MoveExplained` is a transition; `FactExplained` every commit without a move:
routing, starts, deliveries and milestones, completions and requests for
verification, at any stage of the case. A commit appears at the place of the
number it drew, which may be before commits that were there already; only moves
come in the order in which they are made, as they draw under the lock of the
case. So the replay of a complete ledger may differ from the row (`Overwritten`),
which is the drift of `drift_not_repaired`; `ExplanationHoldsTogether` allows it
and excludes the drifts that only the reading in pieces would produce.
`ReadOrder` is the order of the SELECTs of each service, `CaseAnswer` and
`LifecycleAnswer` what is computed from them, with the redaction. As mounted,
`POST /cases/explain` never ends (its role middleware does not call `next`); the
service behind it is modelled all the same. POLICY, LEDGER and TAG references
take the same path as a decision's and are not told apart.

`CaseViews`: `computeRouting`, `Consensus` and `VerificationForecast`,
`PercentOf`, `CaseCapabilities`, the policies, their simulation and the task
table, explainability roles and what each may see. Several of them have no
caller (`deriveCaseCapabilities`, `explainVerificationState`, the policies, the
simulation, task progression). `probe`, the input, is chosen in `Init`.

## 4. Runs

| Run | Instance | Shows |
|---|---|---|
| `case_ledger` | 1 case; 2 calls at once up to 5 numbers, then 1 up to 7; failures anywhere | type correctness; `LedgerIsThePath`; `ExecutingHasExecution`; `CreationIsFirst`; `LifecycleLaw`; `ReplayRebuildsKnownStates`; the replay loop equals its closed form (`ReplayIsByLastEffect`); implements `CaseJournal`; `EveryCallEnds` |
| `transactions` | appends: 2 tenants, 2 transactions, 2 requests, repeated at will, 3 numbers | `SupersededOnce`, `AuthorityRises`, `OncePerRequest` |
| | execution: 2 milestones, 2 calls at once of any kind, failures anywhere | `StartedOnce`, `DoneIsLogged`, `CompletedIsBacked`, `StatusRises`, implements `ExecutionRecord` |
| | both | type correctness; `NoTransactionStays`; no deadlock |
| `services` | 12 services, one per behaviour | type correctness and 16 properties, below |
| `replay_not_faithful` | violation | replay ignores CASE_ESCALATED and CASE_REJECTED and takes EXECUTION_COMPLETED for EXECUTING |
| `routing_not_idempotent` | violation | two concurrent `routeCase` calls both route the case |
| `drift_not_repaired` | violation | a drift is never repaired, because the repair goes through the guarded client |
| `all_done_not_completed` | violation | two last milestones at once: all are done, the execution is in progress, and no milestone call is left to complete it |
| `milestone_logged_twice` | violation | two calls complete one milestone and both log it |
| `two_open_rounds` | violation | two requests that both find no round both open one |
| `two_active_decisions` | violation | two resolutions that both look before either commits leave two active decisions |
| `two_scans_at_once` | violation | the connection with the lock ends during a scan, and another process scans as well |
| `read_position_regresses` | violation | two read positions of one user, compared with the same stored one, are written in the other order |

What `services` asks of each:

| Service | Instance | Properties |
|---|---|---|
| `IdempotencyGuard` | 2 requests, 2 keys, 1 body, a file that fails | `AnsweredIsNotRepeated` |
| `IntegrityAudit` | 2 devices, 2 narratives, one hostile | `BlacklistIsPermanent` |
| `OfflineQueue` | 3 intakes, two malformed, 2 rounds at once | `NoIntakeIsLost`, `EveryIntakeIsReplayed` |
| `Messaging` | 2 posts, 1 mutation or none, 1 reader, pages of 1 | `OneMessagePerMutation`, `PagesSkipNothing` |
| `Sockets` | 2 processes, 1 case, 2 connections, 1 broadcast | `SubscriptionFollowsSockets`, `DeliveredAtMostOnce`, `DeadSocketIsClosed` |
| `Sessions` | 2 login tokens, 2 calls, 3 refresh tokens | `OneSessionPerLogin`, `RevokedStaysRevoked` |
| `Invitations` | 2 transactions, 1 role, 3 invites | `InviteIsSingleUse` |
| `Scheduler` | 2 processes of 2 connections that may end, 2 runs, 1 tenant | `OneRunUnderLock` |
| `Authority` | 2 approvers, 2 requests, 2 decisions | `ResolutionsReplaceWhatTheySaw` |
| `CaseList` | 4 cases, limits 1 and 2 | `PagesSkipNothing` |
| `CaseExplain` | 1 reader, 2 role sets, 2 decisions, 4 commits | `ExplanationHoldsTogether` |
| `CaseViews` | 3 bodies, 3 votes of each kind, all states and roles | `ViewsAgree` |

Bounds. `MaxTs` bounds the sequence, hence the number of commits; a call only
begins if a number is left for everyone in flight, so no call is stuck on the
bound. `MaxShared` is where calls no longer begin next to others: two race at every
statement while five numbers are drawn, and one at a time goes on to seven. With
five numbers a case can be created, moved twice, routed and delivered: each kind
of race between two of the services occurs. With seven the path from INTAKE to
COMPLETED fits, its Execution coming from a start or a delivery;
REJECTED is one number further and left to the proofs. Cases interact only through the sequence; two transactions on different cases are
covered by the proofs, and by numbers that other transactions burn (`Rollback`
after `NextTs`). In `transactions`, three numbers are enough for a commit and two
overrides that race for it, and for a chain of overrides; of the execution
nothing but the counts is bounded. The code seeds three milestones; with two, the
last two can race and each can be the last one.
In `services` there are two of everything that can race, and one step more than
a single round trip in everything that is counted: a session can be rotated
twice, an invite replaced twice, a decision superseded once, a case routed and
delivered between two moves while it is explained. The limits of
the case list are 20 and 100 in the code; with 1 and 2 four cases make four
pages. A registration waits until Redis has taken the earlier command of
its process, which delays it and drops nothing; a close does not wait.
`CHECK_DEADLOCK FALSE` is set where the bound lets the system stop.

Fairness. A call in flight is carried on by its own event-loop turns: weak
fairness of its steps. A statement that waits for a row lock or a unique-index
entry is queued by PostgreSQL first come, first served: strong fairness of
`UpdateCase`, `CreateExecution`, `Insert` and the statements of `Execution`
(`TransactionsFairness` restates the last two for the one that runs). No call has
to begin, no transaction has to fail. `ReconcilingSpec` adds that reconciliation of a case
keeps being run, which is what the scheduler is for. In `services` the offline
queue's timer fires for ever and a replay that is awaited ends (weak fairness of
`StartSync`, and of `SyncIntake` or `Requeue`); the heartbeat's interval ticks
and Node delivers "close" after a terminate (weak fairness of `Heartbeat` and
`CloseSocket`). `ServicesFairness` restates these for the service that runs.

## 5. Proofs

Every type invariant, safety invariant and action property that a passing run
checks is the conclusion of a theorem, and so are the two refinements. Two
theorems about the abstract journal, `JournalTyping` and `JournalCorrect`, have no
run of their own; `case_ledger` checks the refinement they are used for. Liveness
is left to TLC.

All proofs hold for every value of the constants that meets the named
assumptions of the modules. These are: `Absent` is not a lifecycle, `None` is no
worker, case, tenant, request or milestone; bounds and caps are natural numbers, positive where
a first step needs one; stamps are natural numbers, `Assigned` is a set of cases,
proofs are of the three kinds the hierarchy tells apart, a milestone is not one
of the other facts of the ledger; `NoKey`, `NoMutation`, `NoCursor`, `Unread`
and `Nobody` are none of what they stand in for; a default limit is not above the
maximum (20 and 100 in the code) and a page has 1 to 100 messages; the
connections that may be open at once, and the executing bodies, whose ids are
numbers, are finitely many. The number of calls, processes, transactions, cases, readers and rounds is
not bounded by any of them.

* `CaseJournal_proofs`: `JournalTyping`, `JournalCorrect`. Invariant: the last
  entry of a case says where it stands and every stamp is used once per case.
* `CaseLedger_proofs`: `LedgerInv` is inductive. Typing alone is not enough,
  because a commit writes what was decided several steps before. The
  strengthening says what a call may rely on between its statements:
  `HoldsRow` (past its UPDATE it holds the row lock, and the row is as it read
  it), `Fresh` (the number it has drawn is above those of all moves of its
  case: whoever draws later for that case must first get the lock), `Creates`
  (nobody else knows the id of a case being created), `SeqInv`, `WellFormed`.
  From it: `LedgerTyping`, `LedgerImplementsJournal` (every step of a service is
  a step of the journal or a stutter), and with `JournalCorrect` instantiated,
  `LedgerRecordsThePath`.
  Its second half takes `LedgerInv` and three more facts (an Execution row that
  was seen is not deleted; numbers are not shared; a case that exists has been
  announced) to `LifecycleLawHolds`, `ExecutionExists`, `CreationComesFirst` and
  `ReplayAfterTransition`. `ReplayLoopIsDerived` then says that the loop of
  `deriveLifecycleFromLedger`, run over the commits of a case ORDER BY ts,
  returns what the closed form of `CaseLedger` does: since no two commits of a
  case share a number, ranking them is a bijection (`Ranking`), and the rest is
  `ReplayByLastEffect`.
* `Replay_proofs`: `ReplayByLastEffect`, the loop over a list of any length is
  decided by the last event with an effect. The loop is a fold. What it does to
  longer and longer prefixes is shown without an induction rule: if some prefix
  went wrong there would be a shortest one (`LeastNumber`, from the
  well-foundedness of the numbers), and the step from the one before it does not
  go wrong.
* `LedgerAppend_proofs`: `AppendInv` is inductive: numbers are drawn once
  (`NumberInv`), no two rows, committed or pending, share a key (`IndexInv`),
  and every override, also one checked but not yet inserted, is justified by
  what its transaction sees (`JustifiedInv`; rows do not disappear from under a
  check). From it: `AppendTyping`, `SupersessionIsUnique`, `OverridesEscalate`,
  `ExactlyOnce`.

* `Execution_proofs`: `Invariance` of `IInv`. The facts to be shown are about
  committed state, and a transaction commits what it decided several statements
  ago; so `Knows` says what each call knows at each point (a completion past its
  second statement knows there is evidence, at COMMIT that a round is open; a
  start that has inserted knows there was no execution), and `RowHeldOnce` that
  the Execution row has one holder, which is why what a holder has read of
  `status` lasts until it commits (`KnowledgeLasts`). From it: `TypeCorrect`,
  `StartsOnce`, `DoneIffLogged`, `CompletionIsBacked`, `NeverReopened`, and
  `Implementation`, the refinement of `ExecutionRecord`.

* `Processes_proofs`, what a process keeps in memory:
  * `SchedulerInv`. The lock nests and an unlock may miss it,
    so a count of locks says nothing; what is inductive is that one connection at
    most holds the lock (`OneHolder`), that the flag of a process is set while one
    of its calls is in progress and that it has one such call (`FlagIsSet`), that
    the process of a scan that has not lost a lock holds it on some connection,
    since nobody but the run itself unlocks there and a connection that ends marks
    the scan (`ScansHoldLock`), and that the timers stay counted over stop and boot
    (`TimersCount`). No connection is taken to live as long as its process. From
    it: `SchedulerInvariance`, `LockedScansExclude`.
  * `AuditInv`: the two files hold what the memory holds, so a restart forgets
    nothing but the violation counts; and a device whose count has reached the
    limit is on the blacklist already. From it `BlacklistLasts`.
  * `QueueInv`: nothing waits in two positions of the queue and the rounds
    (`WaitsOnce`), what waits has not been replayed (`WaitsFresh`), and what was
    queued waits or was replayed once (`Accounted`). From it `NothingIsLost`;
    fairness plays no part in it.
  * `SocketInv`. `SubscriptionFollowsSockets` speaks of a process whose commands
    Redis has all applied; what is inductive is about the commands that wait: a
    flag is set exactly while the process has sockets of the case
    (`FlagsFollowSockets`), and the last command about a case that is still
    waiting says what the flag says (`CommandsFollowFlags`). For
    `DeliveredAtMostOnce`: a broadcast has one envelope, then its copies
    (`OneEnvelope`), and who was sent it was sent it once: while the envelope waits
    they are all of the publishing process, and a copy still on its way to their
    process is one that the process itself published and ignores (`SentOnce`). From these
    `SocketInvariance`, `SubscriptionsAgree`, `SentOnceOnly`.
* `OnceOnly_proofs`, what is asked twice is done once:
  * `GuardInv`: a key that was answered, or is about to be by a saving route, is
    recorded or lost, whatever reads and writes have failed; so a guard that can
    read the file lets such a key pass only if its record was lost. From it
    `AnsweredOnce`.
  * `MessagesInv`: while a row waits for its commit, no other transaction waits
    with a row of the same mutation and no message has it, which is what the
    unique index says of rows not yet visible; what is published is committed.
    From it `PostedOnce`.
  * `InviteInv`: the rows a transaction is about to delete are there, and locked
    by it alone; an invite about to be inserted has a new id; a used invite has no
    row. From it `InvitedOnce`, and `InviteTypes` with what is known of roles.
  * `SessionsInv`. A session's id is a token already issued
    (`IdsAreFresh`), and of each login token there is one of: the unredeemed row, a
    call past the delete that succeeded, a session (`OneOutcome`). Rotation, logout
    and expiry rewrite a session without touching its id, its login or its
    revocation. From it: `OneSessionEach`, `RevocationIsFinal`.
  * `AuthorityInv`: decision numbers are not shared, also not with one that a
    resolution has drawn and not committed (`Apart`); what a resolution found
    active is still there, and active only as it was found (`Looked`); once it has
    superseded, whatever of it is still active is locked by it (`Replaced`) and by
    nobody else (`Apart`), so that its commit leaves none of it active. From it
    `ResolutionsReplace`.
* `Services_proofs`:
  * `ScrollInv` and `CaseListInv`: what was there when the client began has been
    shown or lies beyond the cursor. The step is a lemma about the page itself:
    every row is on it or beyond the cursor it returns (`PageOrCursor`,
    `PageOfList`), whatever rows are committed between two pages. From them
    `ScrollInvariance`, `CaseListInvariance`, `PagesLoseNothing`.
  * `ExplainInv`. Commits appear anywhere behind the first, so nothing is
    inductive about the last entry of a ledger; what is, is about its moves: each
    goes further than those before it (`Rising`, along a rank of the states that
    the table respects), none goes further than the case has gone (`UpTo`), and
    the one into the present state is there (`Announced`). A reader that has read
    the lifecycle finds its move on every ledger it can still read (`ReadsAgree`). With
    `ReplayByLastEffect` this decides what replay makes of what was read: if the case
    has not moved on, no move comes after the one into the lifecycle shown, and a
    drift needs a commit of another writer behind it (`DriftIsOverwritten`). From
    it `ExplainInvariance`.
  * `ViewsInvariance`: for any set of bodies in any order of the SELECT, any
    number of votes, any subset of the milestones and of the roles. A fold over a set becomes a sum
    by unfolding it, since there are three milestones (`WeightIsSum`).
  * `EachService`: a behaviour of `MCServices` is one of each of its services,
    since the one that was chosen takes its own steps and the others none. From
    it and all of the above `ServicesTypes` and `ServicesKeepPromises`.

Only model-checked: the liveness properties `EveryCallEnds`,
`NoTransactionStays`, `EveryIntakeIsReplayed` and `DeadSocketIsClosed`. They rest on fairness, that is on ENABLED, which the
provers do not treat.

## 6. Findings

* `modules/cases/caseLifecycle.events.ts:34`: replay does not rebuild the
  states HUMAN_REVIEW, COMPLETED and REJECTED, although the comment at
  `transitionCaseLifecycleWithLedger.ts:285` says that transitions "remain
  replayable".
* `modules/routing/routing.service.ts:61`: `routeCase` is documented as
  idempotent; concurrent calls both route.
* `modules/cases/lifecycleReconciliation.service.ts:89`: the repair is stopped
  by `enforceLifecycleLaw`; the job's law says "Projection repairable".
* `modules/execution/completeMilestone.service.ts:121`: "Automatic execution
  completion when progress reaches 100%" (line 35) does not happen when the last
  milestones are completed concurrently.
* `modules/execution/completeMilestone.service.ts:66`: the guard that "Prevents
  double ledger writes and race-condition duplication" (line 65) reads
  `completedAt` before an update by id; two calls for one milestone both log it.
* `modules/verification/requestVerification.service.ts:91`: "exactly one OPEN
  verification round" (line 82) is a read followed by a create; concurrent
  requests open two.
* `modules/decision/decision.service.ts:102`: "Single active decision per (caseId,
  decisionType)" (line 52) is an updateMany followed by a create; two resolutions
  that both look before either commits leave two. Where they are of one request,
  both have passed the check of `approval-resolution.service.ts:57`.
* `modules/cases/lifecycleReconciliation.scheduler.ts:95`: "Only one instance
  executes reconciliation at a time" (line 179) holds as long as the pooled
  connection that took the lock lives; nothing keeps it for the run.
* `modules/message/read-position.service.ts:92`: "Read position can ONLY move
  forward" and "No backward regression under race conditions" (lines 9 and 12)
  rest on a comparison with a position read before, and an upsert without a
  condition.

## 7. Not modelled

What no reachable state of the program distinguishes:

* Disbursement, tranches, appeals, and the quorum of a verification
  (`verification.service.ts:199-256`). `commitLedgerEvent` turns an absent
  `intentContext` into null, which the schema of the ledger refuses. None of
  `authorizeDisbursement`, `reverseTranche`, `openAppeal` and
  `recordVerification` passes one, so each rolls back; `executeDisbursement`, the
  disbursement reconciliation, compensation and `resolveAppeal` then find nothing
  to act on. The gate is modelled (`Accepts` in `Execution`, `RefuseVote` in
  `Authority`). A model of what lies behind it would be one of a program that
  does not run.
* `timeline.service` filters by event types that `LedgerEventType` does not
  have: its answer is always empty.
* The evidence controller requires `req.user.id`, which `authMiddleware` does
  not set (it sets `userId`): always 401. `attachToTimelineEntry` has no caller.
* `recordExecutionProgress`, `mock-engine.ts`, `sync.service.ts`,
  `orchestrateExecutionVerification.service` (a duplicate),
  `finalizeVerification*`, verification escalation and the tag services have no
  caller. `routing.controller`, `getCaseDetails`, receipts and health probes only
  read or upsert one row.

What has no state or order that a model checker would tell us about: hashing and
signatures, keys and ledger metrics, object storage, text classification and
address resolution, logging, the wiring of routes, the seed and the generators.

Known abstractions of modelled parts: the connections of the database pool are
not counted (its size is a matter of deployment; a call may fail at any
statement, which is what a timeout amounts to); the rate limit of upgrades
(`server.ts:58`, INCR then EXPIRE) is not modelled; a case is taken alone where
the code keeps nothing across cases.

What a model reaches and no property is about: a key that runs twice
(`IdempotencyGuard`, with the claim of `idempotency.middleware.ts:25`; section
3); an advisory lock left behind by an unlock that missed it (`Scheduler`); a
second rotation that overwrites the first (`Sessions`); a case committed late,
behind a client's cursor (`CaseList`); a connection counter that is never
positive (`Sockets`). What no model has: several `IntegrityService` objects that
overwrite each other's files; the loss of the offline queue, which is memory, with
its process; a new instance id after a restart (`ws-gateway.ts:13`), as `Sockets`
keeps the id of a process, which the properties only use to tell processes apart.
