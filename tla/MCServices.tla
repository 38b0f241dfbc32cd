----------------------------- MODULE MCServices -----------------------------
(***************************************************************************)
(* The services beside the case ledger, for TLC.  They share no state, so  *)
(* that they need not interleave: the service of a behaviour is chosen at  *)
(* its start, and the others stay as they began.                           *)
(***************************************************************************)
EXTENDS IdempotencyGuard, IntegrityAudit, OfflineQueue, Messaging, Sockets, Sessions,
        Invitations, Scheduler, Authority, CaseList, CaseExplain, CaseViews

VARIABLE service

servicesVars ==
  <<service, guardVars, auditVars, queueVars, messagingVars, socketVars, sessionVars, inviteVars,
    schedulerVars, authorityVars, caseListVars, explainVars, probe>>

Service == {"guard", "audit", "queue", "messaging", "sockets", "sessions", "invitations",
            "scheduler", "authority", "list", "explain", "views"}

\* A view computes on its probe; any one will do for the other services.
ServicesInit ==
  /\ service \in Service
  /\ GuardInit /\ AuditInit /\ QueueInit /\ MessagingInit /\ SocketInit /\ SessionsInit
  /\ InviteInit /\ SchedulerInit /\ AuthorityInit /\ CaseListInit /\ ExplainInit
  /\ IF service = "views" THEN ViewsInit ELSE probe = [kind |-> "progress", done |-> {}]

Others(own) ==
  /\ UNCHANGED service
  /\ IF own = "guard" THEN TRUE ELSE UNCHANGED guardVars
  /\ IF own = "audit" THEN TRUE ELSE UNCHANGED auditVars
  /\ IF own = "queue" THEN TRUE ELSE UNCHANGED queueVars
  /\ IF own = "messaging" THEN TRUE ELSE UNCHANGED messagingVars
  /\ IF own = "sockets" THEN TRUE ELSE UNCHANGED socketVars
  /\ IF own = "sessions" THEN TRUE ELSE UNCHANGED sessionVars
  /\ IF own = "invitations" THEN TRUE ELSE UNCHANGED inviteVars
  /\ IF own = "scheduler" THEN TRUE ELSE UNCHANGED schedulerVars
  /\ IF own = "authority" THEN TRUE ELSE UNCHANGED authorityVars
  /\ IF own = "list" THEN TRUE ELSE UNCHANGED caseListVars
  /\ IF own = "explain" THEN TRUE ELSE UNCHANGED explainVars
  /\ IF own = "views" THEN TRUE ELSE UNCHANGED probe

ServicesNext ==
  \/ service = "guard" /\ GuardNext /\ Others("guard")
  \/ service = "audit" /\ AuditNext /\ Others("audit")
  \/ service = "queue" /\ QueueNext /\ Others("queue")
  \/ service = "messaging" /\ MessagingNext /\ Others("messaging")
  \/ service = "sockets" /\ SocketNext /\ Others("sockets")
  \/ service = "sessions" /\ SessionsNext /\ Others("sessions")
  \/ service = "invitations" /\ InviteNext /\ Others("invitations")
  \/ service = "scheduler" /\ SchedulerNext /\ Others("scheduler")
  \/ service = "authority" /\ AuthorityNext /\ Others("authority")
  \/ service = "list" /\ CaseListNext /\ Others("list")
  \/ service = "explain" /\ ExplainNext /\ Others("explain")
  \/ service = "views" /\ ViewsNext /\ Others("views")

\* QueueFairness and SocketFairness, of the service that runs.
ServicesFairness ==
  /\ \A r \in SyncRound :
       /\ WF_queueVars(service = "queue" /\ StartSync(r))
       /\ WF_queueVars(service = "queue" /\ (SyncIntake(r) \/ Requeue(r)))
  /\ \A i \in Instance : WF_socketVars(service = "sockets" /\ Heartbeat(i))
  /\ \A s \in Socket : WF_socketVars(service = "sockets" /\ CloseSocket(s))

ServicesSpec == ServicesInit /\ [][ServicesNext]_servicesVars /\ ServicesFairness
-----------------------------------------------------------------------------
\* What each variable of each service holds.
ServicesTypeOK ==
  /\ service \in Service
  /\ GuardTypeOK /\ AuditTypeOK /\ QueueTypeOK /\ MessagingTypeOK /\ SocketTypeOK
  /\ SessionsTypeOK /\ InviteTypeOK /\ SchedulerTypeOK /\ AuthorityTypeOK
  /\ CaseListTypeOK /\ ExplainTypeOK /\ ViewsTypeOK

\* The two cursors, of the messages of a case and of the cases of a tenant, lose
\* and repeat nothing while rows are added around them.
PagesSkipNothing == CursorSkipsNothing /\ CaseListSkipsNothing
=============================================================================
