----------------------------- MODULE Invitations -----------------------------
(***************************************************************************)
(* Verifier provisioning for one tenant and one e-mail address: the        *)
(* PROVISION_VERIFIER effect writes invite tokens, acceptInvite turns one  *)
(* into a user with a role and a session.  Both are transactions at READ   *)
(* COMMITTED, statement by statement: a read sees what is committed, an    *)
(* insert that meets another transaction's row of a unique index waits for *)
(* it, a delete waits for a row that another transaction is deleting.      *)
(***************************************************************************)
EXTENDS Integers, FiniteSets

CONSTANTS
  InviteTx,    \* transactions that may be open at once
  RoleKey,     \* roles of the tenant
  MaxInvites   \* bound on the invite tokens created

ASSUME MaxInvitesAssumption == MaxInvites \in Nat \ {0}

VARIABLES
  invites,        \* committed rows of InviteToken
  userExists,     \* the address has a committed row of User
  userRoles,      \* the roles of that user
  inviteSessions, \* how many sessions acceptInvite created for each invite
  lastInvite,     \* the last invite drawn
  itx             \* the open transactions: the invite they accept or create, their locks

inviteVars == <<invites, userExists, userRoles, inviteSessions, lastInvite, itx>>

NoInvite == [id |-> 0, roleKey |-> "none"]
Idle == [pc |-> "none", invite |-> NoInvite, newUser |-> FALSE, newRole |-> FALSE,
         snapshot |-> {}, locked |-> {}]

InviteInit ==
  /\ invites = {}
  /\ userExists = FALSE
  /\ userRoles = {}
  /\ inviteSessions = [n \in 1..MaxInvites |-> 0]
  /\ lastInvite = 0
  /\ itx = [w \in InviteTx |-> Idle]

NothingCommitted == UNCHANGED <<invites, userExists, userRoles, inviteSessions>>
At(w, pc) == itx[w].pc = pc
Go(w, t) == itx' = [itx EXCEPT ![w] = t] /\ NothingCommitted /\ UNCHANGED lastInvite
Other(w) == InviteTx \ {w}

\* acceptInvite(): the token is read before the transaction, which may find it gone.
StartAccept(w) ==
  /\ At(w, "none")
  /\ \E i \in invites : Go(w, [Idle EXCEPT !.pc = "findUser", !.invite = i])

FindUser(w) ==
  /\ At(w, "findUser")
  /\ Go(w, [itx[w] EXCEPT !.pc = IF userExists THEN "findRole" ELSE "createUser"])

\* @@unique([tenantId, email]): the insert fails on a committed row and waits for another's.
CreateUser(w) ==
  /\ At(w, "createUser")
  /\ \A v \in Other(w) : ~itx[v].newUser
  /\ Go(w, IF userExists THEN Idle ELSE [itx[w] EXCEPT !.pc = "findRole", !.newUser = TRUE])

\* userRole.findFirst, of acceptInvite or of the effect for a user that exists.
FindRole(w) ==
  /\ At(w, "findRole") \/ At(w, "findRoleOfUser")
  /\ LET attached == itx[w].invite.roleKey \in userRoles /\ ~itx[w].newUser
     IN  \/ At(w, "findRole") /\ Go(w, [itx[w] EXCEPT !.pc = IF attached THEN "deleteInvite" ELSE "createRole"])
         \/ At(w, "findRoleOfUser") /\ Go(w, IF attached THEN Idle ELSE [itx[w] EXCEPT !.pc = "createRoleOfUser"])

\* @@unique([userId, roleId]).
CreateRole(w) ==
  /\ At(w, "createRole") \/ At(w, "createRoleOfUser")
  /\ \A v \in Other(w) : ~(itx[v].newRole /\ itx[v].invite.roleKey = itx[w].invite.roleKey)
  /\ Go(w, IF itx[w].invite.roleKey \in userRoles THEN Idle
           ELSE [itx[w] EXCEPT !.pc = IF At(w, "createRole") THEN "deleteInvite" ELSE "commit",
                               !.newRole = TRUE])

Unlocked(w, rows) == \A v \in Other(w) : itx[v].locked \cap rows = {}

\* Variant: deleteMany, content with nothing to delete.
DeleteManyInvite(w) ==
  /\ At(w, "deleteInvite")
  /\ Unlocked(w, {itx[w].invite})
  /\ Go(w, [itx[w] EXCEPT !.pc = "commitSession", !.locked = {itx[w].invite} \cap invites])

\* "Delete invite (single-use)": delete by id throws, and rolls back, when the row is gone.
DeleteInvite(w) ==
  /\ At(w, "deleteInvite")
  /\ Unlocked(w, {itx[w].invite})
  /\ Go(w, IF itx[w].invite \notin invites THEN Idle
           ELSE [itx[w] EXCEPT !.pc = "commitSession", !.locked = {itx[w].invite}])

\* PROVISION_VERIFIER, the role being there: an existing user is given it.
StartProvision(w, roleKey) ==
  /\ At(w, "none")
  /\ Go(w, [Idle EXCEPT !.pc = IF userExists THEN "findRoleOfUser" ELSE "findInvites",
                        !.invite = [id |-> 0, roleKey |-> roleKey]])

\* deleteMany, first the snapshot, then the locks: rows that went meanwhile are passed over,
\* rows that came meanwhile are not seen.
FindInvites(w) ==
  /\ At(w, "findInvites")
  /\ Go(w, [itx[w] EXCEPT !.pc = "deleteInvites", !.snapshot = invites])

DeleteInvites(w) ==
  /\ At(w, "deleteInvites")
  /\ Unlocked(w, itx[w].snapshot)
  /\ Go(w, [itx[w] EXCEPT !.pc = "createInvite", !.snapshot = {}, !.locked = itx[w].snapshot \cap invites])

\* inviteToken.create with a fresh token.
CreateInvite(w) ==
  /\ At(w, "createInvite")
  /\ lastInvite < MaxInvites
  /\ lastInvite' = lastInvite + 1
  /\ itx' = [itx EXCEPT ![w].pc = "commit", ![w].invite.id = lastInvite + 1]
  /\ NothingCommitted

\* The transaction commits what it wrote; acceptInvite has created its session.
CommitInvite(w) ==
  LET t == itx[w]
  IN  /\ At(w, "commit") \/ At(w, "commitSession")
      /\ userExists' = (userExists \/ t.newUser)
      /\ userRoles' = IF t.newRole THEN userRoles \cup {t.invite.roleKey} ELSE userRoles
      /\ invites' = (invites \ t.locked) \cup
           (IF t.pc = "commit" /\ ~t.newRole THEN {t.invite} ELSE {})
      /\ inviteSessions' = IF t.pc = "commitSession" THEN [inviteSessions EXCEPT ![t.invite.id] = @ + 1]
                           ELSE inviteSessions
      /\ itx' = [itx EXCEPT ![w] = Idle]
      /\ UNCHANGED lastInvite

\* The process ends, or a statement fails: the transaction rolls back.
RollbackInvite(w) == ~At(w, "none") /\ Go(w, Idle)

InviteNext ==
  \E w \in InviteTx :
    \/ StartAccept(w) \/ FindUser(w) \/ CreateUser(w) \/ FindRole(w) \/ CreateRole(w) \/ DeleteInvite(w)
    \/ \E roleKey \in RoleKey : StartProvision(w, roleKey)
    \/ FindInvites(w) \/ DeleteInvites(w) \/ CreateInvite(w)
    \/ CommitInvite(w) \/ RollbackInvite(w)

InviteSpec == InviteInit /\ [][InviteNext]_inviteVars
-----------------------------------------------------------------------------
Invites == [id: 0..MaxInvites, roleKey: RoleKey \cup {"none"}]

InviteTypeOK ==
  /\ invites \subseteq Invites
  /\ userExists \in BOOLEAN /\ userRoles \subseteq RoleKey
  /\ inviteSessions \in [1..MaxInvites -> Nat]
  /\ lastInvite \in 0..MaxInvites
  /\ itx \in [InviteTx ->
       [pc: {"none", "findUser", "createUser", "findRole", "findRoleOfUser", "createRole", "createRoleOfUser",
             "deleteInvite", "findInvites", "deleteInvites", "createInvite", "commit", "commitSession"},
        invite: Invites, newUser: BOOLEAN, newRole: BOOLEAN,
        snapshot: SUBSET Invites, locked: SUBSET Invites]]

(***************************************************************************)
(* "Invite token is deleted after use" (single-use), although the token is *)
(* read before the transaction and provisioning replaces tokens meanwhile: *)
(* an invite signs in at most once, and is gone once it has.               *)
(***************************************************************************)
InviteIsSingleUse ==
  \A n \in 1..MaxInvites :
    inviteSessions[n] + Cardinality({ i \in invites : i.id = n }) <= 1
=============================================================================
