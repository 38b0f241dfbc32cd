------------------------------ MODULE Sessions ------------------------------
(***************************************************************************)
(* auth.controller, refresh.service and auth.middleware: single statements *)
(* without a transaction, so that a login, the refreshes of several tabs   *)
(* and a logout interleave between them, and the process may end between   *)
(* any two.  A refresh token is a number, fresh when it is issued; the row *)
(* of a session keeps the last one (by its hash).                          *)
(***************************************************************************)
EXTENDS Integers, FiniteSets

CONSTANTS
  LoginToken,  \* magic login tokens that may be requested
  AuthCall,    \* requests in flight at once
  MaxRefresh   \* bound on the refresh tokens issued

ASSUME MaxRefreshAssumption == MaxRefresh \in Nat \ {0}

VARIABLES
  loginTokens,  \* the rows of LoginToken: "unused", "fresh", "expired" or "deleted"
  sessions,     \* the rows of Session, a session is named by its first refresh token
  issued,       \* the last refresh token issued
  known,        \* refresh tokens that a client has been given
  calls         \* what each request is about to do

sessionVars == <<loginTokens, sessions, issued, known, calls>>

NoLogin == [pc |-> "none"]

SessionsInit ==
  /\ loginTokens = [t \in LoginToken |-> "unused"]
  /\ sessions = {}
  /\ issued = 0
  /\ known = {}
  /\ calls = [a \in AuthCall |-> NoLogin]

Step(a, call) == calls' = [calls EXCEPT ![a] = call]
Reply(a) == Step(a, NoLogin)

\* requestLogin(): an active user of the tenant gets a token that lives ten minutes.
RequestLogin(t) ==
  /\ loginTokens[t] = "unused"
  /\ loginTokens' = [loginTokens EXCEPT ![t] = "fresh"]
  /\ UNCHANGED <<sessions, issued, known, calls>>

LoginTokenExpires(t) ==
  /\ loginTokens[t] = "fresh"
  /\ loginTokens' = [loginTokens EXCEPT ![t] = "expired"]
  /\ UNCHANGED <<sessions, issued, known, calls>>

\* verifyLogin(), findUnique: the row as it is now, with its expiry.
FindLoginToken(a, t) ==
  /\ calls[a] = NoLogin
  /\ loginTokens[t] \in {"fresh", "expired"}
  /\ Step(a, [pc |-> IF loginTokens[t] = "fresh" THEN "deleteToken" ELSE "deleteExpired",
              login |-> t, session |-> 0])
  /\ UNCHANGED <<loginTokens, sessions, issued, known>>

\* The token has expired: it is deleted (or gone already) and the answer is no.
DeleteExpired(a) ==
  /\ calls[a].pc = "deleteExpired"
  /\ loginTokens' = [loginTokens EXCEPT ![calls[a].login] = "deleted"]
  /\ Reply(a)
  /\ UNCHANGED <<sessions, issued, known>>

\* Variant: deleteMany, which does not throw when there is nothing to delete.
DeleteManyLoginToken(a) ==
  /\ calls[a].pc = "deleteToken"
  /\ loginTokens' = [loginTokens EXCEPT ![calls[a].login] = "deleted"]
  /\ Step(a, [calls[a] EXCEPT !.pc = "createSession"])
  /\ UNCHANGED <<sessions, issued, known>>

\* "One-time token usage": delete by id, which throws when the row is gone.
DeleteLoginToken(a) ==
  /\ calls[a].pc = "deleteToken"
  /\ loginTokens' = [loginTokens EXCEPT ![calls[a].login] = "deleted"]
  /\ IF loginTokens[calls[a].login] = "deleted"
       THEN Reply(a)
       ELSE Step(a, [calls[a] EXCEPT !.pc = "createSession"])
  /\ UNCHANGED <<sessions, issued, known>>

\* session.create(), the access token with its id, and both cookies.
CreateSession(a) ==
  /\ calls[a].pc = "createSession"
  /\ issued < MaxRefresh
  /\ issued' = issued + 1
  /\ sessions' = sessions \cup
       {[id |-> issued + 1, login |-> calls[a].login, refresh |-> issued + 1,
         revoked |-> FALSE, expired |-> FALSE]}
  /\ known' = known \cup {issued + 1}
  /\ Reply(a)
  /\ UNCHANGED loginTokens

\* rotateSession(), findFirst by the hash: revoked and expired sessions are refused.
FindSession(a, token) ==
  /\ calls[a] = NoLogin
  /\ \E s \in sessions :
       /\ s.refresh = token /\ ~s.revoked /\ ~s.expired
       /\ Step(a, [pc |-> "rotate", login |-> s.login, session |-> s.id])
  /\ UNCHANGED <<loginTokens, sessions, issued, known>>

\* Variant: the whole row is written back as it was read.
RotatedWhole(s, token) == [s EXCEPT !.refresh = token, !.expired = FALSE, !.revoked = FALSE]

\* The data of the update: the new hash and a new expiry, revokedAt is left alone.
Rotated(s, token) == [s EXCEPT !.refresh = token, !.expired = FALSE]

\* session.update() by id: whatever became of the session since it was found.
RotateSession(a) ==
  /\ calls[a].pc = "rotate"
  /\ issued < MaxRefresh
  /\ issued' = issued + 1
  /\ sessions' = { IF s.id = calls[a].session THEN Rotated(s, issued + 1) ELSE s : s \in sessions }
  /\ known' = known \cup {issued + 1}
  /\ Reply(a)
  /\ UNCHANGED loginTokens

\* logout(): updateMany by the hash of the cookie, which may name no session any more.
Logout(token) ==
  /\ sessions' = { IF s.refresh = token THEN [s EXCEPT !.revoked = TRUE] ELSE s : s \in sessions }
  /\ UNCHANGED <<loginTokens, issued, known, calls>>

SessionExpires(s) ==
  /\ ~s.expired
  /\ sessions' = (sessions \ {s}) \cup {[s EXCEPT !.expired = TRUE]}
  /\ UNCHANGED <<loginTokens, issued, known, calls>>

\* authMiddleware: the access token names a session that is there, not revoked, not expired.
Authenticated(id) == \E s \in sessions : s.id = id /\ ~s.revoked /\ ~s.expired

AuthCrash ==
  /\ calls' = [a \in AuthCall |-> NoLogin]
  /\ UNCHANGED <<loginTokens, sessions, issued, known>>

SessionsNext ==
  \/ \E t \in LoginToken : RequestLogin(t) \/ LoginTokenExpires(t)
  \/ \E a \in AuthCall :
       \/ \E t \in LoginToken : FindLoginToken(a, t)
       \/ DeleteExpired(a) \/ DeleteLoginToken(a) \/ CreateSession(a) \/ RotateSession(a)
       \/ \E token \in known : FindSession(a, token)
  \/ \E token \in known : Logout(token)
  \/ \E s \in sessions : SessionExpires(s)
  \/ AuthCrash

SessionsSpec == SessionsInit /\ [][SessionsNext]_sessionVars
-----------------------------------------------------------------------------
SessionsTypeOK ==
  /\ loginTokens \in [LoginToken -> {"unused", "fresh", "expired", "deleted"}]
  /\ sessions \subseteq [id: 1..MaxRefresh, login: LoginToken, refresh: 1..MaxRefresh,
                         revoked: BOOLEAN, expired: BOOLEAN]
  /\ issued \in 0..MaxRefresh
  /\ known \subseteq 1..issued
  /\ DOMAIN calls = AuthCall
  /\ \A a \in AuthCall :
       \/ calls[a] = NoLogin
       \/ calls[a] \in [pc: {"deleteToken", "deleteExpired", "createSession", "rotate"},
                        login: LoginToken, session: 0..MaxRefresh]

(***************************************************************************)
(* "One-time token usage": two verifications of one login token may both   *)
(* find it, yet at most one session comes of it, counting the one that is  *)
(* about to be created.                                                    *)
(***************************************************************************)
OneSessionPerLogin ==
  \A t \in LoginToken :
    Cardinality({ s \in sessions : s.login = t })
      + Cardinality({ a \in AuthCall : calls[a].pc = "createSession" /\ calls[a].login = t })
      + (IF loginTokens[t] \in {"fresh", "expired"} THEN 1 ELSE 0) <= 1

(***************************************************************************)
(* The kill switch: once a session is revoked or logged out, no refresh    *)
(* that was under way, no expiry and no later call makes authMiddleware    *)
(* accept its access tokens again.                                         *)
(***************************************************************************)
RevokedStaysRevoked ==
  [][\A s \in sessions : s.revoked => ~Authenticated(s.id)']_sessionVars
=============================================================================
