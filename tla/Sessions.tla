------------------------------ MODULE Sessions ------------------------------
(***************************************************************************)
(* Login sessions of existing accounts: login, refresh, logout, password   *)
(* reset by e-mailed code, withdrawal.  Accounts are in PostgreSQL;        *)
(* refresh sessions, codes and verification markers are keys in Redis that *)
(* expire.  A handler's steps are its awaits, in the order of the code.    *)
(*                                                                         *)
(* An account is known by its e-mail here, a session by the login request  *)
(* that issued it (its jti), and a hash by the password it was made from.  *)
(***************************************************************************)
EXTENDS Naturals

CONSTANTS
    Emails,
    Passwords, Weak,      \* all passwords, and those validate_password_strength refuses
    Codes,                \* six-digit codes
    Accounts,             \* e-mail -> password, Social or None when the behaviour starts
    OldSessions,          \* refresh sessions of earlier logins: <<email, jti>>
    OldJtis,
    Requests, Kind, MayFail,
    Mixes,                \* the sets of requests that are made in one behaviour
    Social, None          \* an account without a password; no account, no code

VARIABLES
    account,    \* users: e-mail -> password, Social or None
    sessions,   \* Redis refresh_session:{user}:{jti}
    code,       \* Redis password_reset_code:{email}
    verified,   \* Redis password_reset_verified:{email}
    pc, req, mem, answer

vars == <<account, sessions, code, verified, pc, req, mem, answer>>
redis == <<sessions, code, verified>>

Jtis == Requests \cup OldJtis
Session == Emails \X Jtis
Kinds == {"login", "refresh", "logout", "send", "confirm", "reset", "withdraw"}
Steps == {"idle", "saveLogin", "reload", "issue", "findUser", "endSession", "storeCode", "mail",
          "takeCode", "mark", "loadUser", "savePassword", "unmark", "scan", "sweep", "deleteUser", "done"}
Answers == {"none", "ok", "unauthorized", "notFound", "invalid", "error"}

Request == [email : Emails \cup {None}, password : Passwords \cup {None},
            code : Codes \cup {None}, jti : Jtis \cup {None}]
NoRequest == [email |-> None, password |-> None, code |-> None, jti |-> None]

\* todo: the keys a scan has still to delete.  given: the sessions handed out
\* when the request arrived (kept for the properties only).
Memory == [todo : SUBSET Session, given : SUBSET Session]
NoMemory == [todo |-> {}, given |-> {}]

ASSUME SessionsAssumption ==
    /\ Weak \subseteq Passwords
    /\ Accounts \in [Emails -> Passwords \cup {Social, None}]
    /\ OldJtis \cap Requests = {}
    /\ OldSessions \subseteq Emails \X OldJtis
    /\ Kind \in [Requests -> Kinds]
    /\ MayFail \subseteq Requests
    /\ Mixes \subseteq SUBSET Requests
    /\ Social # None /\ Social \notin Passwords
    /\ None \notin Passwords \cup Codes \cup Emails \cup Jtis

GoTo(r, step) == pc' = [pc EXCEPT ![r] = step] /\ UNCHANGED answer
Respond(r, a) == pc' = [pc EXCEPT ![r] = "done"] /\ answer' = [answer EXCEPT ![r] = a]

\* Sessions whose refresh token a client holds.
HandedOut ==
    OldSessions \cup {s \in Session : /\ s[2] \in Requests /\ Kind[s[2]] = "login"
                                      /\ answer[s[2]] = "ok" /\ req[s[2]].email = s[1]}

Receive(r, kind, x) ==
    /\ pc[r] = "idle" /\ Kind[r] = kind
    /\ req' = [req EXCEPT ![r] = x]
    /\ mem' = [mem EXCEPT ![r].given = HandedOut]

Init ==
    /\ account = Accounts
    /\ sessions = OldSessions
    /\ code = [e \in Emails |-> None]
    /\ verified = {}
    /\ \E mix \in Mixes : pc = [r \in Requests |-> IF r \in mix THEN "idle" ELSE "done"]
    /\ req = [r \in Requests |-> NoRequest]
    /\ mem = [r \in Requests |-> NoMemory]
    /\ answer = [r \in Requests |-> "none"]

----------------------------------------------------------------------------
(* POST /auth/login *)

\* get_by_email and verify_password on the hash just read.
Login(r) ==
    \E e \in Emails, p \in Passwords :
        /\ Receive(r, "login", [NoRequest EXCEPT !.email = e, !.password = p])
        /\ \/ account[e] = p /\ GoTo(r, "saveLogin")
           \/ account[e] # p /\ Respond(r, "unauthorized")
        /\ UNCHANGED <<account, redis>>

\* The UPDATE of last_login_at fails when the row is gone; so does the reload.
SaveLogin(r) ==
    /\ pc[r] = "saveLogin"
    /\ \/ account[req[r].email] # None /\ GoTo(r, "reload")
       \/ account[req[r].email] = None /\ Respond(r, "error")
    /\ UNCHANGED <<account, redis, req, mem>>

ReloadUser(r) ==
    /\ pc[r] = "reload"
    /\ \/ account[req[r].email] # None /\ GoTo(r, "issue")
       \/ account[req[r].email] = None /\ Respond(r, "error")
    /\ UNCHANGED <<account, redis, req, mem>>

\* Mutant: the parts of the key are swapped.
IssueUnderSwappedKey(r) ==
    /\ pc[r] = "issue"
    /\ sessions' = sessions \cup {<<r, req[r].email>>}
    /\ Respond(r, "ok")
    /\ UNCHANGED <<account, code, verified, req, mem>>

\* issue_tokens: registers the new refresh session.
IssueTokens(r) ==
    /\ pc[r] = "issue"
    /\ sessions' = sessions \cup {<<req[r].email, r>>}
    /\ Respond(r, "ok")
    /\ UNCHANGED <<account, code, verified, req, mem>>

----------------------------------------------------------------------------
(* POST /auth/refresh and /auth/logout *)

Refresh(r) ==
    \E s \in Session :
        /\ s \in HandedOut
        /\ Receive(r, "refresh", [NoRequest EXCEPT !.email = s[1], !.jti = s[2]])
        /\ \/ s \in sessions /\ GoTo(r, "findUser")
           \/ s \notin sessions /\ Respond(r, "unauthorized")
        /\ UNCHANGED <<account, redis>>

\* Mutant: the session key is written again to prolong it.
RefreshAndProlong(r) ==
    /\ pc[r] = "findUser"
    /\ sessions' = sessions \cup {<<req[r].email, req[r].jti>>}
    /\ Respond(r, IF account[req[r].email] # None THEN "ok" ELSE "unauthorized")
    /\ UNCHANGED <<account, code, verified, req, mem>>

\* The new access token is signed, not stored.
FindUser(r) ==
    /\ pc[r] = "findUser"
    /\ Respond(r, IF account[req[r].email] # None THEN "ok" ELSE "unauthorized")
    /\ UNCHANGED <<account, redis, req, mem>>

\* The access token must be of an existing account; the refresh token in the
\* body must be of the same one.
Logout(r) ==
    \E e \in Emails, s \in Session :
        /\ s \in HandedOut
        /\ Receive(r, "logout", [NoRequest EXCEPT !.email = s[1], !.jti = s[2]])
        /\ \/ account[e] # None /\ s[1] = e /\ GoTo(r, "endSession")
           \/ ~(account[e] # None /\ s[1] = e) /\ Respond(r, "unauthorized")
        /\ UNCHANGED <<account, redis>>

EndSession(r) ==
    /\ pc[r] = "endSession"
    /\ sessions' = sessions \ {<<req[r].email, req[r].jti>>}
    /\ Respond(r, "ok")
    /\ UNCHANGED <<account, code, verified, req, mem>>

----------------------------------------------------------------------------
(* POST /auth/password/reset-code, .../confirm, /auth/password/reset *)

IsLocal(e) == account[e] \in Passwords

SendResetCode(r) ==
    \E e \in Emails, c \in Codes :
        /\ Receive(r, "send", [NoRequest EXCEPT !.email = e, !.code = c])
        /\ \/ IsLocal(e) /\ GoTo(r, "storeCode")
           \/ ~IsLocal(e) /\ Respond(r, "notFound")
        /\ UNCHANGED <<account, redis>>

StoreCode(r) ==
    /\ pc[r] = "storeCode"
    /\ code' = [code EXCEPT ![req[r].email] = req[r].code]
    /\ GoTo(r, "mail")
    /\ UNCHANGED <<account, sessions, verified, req, mem>>

\* The mail service may refuse; the code stays stored.
MailCode(r) ==
    /\ pc[r] = "mail"
    /\ \E a \in {"ok", "error"} : Respond(r, a)
    /\ UNCHANGED <<account, redis, req, mem>>

\* Mutant: any stored code will do.
SomeCode(e, c) == code[e] # None

CodeMatches(e, c) == code[e] = c

ConfirmCode(r) ==
    \E e \in Emails, c \in Codes :
        /\ Receive(r, "confirm", [NoRequest EXCEPT !.email = e, !.code = c])
        /\ \/ CodeMatches(e, c) /\ GoTo(r, "takeCode")
           \/ ~CodeMatches(e, c) /\ Respond(r, "invalid")
        /\ UNCHANGED <<account, redis>>

TakeCode(r) ==
    /\ pc[r] = "takeCode"
    /\ code' = [code EXCEPT ![req[r].email] = None]
    /\ GoTo(r, "mark")
    /\ UNCHANGED <<account, sessions, verified, req, mem>>

MarkVerified(r) ==
    /\ pc[r] = "mark"
    /\ verified' = verified \cup {req[r].email}
    /\ Respond(r, "ok")
    /\ UNCHANGED <<account, sessions, code, req, mem>>

\* The marker is read first, the password's strength is checked next.
ResetPassword(r) ==
    \E e \in Emails, p \in Passwords :
        /\ Receive(r, "reset", [NoRequest EXCEPT !.email = e, !.password = p])
        /\ \/ e \in verified /\ p \notin Weak /\ GoTo(r, "loadUser")
           \/ (e \notin verified \/ p \in Weak) /\ Respond(r, "invalid")
        /\ UNCHANGED <<account, redis>>

LoadUser(r) ==
    /\ pc[r] = "loadUser"
    /\ \/ IsLocal(req[r].email) /\ GoTo(r, "savePassword")
       \/ ~IsLocal(req[r].email) /\ Respond(r, "notFound")
    /\ UNCHANGED <<account, redis, req, mem>>

\* Mutant: the row is inserted again when it is gone.
UpsertPassword(r) ==
    /\ pc[r] = "savePassword"
    /\ account' = [account EXCEPT ![req[r].email] = req[r].password]
    /\ GoTo(r, "unmark")
    /\ UNCHANGED <<redis, req, mem>>

\* The commit; the UPDATE fails when the row is gone.
SavePassword(r) ==
    /\ pc[r] = "savePassword"
    /\ \/ /\ account[req[r].email] # None
          /\ account' = [account EXCEPT ![req[r].email] = req[r].password]
          /\ GoTo(r, "unmark")
       \/ account[req[r].email] = None /\ Respond(r, "error") /\ UNCHANGED account
    /\ UNCHANGED <<redis, req, mem>>

\* Mutant: the marker is left to expire.
LeaveMarker(r) ==
    /\ pc[r] = "unmark"
    /\ GoTo(r, "scan")
    /\ UNCHANGED <<account, redis, req, mem>>

UnmarkVerified(r) ==
    /\ pc[r] = "unmark"
    /\ verified' = verified \ {req[r].email}
    /\ GoTo(r, "scan")
    /\ UNCHANGED <<account, sessions, code, req, mem>>

----------------------------------------------------------------------------
(* DELETE /auth/withdraw *)

Withdraw(r) ==
    \E e \in Emails :
        /\ Receive(r, "withdraw", [NoRequest EXCEPT !.email = e])
        /\ \/ account[e] # None /\ GoTo(r, "deleteUser")
           \/ account[e] = None /\ Respond(r, "unauthorized")
        /\ UNCHANGED <<account, redis>>

DeleteUser(r) ==
    /\ pc[r] = "deleteUser"
    /\ account' = [account EXCEPT ![req[r].email] = None]
    /\ GoTo(r, "scan")
    /\ UNCHANGED <<redis, req, mem>>

----------------------------------------------------------------------------
(* The scan over refresh_session:{user}:* of a reset or a withdrawal.  SCAN *)
(* returns every key that is there throughout; a key added meanwhile may or *)
(* may not be returned.                                                     *)

\* Mutant: the pattern names one session only.
OneSession(e) == LET all == {s \in sessions : s[1] = e}
                 IN IF all = {} THEN {} ELSE {CHOOSE s \in all : TRUE}

SessionsOf(e) == {s \in sessions : s[1] = e}

StartScan(r) ==
    /\ pc[r] = "scan"
    /\ mem' = [mem EXCEPT ![r].todo = SessionsOf(req[r].email)]
    /\ GoTo(r, "sweep")
    /\ UNCHANGED <<account, redis, req>>

\* Mutant: the scan starts over after each key and is handed the same keys.
DeleteKeyAndRestart(r) ==
    /\ pc[r] = "sweep"
    /\ \E s \in mem[r].todo : sessions' = sessions \ {s}
    /\ UNCHANGED <<account, code, verified, pc, req, mem, answer>>

DeleteKey(r) ==
    /\ pc[r] = "sweep"
    /\ \E s \in mem[r].todo \cup {x \in sessions : x[1] = req[r].email} :
         /\ sessions' = sessions \ {s}
         /\ mem' = [mem EXCEPT ![r].todo = @ \ {s}]
    /\ UNCHANGED <<account, code, verified, pc, req, answer>>

EndScan(r) ==
    /\ pc[r] = "sweep" /\ mem[r].todo = {}
    /\ Respond(r, "ok")
    /\ UNCHANGED <<account, redis, req, mem>>

----------------------------------------------------------------------------
(* Time and failures *)

\* A key reaches its TTL.
Expire ==
    /\ \/ /\ \E e \in Emails : code[e] # None /\ code' = [code EXCEPT ![e] = None]
          /\ UNCHANGED <<sessions, verified>>
       \/ /\ \E e \in verified : verified' = verified \ {e}
          /\ UNCHANGED <<sessions, code>>
       \/ /\ \E s \in sessions : sessions' = sessions \ {s}
          /\ UNCHANGED <<code, verified>>
    /\ UNCHANGED <<account, pc, req, mem, answer>>

InFlight(r) == pc[r] \notin {"idle", "done"}

\* Redis, the database or the process fails between two steps.
Die(r) ==
    /\ r \in MayFail /\ InFlight(r)
    /\ Respond(r, "error")
    /\ UNCHANGED <<account, redis, req, mem>>

Arrive(r) ==
    \/ Login(r) \/ Refresh(r) \/ Logout(r) \/ SendResetCode(r) \/ ConfirmCode(r)
    \/ ResetPassword(r) \/ Withdraw(r)

Serve(r) ==
    \/ SaveLogin(r) \/ ReloadUser(r) \/ IssueTokens(r)
    \/ FindUser(r) \/ EndSession(r)
    \/ StoreCode(r) \/ MailCode(r) \/ TakeCode(r) \/ MarkVerified(r)
    \/ LoadUser(r) \/ SavePassword(r) \/ UnmarkVerified(r)
    \/ DeleteUser(r) \/ StartScan(r) \/ DeleteKey(r) \/ EndScan(r)

Terminating == (\A r \in Requests : pc[r] = "done") /\ UNCHANGED vars

Next == (\E r \in Requests : Arrive(r) \/ Serve(r) \/ Die(r)) \/ Expire \/ Terminating

\* Requests that have arrived are served; clients, clocks and failures are free.
Spec == Init /\ [][Next]_vars /\ \A r \in Requests : WF_vars(Serve(r))

----------------------------------------------------------------------------
(* Properties *)

TypeOK ==
    /\ account \in [Emails -> Passwords \cup {Social, None}]
    /\ sessions \subseteq Session
    /\ code \in [Emails -> Codes \cup {None}]
    /\ verified \subseteq Emails
    /\ pc \in [Requests -> Steps]
    /\ req \in [Requests -> Request]
    /\ mem \in [Requests -> Memory]
    /\ answer \in [Requests -> Answers]

\* A reset or a withdrawal that succeeds leaves the account none of the
\* sessions a client held when it was asked for, on any device.
OldSessionsRevoked ==
    \A r \in Requests :
        Kind[r] \in {"reset", "withdraw"} /\ answer[r] = "ok" =>
            \A s \in mem[r].given : s[1] = req[r].email => s \notin sessions

Confirmers(e) == {c \in Requests : Kind[c] = "confirm" /\ req[c].email = e}

\* A password changes only after somebody entered a code that was sent to
\* that account's address, and one confirmed code serves one reset: once that
\* has succeeded its marker is gone.
PasswordChangeProved ==
    [][/\ \A e \in Emails : account'[e] # account[e] /\ account'[e] \in Passwords =>
            \E s, c \in Requests :
               /\ Kind[s] = "send" /\ req[s].email = e
               /\ Kind[c] = "confirm" /\ req[c].email = e
               /\ req[c].code = req[s].code
       /\ \A r \in Requests :
            /\ Kind[r] = "reset" /\ answer'[r] = "ok"
            /\ \A c, d \in Confirmers(req[r].email) : c = d
            => req[r].email \notin verified']_vars

\* What has ended never comes back, whatever is under way: a session that was
\* issued and has ended, an account that was withdrawn; and an account of a
\* social provider gets no password from a reset that loaded it before.
NothingComesBack ==
    [][/\ \A s \in HandedOut : s \notin sessions => s \notin sessions'
       /\ \A e \in Emails : account[e] \in {Social, None} => account'[e] \in {account[e], None}]_vars

\* A reset or a withdrawal logs every device out: afterwards the account has no
\* session that was opened before, with the old password or at all.
EveryDeviceLoggedOut ==
    \A r \in Requests : answer[r] = "ok" =>
        \A s \in sessions :
            /\ Kind[r] = "withdraw" => s[1] # req[r].email
            /\ Kind[r] = "reset" /\ s[1] = req[r].email /\ s[2] \in Requests =>
                 req[s[2]].password = account[s[1]]

\* Every request that arrives is answered; a scan ends although logins go on.
EveryRequestAnswered == \A r \in Requests : InFlight(r) ~> (pc[r] = "done")
=============================================================================
