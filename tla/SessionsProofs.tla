--------------------------- MODULE SessionsProofs ---------------------------
(***************************************************************************)
(* Proofs about Sessions, for any number of accounts, devices and          *)
(* requests: its types, that old sessions are revoked, that nothing that   *)
(* has ended comes back, and that a password change was proved.            *)
(*                                                                         *)
(* A login stores its session once, before it is answered: so a session a  *)
(* client holds that has ended stays ended, and a sweep has only to delete *)
(* the keys its scan found.                                                *)
(***************************************************************************)
EXTENDS Sessions, TLAPS

LoginSteps == {"saveLogin", "reload", "issue"}
SendSteps == {"storeCode", "mail"}
ConfirmSteps == {"takeCode", "mark"}
ResetSteps == {"loadUser", "savePassword", "unmark"}
SweepSteps == {"scan", "sweep"}

\* What is known of a request at each step of its handler.
AtPlace(r) ==
    /\ pc[r] = "idle" => req[r] = NoRequest
    /\ pc[r] # "done" => answer[r] = "none"
    /\ InFlight(r) => req[r].email \in Emails
    /\ pc[r] \in LoginSteps => Kind[r] = "login"
    /\ pc[r] = "findUser" => Kind[r] = "refresh"
    /\ pc[r] = "endSession" => Kind[r] = "logout"
    /\ pc[r] \in SendSteps => Kind[r] = "send" /\ req[r].code \in Codes
    /\ pc[r] \in ConfirmSteps => Kind[r] = "confirm" /\ req[r].code \in Codes
    /\ pc[r] \in ResetSteps => Kind[r] = "reset" /\ req[r].password \in Passwords
    /\ pc[r] = "deleteUser" => Kind[r] = "withdraw"
    /\ pc[r] \in SweepSteps => Kind[r] \in {"reset", "withdraw"}

TypeInv == TypeOK /\ \A r \in Requests : AtPlace(r)

\* A reset writes the password of an account that had one, or is gone.
LocalInv == \A r \in Requests :
    pc[r] = "savePassword" => account[req[r].email] \in Passwords \cup {None}

\* A sweep has still to delete what is left of the sessions it must end.
SweepInv ==
    /\ \A r \in Requests : pc[r] # "idle" => mem[r].given \subseteq HandedOut
    /\ \A r \in Requests : pc[r] = "sweep" =>
          \A s \in mem[r].given \cap sessions : s[1] = req[r].email => s \in mem[r].todo
    /\ OldSessionsRevoked

\* A code that was sent to an address, and the proof of having received one.
Sent(e, c) == \E s \in Requests : Kind[s] = "send" /\ req[s].email = e /\ req[s].code = c
Proved(e) == \E c \in Confirmers(e) : pc[c] = "done" /\ Sent(e, req[c].code)

\* A reset has used up its marker.
Spending(r) == Kind[r] = "reset" /\ (pc[r] \in SweepSteps \/ answer[r] = "ok")

ProofInv ==
    /\ \A e \in Emails : code[e] # None => Sent(e, code[e])
    /\ \A r \in Requests : pc[r] \in ConfirmSteps => Sent(req[r].email, req[r].code)
    /\ \A e \in verified : Proved(e)
    /\ \A r \in Requests : pc[r] \in ResetSteps \/ Spending(r) => Proved(req[r].email)
    /\ \A r \in Requests : Spending(r) =>
          req[r].email \in Emails /\
          ((\A c, d \in Confirmers(req[r].email) : c = d) => req[r].email \notin verified)

IInv == TypeInv /\ LocalInv /\ SweepInv /\ ProofInv

----------------------------------------------------------------------------
(* Types *)

LEMMA Going ==
    ASSUME TypeInv, NEW r \in Requests, NEW s \in Steps, GoTo(r, s)
    PROVE  /\ pc' \in [Requests -> Steps] /\ answer' = answer
           /\ pc'[r] = s /\ \A q \in Requests : q # r => pc'[q] = pc[q]
  BY DEF GoTo, TypeInv, TypeOK

LEMMA Responding ==
    ASSUME TypeInv, NEW r \in Requests, NEW a \in Answers, Respond(r, a)
    PROVE  /\ pc' \in [Requests -> Steps] /\ answer' \in [Requests -> Answers]
           /\ pc'[r] = "done" /\ answer'[r] = a
           /\ \A q \in Requests : q # r => pc'[q] = pc[q] /\ answer'[q] = answer[q]
  BY DEF Respond, TypeInv, TypeOK, Steps

LEMMA HandedOutTyped == ASSUME TypeInv PROVE HandedOut \subseteq Session
  BY SessionsAssumption DEF HandedOut, Session, Jtis

LEMMA Receiving ==
    ASSUME TypeInv, NEW r \in Requests, NEW k, NEW x \in Request, Receive(r, k, x)
    PROVE  /\ req' \in [Requests -> Request] /\ mem' \in [Requests -> Memory]
           /\ pc[r] = "idle" /\ Kind[r] = k
           /\ req'[r] = x /\ mem'[r].given = HandedOut
           /\ \A q \in Requests : q # r => req'[q] = req[q] /\ mem'[q] = mem[q]
  <1>1. mem \in [Requests -> Memory] /\ mem[r] \in Memory /\ req \in [Requests -> Request]
    BY DEF TypeInv, TypeOK
  <1>2. mem' = [mem EXCEPT ![r] = [mem[r] EXCEPT !.given = HandedOut]]
    BY <1>1 DEF Receive
  <1>3. /\ [mem[r] EXCEPT !.given = HandedOut] \in Memory
        /\ [mem[r] EXCEPT !.given = HandedOut].given = HandedOut
    BY <1>1, HandedOutTyped DEF Memory
  <1> QED BY <1>1, <1>2, <1>3 DEF Receive

LEMMA NoRequestTyped == NoRequest \in Request /\ NoRequest.email = None /\ None \notin Emails
  BY SessionsAssumption DEF NoRequest, Request

\* What an arriving request does: it reads, and goes on or is refused.
Arrived(r) ==
    /\ pc[r] = "idle"
    /\ UNCHANGED <<account, sessions, code, verified>>
    /\ req' \in [Requests -> Request] /\ mem' \in [Requests -> Memory]
    /\ pc' \in [Requests -> Steps] /\ answer' \in [Requests -> Answers]
    /\ req'[r].email \in Emails
    /\ mem'[r].given = HandedOut
    /\ \A q \in Requests : q # r =>
          req'[q] = req[q] /\ mem'[q] = mem[q] /\ pc'[q] = pc[q] /\ answer'[q] = answer[q]
    /\ \/ pc'[r] = "done" /\ answer'[r] # "ok"
       \/ /\ answer' = answer
          /\ \/ pc'[r] = "saveLogin" /\ Kind[r] = "login"
             \/ pc'[r] = "findUser" /\ Kind[r] = "refresh"
             \/ pc'[r] = "endSession" /\ Kind[r] = "logout"
             \/ pc'[r] = "storeCode" /\ Kind[r] = "send" /\ req'[r].code \in Codes
             \/ /\ pc'[r] = "takeCode" /\ Kind[r] = "confirm" /\ req'[r].code \in Codes
                /\ code[req'[r].email] = req'[r].code
             \/ /\ pc'[r] = "loadUser" /\ Kind[r] = "reset" /\ req'[r].password \in Passwords
                /\ req'[r].email \in verified
             \/ pc'[r] = "deleteUser" /\ Kind[r] = "withdraw"

LEMMA ArrivalStep ==
    ASSUME TypeInv, NEW r \in Requests, Arrive(r)
    PROVE  Arrived(r)
  <1> USE DEF redis
  <1>l. CASE Login(r)
    <2> PICK e \in Emails, p \in Passwords :
            /\ Receive(r, "login", [NoRequest EXCEPT !.email = e, !.password = p])
            /\ \/ account[e] = p /\ GoTo(r, "saveLogin")
               \/ account[e] # p /\ Respond(r, "unauthorized")
            /\ UNCHANGED <<account, redis>>
      BY <1>l DEF Login
    <2> DEFINE x == [NoRequest EXCEPT !.email = e, !.password = p]
    <2>1. x \in Request /\ x.email = e
      BY NoRequestTyped DEF Request
    <2> HIDE DEF x
    <2>2. Receive(r, "login", x)
      BY DEF x
    <2>3. CASE GoTo(r, "saveLogin")
      BY <2>1, <2>2, <2>3, Receiving, Going DEF Steps, Arrived, TypeInv, TypeOK
    <2>4. CASE Respond(r, "unauthorized")
      BY <2>1, <2>2, <2>4, Receiving, Responding DEF Answers, Arrived
    <2> QED BY <2>3, <2>4
  <1>f. CASE Refresh(r)
    <2> PICK s \in Session :
            /\ Receive(r, "refresh", [NoRequest EXCEPT !.email = s[1], !.jti = s[2]])
            /\ \/ s \in sessions /\ GoTo(r, "findUser")
               \/ s \notin sessions /\ Respond(r, "unauthorized")
            /\ UNCHANGED <<account, redis>>
      BY <1>f DEF Refresh
    <2> DEFINE x == [NoRequest EXCEPT !.email = s[1], !.jti = s[2]]
    <2>1. x \in Request /\ x.email \in Emails
      BY NoRequestTyped DEF Request, Session
    <2> HIDE DEF x
    <2>2. Receive(r, "refresh", x)
      BY DEF x
    <2>3. CASE GoTo(r, "findUser")
      BY <2>1, <2>2, <2>3, Receiving, Going DEF Steps, Arrived, TypeInv, TypeOK
    <2>4. CASE Respond(r, "unauthorized")
      BY <2>1, <2>2, <2>4, Receiving, Responding DEF Answers, Arrived
    <2> QED BY <2>3, <2>4
  <1>o. CASE Logout(r)
    <2> PICK e \in Emails, s \in Session :
            /\ Receive(r, "logout", [NoRequest EXCEPT !.email = s[1], !.jti = s[2]])
            /\ \/ GoTo(r, "endSession")
               \/ Respond(r, "unauthorized")
            /\ UNCHANGED <<account, redis>>
      BY <1>o DEF Logout
    <2> DEFINE x == [NoRequest EXCEPT !.email = s[1], !.jti = s[2]]
    <2>1. x \in Request /\ x.email \in Emails
      BY NoRequestTyped DEF Request, Session
    <2> HIDE DEF x
    <2>2. Receive(r, "logout", x)
      BY DEF x
    <2>3. CASE GoTo(r, "endSession")
      BY <2>1, <2>2, <2>3, Receiving, Going DEF Steps, Arrived, TypeInv, TypeOK
    <2>4. CASE Respond(r, "unauthorized")
      BY <2>1, <2>2, <2>4, Receiving, Responding DEF Answers, Arrived
    <2> QED BY <2>3, <2>4
  <1>s. CASE SendResetCode(r)
    <2> PICK e \in Emails, c \in Codes :
            /\ Receive(r, "send", [NoRequest EXCEPT !.email = e, !.code = c])
            /\ \/ GoTo(r, "storeCode")
               \/ Respond(r, "notFound")
            /\ UNCHANGED <<account, redis>>
      BY <1>s DEF SendResetCode
    <2> DEFINE x == [NoRequest EXCEPT !.email = e, !.code = c]
    <2>1. x \in Request /\ x.email = e /\ x.code = c
      BY NoRequestTyped DEF Request
    <2> HIDE DEF x
    <2>2. Receive(r, "send", x)
      BY DEF x
    <2>3. CASE GoTo(r, "storeCode")
      BY <2>1, <2>2, <2>3, Receiving, Going DEF Steps, Arrived, TypeInv, TypeOK
    <2>4. CASE Respond(r, "notFound")
      BY <2>1, <2>2, <2>4, Receiving, Responding DEF Answers, Arrived
    <2> QED BY <2>3, <2>4
  <1>k. CASE ConfirmCode(r)
    <2> PICK e \in Emails, c \in Codes :
            /\ Receive(r, "confirm", [NoRequest EXCEPT !.email = e, !.code = c])
            /\ \/ code[e] = c /\ GoTo(r, "takeCode")
               \/ Respond(r, "invalid")
            /\ UNCHANGED <<account, redis>>
      BY <1>k DEF ConfirmCode, CodeMatches
    <2> DEFINE x == [NoRequest EXCEPT !.email = e, !.code = c]
    <2>1. x \in Request /\ x.email = e /\ x.code = c
      BY NoRequestTyped DEF Request
    <2> HIDE DEF x
    <2>2. Receive(r, "confirm", x)
      BY DEF x
    <2>3. CASE code[e] = c /\ GoTo(r, "takeCode")
      BY <2>1, <2>2, <2>3, Receiving, Going DEF Steps, Arrived, TypeInv, TypeOK
    <2>4. CASE Respond(r, "invalid")
      BY <2>1, <2>2, <2>4, Receiving, Responding DEF Answers, Arrived
    <2> QED BY <2>3, <2>4
  <1>p. CASE ResetPassword(r)
    <2> PICK e \in Emails, p \in Passwords :
            /\ Receive(r, "reset", [NoRequest EXCEPT !.email = e, !.password = p])
            /\ \/ e \in verified /\ GoTo(r, "loadUser")
               \/ Respond(r, "invalid")
            /\ UNCHANGED <<account, redis>>
      BY <1>p DEF ResetPassword
    <2> DEFINE x == [NoRequest EXCEPT !.email = e, !.password = p]
    <2>1. x \in Request /\ x.email = e /\ x.password = p
      BY NoRequestTyped DEF Request
    <2> HIDE DEF x
    <2>2. Receive(r, "reset", x)
      BY DEF x
    <2>3. CASE e \in verified /\ GoTo(r, "loadUser")
      BY <2>1, <2>2, <2>3, Receiving, Going DEF Steps, Arrived, TypeInv, TypeOK
    <2>4. CASE Respond(r, "invalid")
      BY <2>1, <2>2, <2>4, Receiving, Responding DEF Answers, Arrived
    <2> QED BY <2>3, <2>4
  <1>w. CASE Withdraw(r)
    <2> PICK e \in Emails :
            /\ Receive(r, "withdraw", [NoRequest EXCEPT !.email = e])
            /\ \/ GoTo(r, "deleteUser")
               \/ Respond(r, "unauthorized")
            /\ UNCHANGED <<account, redis>>
      BY <1>w DEF Withdraw
    <2> DEFINE x == [NoRequest EXCEPT !.email = e]
    <2>1. x \in Request /\ x.email = e
      BY NoRequestTyped DEF Request
    <2> HIDE DEF x
    <2>2. Receive(r, "withdraw", x)
      BY DEF x
    <2>3. CASE GoTo(r, "deleteUser")
      BY <2>1, <2>2, <2>3, Receiving, Going DEF Steps, Arrived, TypeInv, TypeOK
    <2>4. CASE Respond(r, "unauthorized")
      BY <2>1, <2>2, <2>4, Receiving, Responding DEF Answers, Arrived
    <2> QED BY <2>3, <2>4
  <1> QED BY <1>l, <1>f, <1>o, <1>s, <1>k, <1>p, <1>w DEF Arrive

\* What every step of a handler leaves alone.
Served(r) ==
    /\ InFlight(r)
    /\ req' = req
    /\ pc' \in [Requests -> Steps] /\ pc'[r] # "idle"
    /\ mem' \in [Requests -> Memory] /\ mem'[r].given = mem[r].given
    /\ answer' \in [Requests -> Answers]
    /\ \A q \in Requests : q # r =>
          pc'[q] = pc[q] /\ answer'[q] = answer[q] /\ mem'[q] = mem[q]

\* A step that stores nothing: a check that passes, or the handler's end.  It
\* answers "ok" only where no session was issued or swept.
Quiet(r) ==
    /\ UNCHANGED <<account, sessions, code, verified, mem>>
    /\ \/ pc'[r] = "done" /\ (answer'[r] = "ok" => pc[r] \in {"mail", "findUser"})
       \/ /\ answer' = answer
          /\ \/ pc[r] \in LoginSteps /\ pc'[r] \in LoginSteps
             \/ pc[r] = "loadUser" /\ pc'[r] = "savePassword" /\ IsLocal(req[r].email)

LeadsTo(r, step) == pc'[r] = step /\ answer' = answer
Ends(r) == pc'[r] = "done" /\ answer'[r] = "ok"

\* A step that stores something, and where it leads.
Stores(r) ==
    \/ IssueTokens(r) /\ Ends(r)
    \/ EndSession(r) /\ Ends(r)
    \/ StoreCode(r) /\ LeadsTo(r, "mail")
    \/ TakeCode(r) /\ LeadsTo(r, "mark")
    \/ MarkVerified(r) /\ Ends(r)
    \/ SavePassword(r) /\ account[req[r].email] # None /\ LeadsTo(r, "unmark")
    \/ UnmarkVerified(r) /\ LeadsTo(r, "scan")
    \/ DeleteUser(r) /\ LeadsTo(r, "scan")
    \/ StartScan(r) /\ LeadsTo(r, "sweep") /\ mem'[r].todo = SessionsOf(req[r].email)
    \/ DeleteKey(r) /\ LeadsTo(r, "sweep")
    \/ EndScan(r) /\ Ends(r)

LEMMA QuietStep ==
    ASSUME TypeInv, NEW r \in Requests,
           \/ SaveLogin(r) \/ ReloadUser(r) \/ FindUser(r) \/ MailCode(r) \/ LoadUser(r) \/ Die(r)
           \/ SavePassword(r) /\ account[req[r].email] = None
    PROVE  Served(r) /\ Quiet(r)
  <1> USE DEF redis
  <1>0. mem \in [Requests -> Memory] /\ answer \in [Requests -> Answers]
    BY DEF TypeInv, TypeOK
  <1>1. CASE SaveLogin(r)
    <2>1. CASE GoTo(r, "reload")
      BY <1>0, <1>1, <2>1, Going DEF SaveLogin, Steps, LoginSteps, InFlight, Served, Quiet
    <2>2. CASE Respond(r, "error")
      BY <1>0, <1>1, <2>2, Responding DEF SaveLogin, Answers, InFlight, Served, Quiet
    <2> QED BY <1>1, <2>1, <2>2 DEF SaveLogin
  <1>2. CASE ReloadUser(r)
    <2>1. CASE GoTo(r, "issue")
      BY <1>0, <1>2, <2>1, Going DEF ReloadUser, Steps, LoginSteps, InFlight, Served, Quiet
    <2>2. CASE Respond(r, "error")
      BY <1>0, <1>2, <2>2, Responding DEF ReloadUser, Answers, InFlight, Served, Quiet
    <2> QED BY <1>2, <2>1, <2>2 DEF ReloadUser
  <1>3. CASE FindUser(r)
    <2>1. PICK a \in Answers : Respond(r, a)
      BY <1>3 DEF FindUser, Answers
    <2> QED BY <1>0, <1>3, <2>1, Responding DEF FindUser, InFlight, Served, Quiet
  <1>4. CASE MailCode(r)
    <2>1. PICK a \in Answers : Respond(r, a)
      BY <1>4 DEF MailCode, Answers
    <2> QED BY <1>0, <1>4, <2>1, Responding DEF MailCode, InFlight, Served, Quiet
  <1>5. CASE LoadUser(r)
    <2>1. CASE IsLocal(req[r].email) /\ GoTo(r, "savePassword")
      BY <1>0, <1>5, <2>1, Going DEF LoadUser, Steps, InFlight, Served, Quiet
    <2>2. CASE Respond(r, "notFound")
      BY <1>0, <1>5, <2>2, Responding DEF LoadUser, Answers, InFlight, Served, Quiet
    <2> QED BY <1>5, <2>1, <2>2 DEF LoadUser
  <1>6. CASE Die(r)
    BY <1>0, <1>6, Responding DEF Die, Answers, Served, Quiet
  <1>7. CASE SavePassword(r) /\ account[req[r].email] = None
    <2>1. Respond(r, "error") /\ UNCHANGED <<account, sessions, code, verified, req, mem>> /\ pc[r] = "savePassword"
      BY <1>7 DEF SavePassword
    <2> QED BY <1>0, <2>1, Responding DEF Answers, InFlight, Served, Quiet
  <1> QED BY <1>1, <1>2, <1>3, <1>4, <1>5, <1>6, <1>7

LEMMA SweepStarts ==
    ASSUME TypeInv, NEW r \in Requests, NEW t \in SUBSET Session, mem' = [mem EXCEPT ![r].todo = t]
    PROVE  /\ mem' \in [Requests -> Memory] /\ mem'[r].todo = t /\ mem'[r].given = mem[r].given
           /\ \A q \in Requests : q # r => mem'[q] = mem[q]
  <1>1. mem \in [Requests -> Memory] /\ mem[r] \in Memory
    BY DEF TypeInv, TypeOK
  <1>2. mem' = [mem EXCEPT ![r] = [mem[r] EXCEPT !.todo = t]]
    BY <1>1
  <1>3. /\ [mem[r] EXCEPT !.todo = t] \in Memory
        /\ [mem[r] EXCEPT !.todo = t].todo = t /\ [mem[r] EXCEPT !.todo = t].given = mem[r].given
    BY <1>1 DEF Memory
  <1> QED BY <1>1, <1>2, <1>3

LEMMA StoreStep ==
    ASSUME TypeInv, NEW r \in Requests,
           \/ IssueTokens(r) \/ EndSession(r) \/ StoreCode(r) \/ TakeCode(r) \/ MarkVerified(r)
           \/ SavePassword(r) /\ account[req[r].email] # None
           \/ UnmarkVerified(r) \/ DeleteUser(r) \/ StartScan(r) \/ DeleteKey(r) \/ EndScan(r)
    PROVE  Served(r) /\ Stores(r)
  <1> USE DEF redis
  <1>0. /\ mem \in [Requests -> Memory] /\ mem[r] \in Memory /\ answer \in [Requests -> Answers]
        /\ pc \in [Requests -> Steps] /\ sessions \subseteq Session
    BY DEF TypeInv, TypeOK
  <1>1. CASE IssueTokens(r)
    BY <1>0, <1>1, Responding DEF IssueTokens, Answers, InFlight, Ends, Served, Stores
  <1>2. CASE EndSession(r)
    BY <1>0, <1>2, Responding DEF EndSession, Answers, InFlight, Ends, Served, Stores
  <1>3. CASE StoreCode(r)
    BY <1>0, <1>3, Going DEF StoreCode, Steps, InFlight, LeadsTo, Served, Stores
  <1>4. CASE TakeCode(r)
    BY <1>0, <1>4, Going DEF TakeCode, Steps, InFlight, LeadsTo, Served, Stores
  <1>5. CASE MarkVerified(r)
    BY <1>0, <1>5, Responding DEF MarkVerified, Answers, InFlight, Ends, Served, Stores
  <1>6. CASE UnmarkVerified(r)
    BY <1>0, <1>6, Going DEF UnmarkVerified, Steps, InFlight, LeadsTo, Served, Stores
  <1>7. CASE DeleteUser(r)
    BY <1>0, <1>7, Going DEF DeleteUser, Steps, InFlight, LeadsTo, Served, Stores
  <1>8. CASE EndScan(r)
    BY <1>0, <1>8, Responding DEF EndScan, Answers, InFlight, Ends, Served, Stores
  <1>9. CASE SavePassword(r) /\ account[req[r].email] # None
    <2>1. GoTo(r, "unmark") /\ UNCHANGED <<req, mem>> /\ pc[r] = "savePassword"
      BY <1>9 DEF SavePassword
    <2> QED BY <1>0, <1>9, <2>1, Going DEF Steps, InFlight, LeadsTo, Served, Stores
  <1>10. CASE StartScan(r)
    <2>1. SessionsOf(req[r].email) \in SUBSET Session
      BY <1>0 DEF SessionsOf
    <2>2. GoTo(r, "sweep") /\ req' = req /\ pc[r] = "scan"
          /\ mem' = [mem EXCEPT ![r].todo = SessionsOf(req[r].email)]
      BY <1>10 DEF StartScan
    <2>3. /\ mem' \in [Requests -> Memory] /\ mem'[r].given = mem[r].given
          /\ mem'[r].todo = SessionsOf(req[r].email)
          /\ \A q \in Requests : q # r => mem'[q] = mem[q]
      BY <2>1, <2>2, SweepStarts
    <2>4. /\ pc' \in [Requests -> Steps] /\ answer' = answer
          /\ pc'[r] = "sweep" /\ \A q \in Requests : q # r => pc'[q] = pc[q]
      BY <2>2, Going DEF Steps
    <2>5. Served(r)
      BY <1>0, <2>2, <2>3, <2>4 DEF InFlight, Served
    <2>6. Stores(r)
      BY <1>10, <2>3, <2>4 DEF LeadsTo, Stores
    <2> QED BY <2>5, <2>6
  <1>11. CASE DeleteKey(r)
    <2>1. PICK s : mem' = [mem EXCEPT ![r].todo = @ \ {s}]
      BY <1>11 DEF DeleteKey
    <2>2. mem[r].todo \ {s} \in SUBSET Session /\ mem' = [mem EXCEPT ![r].todo = mem[r].todo \ {s}]
      BY <1>0, <2>1 DEF Memory
    <2>3. pc[r] = "sweep" /\ pc' = pc /\ answer' = answer /\ req' = req
      BY <1>11 DEF DeleteKey
    <2> QED BY <1>0, <1>11, <2>2, <2>3, SweepStarts DEF InFlight, LeadsTo, Served, Stores
  <1> QED BY <1>1, <1>2, <1>3, <1>4, <1>5, <1>6, <1>7, <1>8, <1>9, <1>10, <1>11

\* Every step is an arrival, a step of a handler, an expiry or nothing.
LEMMA KindsOfStep ==
    ASSUME TypeInv, [Next]_vars
    PROVE  \/ \E r \in Requests : Arrived(r) \/ (Served(r) /\ (Quiet(r) \/ Stores(r)))
           \/ Expire
           \/ UNCHANGED vars
  <1>1. ASSUME NEW r \in Requests, Serve(r) \/ Die(r) PROVE Served(r) /\ (Quiet(r) \/ Stores(r))
    BY <1>1, QuietStep, StoreStep DEF Serve
  <1> QED BY <1>1, ArrivalStep DEF Next, Terminating

LEMMA OthersAtPlace ==
    ASSUME NEW q \in Requests, AtPlace(q),
           pc'[q] = pc[q], answer'[q] = answer[q], req'[q] = req[q]
    PROVE  AtPlace(q)'
  BY DEF AtPlace, InFlight

LEMMA ArrivalTyped ==
    ASSUME TypeInv, NEW r \in Requests, Arrived(r)
    PROVE  TypeInv'
  <1>1. TypeOK'
    BY DEF Arrived, TypeInv, TypeOK
  <1>2. answer[r] = "none" /\ answer \in [Requests -> Answers]
    BY DEF Arrived, TypeInv, TypeOK, AtPlace
  <1>3. AtPlace(r)'
    BY <1>2 DEF Arrived, AtPlace, InFlight, LoginSteps, SendSteps, ConfirmSteps, ResetSteps, SweepSteps
  <1>4. \A q \in Requests : q # r => AtPlace(q)'
    BY OthersAtPlace DEF Arrived, TypeInv
  <1> QED BY <1>1, <1>3, <1>4 DEF TypeInv

LEMMA QuietTyped ==
    ASSUME TypeInv, NEW r \in Requests, Served(r), Quiet(r)
    PROVE  TypeInv'
  <1>1. TypeOK'
    BY DEF Served, Quiet, TypeInv, TypeOK
  <1>2. AtPlace(r)
    BY DEF TypeInv
  <1>3. AtPlace(r)'
    <2>1. CASE pc'[r] = "done"
      BY <1>2, <2>1 DEF AtPlace, InFlight, LoginSteps, SendSteps, ConfirmSteps, ResetSteps, SweepSteps
    <2>2. CASE answer' = answer /\ pc[r] \in LoginSteps /\ pc'[r] \in LoginSteps
      BY <1>2, <2>2 DEF Served, AtPlace, InFlight, LoginSteps, SendSteps, ConfirmSteps, ResetSteps, SweepSteps
    <2>3. CASE answer' = answer /\ pc[r] = "loadUser" /\ pc'[r] = "savePassword"
      BY <1>2, <2>3 DEF Served, AtPlace, InFlight, LoginSteps, SendSteps, ConfirmSteps, ResetSteps, SweepSteps
    <2> QED BY <2>1, <2>2, <2>3 DEF Quiet
  <1>4. \A q \in Requests : q # r => AtPlace(q)'
    BY OthersAtPlace DEF Served, TypeInv
  <1> QED BY <1>1, <1>3, <1>4 DEF TypeInv

LEMMA StoredTyped ==
    ASSUME TypeInv, NEW r \in Requests, Served(r), Stores(r)
    PROVE  /\ account' \in [Emails -> Passwords \cup {Social, None}]
           /\ sessions' \subseteq Session
           /\ code' \in [Emails -> Codes \cup {None}]
           /\ verified' \subseteq Emails
  <1>0. /\ account \in [Emails -> Passwords \cup {Social, None}] /\ sessions \subseteq Session
        /\ code \in [Emails -> Codes \cup {None}] /\ verified \subseteq Emails
        /\ req[r].email \in Emails
    BY DEF TypeInv, TypeOK, Served, AtPlace
  <1> USE <1>0 DEF redis
  <1>1. CASE IssueTokens(r)
    BY <1>1 DEF IssueTokens, Session, Jtis
  <1>2. CASE EndSession(r)
    BY <1>2 DEF EndSession
  <1>3. CASE StoreCode(r)
    <2>1. req[r].code \in Codes
      BY <1>3 DEF StoreCode, TypeInv, AtPlace, SendSteps
    <2> QED BY <1>3, <2>1 DEF StoreCode
  <1>4. CASE TakeCode(r)
    BY <1>4 DEF TakeCode
  <1>5. CASE MarkVerified(r)
    BY <1>5 DEF MarkVerified
  <1>6. CASE SavePassword(r)
    <2>1. req[r].password \in Passwords
      BY <1>6 DEF SavePassword, TypeInv, AtPlace, ResetSteps
    <2> QED BY <1>6, <2>1 DEF SavePassword
  <1>7. CASE UnmarkVerified(r)
    BY <1>7 DEF UnmarkVerified
  <1>8. CASE DeleteUser(r)
    BY <1>8 DEF DeleteUser
  <1>9. CASE StartScan(r)
    BY <1>9 DEF StartScan
  <1>10. CASE DeleteKey(r)
    BY <1>10 DEF DeleteKey
  <1>11. CASE EndScan(r)
    BY <1>11 DEF EndScan
  <1> QED BY <1>1, <1>2, <1>3, <1>4, <1>5, <1>6, <1>7, <1>8, <1>9, <1>10, <1>11 DEF Stores

LEMMA StorePlaced ==
    ASSUME TypeInv, NEW r \in Requests, Served(r), Stores(r)
    PROVE  AtPlace(r)'
  <1>1. AtPlace(r)
    BY DEF TypeInv
  <1> USE <1>1 DEF Served, AtPlace, InFlight, LoginSteps, SendSteps, ConfirmSteps, ResetSteps, SweepSteps
  <1>2. CASE Ends(r)
    BY <1>2 DEF Ends
  <1>3. CASE StoreCode(r) /\ LeadsTo(r, "mail")
    BY <1>3 DEF StoreCode, LeadsTo
  <1>4. CASE TakeCode(r) /\ LeadsTo(r, "mark")
    BY <1>4 DEF TakeCode, LeadsTo
  <1>5. CASE SavePassword(r) /\ LeadsTo(r, "unmark")
    BY <1>5 DEF SavePassword, LeadsTo
  <1>6. CASE UnmarkVerified(r) /\ LeadsTo(r, "scan")
    BY <1>6 DEF UnmarkVerified, LeadsTo
  <1>7. CASE DeleteUser(r) /\ LeadsTo(r, "scan")
    BY <1>7 DEF DeleteUser, LeadsTo
  <1>8. CASE StartScan(r) /\ LeadsTo(r, "sweep")
    BY <1>8 DEF StartScan, LeadsTo
  <1>9. CASE DeleteKey(r) /\ LeadsTo(r, "sweep")
    BY <1>9 DEF DeleteKey, LeadsTo
  <1> QED BY <1>2, <1>3, <1>4, <1>5, <1>6, <1>7, <1>8, <1>9 DEF Stores

LEMMA TypeStep ==
    ASSUME TypeInv, [Next]_vars
    PROVE  TypeInv'
  <1>1. ASSUME NEW r \in Requests, Served(r), Stores(r) PROVE TypeInv'
    <2>1. TypeOK'
      BY <1>1, StoredTyped DEF Served, TypeInv, TypeOK
    <2>2. \A q \in Requests : q # r => AtPlace(q)'
      BY <1>1, OthersAtPlace DEF Served, TypeInv
    <2> QED BY <1>1, <2>1, <2>2, StorePlaced DEF TypeInv
  <1>2. CASE Expire
    <2>1. /\ UNCHANGED <<account, pc, req, mem, answer>>
          /\ code' \in [Emails -> Codes \cup {None}]
          /\ sessions' \subseteq Session /\ verified' \subseteq Emails
      BY <1>2 DEF Expire, TypeInv, TypeOK
    <2> QED BY <2>1, OthersAtPlace DEF TypeInv, TypeOK
  <1>3. CASE UNCHANGED vars
    BY <1>3, OthersAtPlace DEF vars, TypeInv, TypeOK
  <1> QED BY <1>1, <1>2, <1>3, KindsOfStep, ArrivalTyped, QuietTyped

----------------------------------------------------------------------------
(* What a step changes *)

\* A request keeps its input and what it saw when it arrived; one that is
\* answered stays answered.
LEMMA Kept ==
    ASSUME TypeInv, [Next]_vars, NEW q \in Requests
    PROVE  /\ pc[q] # "idle" => pc'[q] # "idle" /\ req'[q] = req[q] /\ mem'[q].given = mem[q].given
           /\ pc[q] = "done" => pc'[q] = "done" /\ answer'[q] = answer[q]
  <1>1. ASSUME NEW r \in Requests, Arrived(r) \/ Served(r)
        PROVE  /\ pc[q] # "idle" => pc'[q] # "idle" /\ req'[q] = req[q] /\ mem'[q].given = mem[q].given
               /\ pc[q] = "done" => pc'[q] = "done" /\ answer'[q] = answer[q]
    BY <1>1 DEF Arrived, Served, InFlight
  <1>2. CASE Expire
    BY <1>2 DEF Expire
  <1>3. CASE UNCHANGED vars
    BY <1>3 DEF vars
  <1> QED BY <1>1, <1>2, <1>3, KindsOfStep

LEMMA AnsweredIsDone ==
    ASSUME TypeInv, NEW q \in Requests, answer[q] # "none"
    PROVE  pc[q] = "done"
  BY DEF TypeInv, AtPlace

LEMMA HandedOutGrows ==
    ASSUME TypeInv, [Next]_vars
    PROVE  HandedOut \subseteq HandedOut'
  <1>1. ASSUME NEW q \in Requests, answer[q] = "ok" PROVE answer'[q] = "ok" /\ req'[q] = req[q]
    BY <1>1, AnsweredIsDone, Kept
  <1> QED BY <1>1 DEF HandedOut, Session, Jtis

\* Only a login stores a session.
LEMMA SessionsStored ==
    ASSUME TypeInv, [Next]_vars
    PROVE  \/ sessions' \subseteq sessions
           \/ \E r \in Requests : IssueTokens(r) /\ Ends(r)
  <1>1. ASSUME NEW r \in Requests, Stores(r), ~IssueTokens(r) PROVE sessions' \subseteq sessions
    <2> USE DEF redis
    <2>1. CASE EndSession(r) \/ DeleteKey(r)
      BY <2>1 DEF EndSession, DeleteKey
    <2>2. CASE StoreCode(r) \/ TakeCode(r) \/ MarkVerified(r) \/ SavePassword(r) \/ UnmarkVerified(r)
      BY <2>2 DEF StoreCode, TakeCode, MarkVerified, SavePassword, UnmarkVerified
    <2>3. CASE DeleteUser(r) \/ StartScan(r) \/ EndScan(r)
      BY <2>3 DEF DeleteUser, StartScan, EndScan
    <2> QED BY <1>1, <2>1, <2>2, <2>3 DEF Stores
  <1>2. ASSUME NEW r \in Requests, Stores(r), IssueTokens(r) PROVE Ends(r)
    BY <1>2 DEF Stores, IssueTokens, EndSession, StoreCode, TakeCode, MarkVerified, SavePassword,
                UnmarkVerified, DeleteUser, StartScan, DeleteKey, EndScan
  <1>3. CASE Expire
    BY <1>3 DEF Expire
  <1>4. CASE UNCHANGED vars
    BY <1>4 DEF vars
  <1> QED BY <1>1, <1>2, <1>3, <1>4, KindsOfStep DEF Arrived, Quiet

\* A session that was handed out and has ended is not stored again: its login
\* has been answered.
LEMMA SessionsStayEnded ==
    ASSUME TypeInv, [Next]_vars, NEW s \in HandedOut, s \in sessions'
    PROVE  s \in sessions
  <1>1. ASSUME NEW r \in Requests, IssueTokens(r) PROVE s \in sessions
    <2>1. pc[r] = "issue" /\ sessions' = sessions \cup {<<req[r].email, r>>} /\ answer[r] = "none"
      BY <1>1 DEF IssueTokens, TypeInv, AtPlace
    <2>2. s # <<req[r].email, r>>
      BY <2>1, SessionsAssumption DEF HandedOut
    <2> QED BY <2>1, <2>2
  <1> QED BY <1>1, SessionsStored

\* Only a reset and a withdrawal change an account.
LEMMA AccountsChanged ==
    ASSUME TypeInv, [Next]_vars
    PROVE  \/ account' = account
           \/ \E r \in Requests :
                 /\ pc[r] = "savePassword" /\ account[req[r].email] # None
                 /\ account' = [account EXCEPT ![req[r].email] = req[r].password]
           \/ \E r \in Requests :
                 /\ pc[r] = "deleteUser"
                 /\ account' = [account EXCEPT ![req[r].email] = None]
  <1>1. ASSUME NEW r \in Requests, Stores(r), ~SavePassword(r), ~DeleteUser(r) PROVE account' = account
    BY <1>1 DEF Stores, IssueTokens, EndSession, StoreCode, TakeCode, MarkVerified,
                UnmarkVerified, StartScan, DeleteKey, EndScan
  <1>2. ASSUME NEW r \in Requests, SavePassword(r)
        PROVE  \/ account' = account
               \/ /\ pc[r] = "savePassword" /\ account[req[r].email] # None
                  /\ account' = [account EXCEPT ![req[r].email] = req[r].password]
    BY <1>2 DEF SavePassword
  <1>3. ASSUME NEW r \in Requests, DeleteUser(r)
        PROVE  pc[r] = "deleteUser" /\ account' = [account EXCEPT ![req[r].email] = None]
    BY <1>3 DEF DeleteUser
  <1>4. CASE Expire
    BY <1>4 DEF Expire
  <1>5. CASE UNCHANGED vars
    BY <1>5 DEF vars
  <1> QED BY <1>1, <1>2, <1>3, <1>4, <1>5, KindsOfStep DEF Arrived, Quiet

LEMMA LocalStep ==
    ASSUME TypeInv, LocalInv, [Next]_vars
    PROVE  LocalInv'
  <1> SUFFICES ASSUME NEW q \in Requests, pc'[q] = "savePassword"
               PROVE  account'[req'[q].email] \in Passwords \cup {None}
    BY DEF LocalInv
  <1>1. CASE pc[q] = "savePassword"
    <2>1. /\ req'[q] = req[q] /\ req[q].email \in Emails
          /\ account[req[q].email] \in Passwords \cup {None}
          /\ account \in [Emails -> Passwords \cup {Social, None}]
      BY <1>1, Kept DEF TypeInv, TypeOK, AtPlace, InFlight, LocalInv
    <2>2. \A r \in Requests : pc[r] = "savePassword" => req[r].password \in Passwords
      BY DEF TypeInv, AtPlace, ResetSteps
    <2> QED BY <2>1, <2>2, AccountsChanged
  <1>2. CASE pc[q] # "savePassword"
    <2>1. Served(q) /\ Quiet(q) /\ IsLocal(req[q].email)
      <3>1. ASSUME NEW r \in Requests, Arrived(r) PROVE FALSE
        BY <1>2, <3>1 DEF Arrived
      <3>2. ASSUME NEW r \in Requests, Served(r), r # q PROVE FALSE
        BY <1>2, <3>2 DEF Served
      <3>3. ASSUME Stores(q) PROVE FALSE
        BY <1>2, <3>3 DEF Stores, Ends, LeadsTo
      <3>4. Quiet(q) => IsLocal(req[q].email)
        BY <1>2 DEF Quiet, LoginSteps
      <3>5. ~Expire /\ ~UNCHANGED vars
        BY <1>2 DEF Expire, vars
      <3> QED BY <3>1, <3>2, <3>3, <3>4, <3>5, KindsOfStep
    <2> QED BY <2>1 DEF Served, Quiet, IsLocal
  <1> QED BY <1>1, <1>2

----------------------------------------------------------------------------
(* Sweeps *)

\* What the handler of q does when its step is not that of another request.
LEMMA OwnStep ==
    ASSUME TypeInv, [Next]_vars, NEW q \in Requests
    PROVE  \/ pc'[q] = pc[q] /\ answer'[q] = answer[q] /\ mem'[q] = mem[q]
           \/ Arrived(q)
           \/ Served(q) /\ (Quiet(q) \/ Stores(q))
  <1>1. ASSUME NEW r \in Requests, Arrived(r) \/ Served(r), r # q
        PROVE  pc'[q] = pc[q] /\ answer'[q] = answer[q] /\ mem'[q] = mem[q]
    BY <1>1 DEF Arrived, Served
  <1>2. CASE Expire
    BY <1>2 DEF Expire
  <1>3. CASE UNCHANGED vars
    BY <1>3 DEF vars
  <1> QED BY <1>1, <1>2, <1>3, KindsOfStep

\* A reset or a withdrawal succeeds at the end of its sweep, nowhere else.
LEMMA SuccessIsSwept ==
    ASSUME TypeInv, [Next]_vars, NEW q \in Requests,
           Kind[q] \in {"reset", "withdraw"}, answer'[q] = "ok"
    PROVE  answer[q] = "ok" \/ EndScan(q)
  <1>1. CASE Arrived(q)
    <2>1. answer[q] = "none"
      BY <1>1 DEF Arrived, TypeInv, AtPlace
    <2> QED BY <1>1, <2>1 DEF Arrived
  <1>2. CASE Served(q) /\ Quiet(q)
    <2>1. answer[q] = "none" /\ pc[q] \notin {"mail", "findUser"}
      BY <1>2 DEF Served, InFlight, TypeInv, AtPlace, SendSteps
    <2> QED BY <1>2, <2>1 DEF Quiet
  <1>3. CASE Served(q) /\ Stores(q)
    <2>1. answer[q] = "none"
      BY <1>3 DEF Served, InFlight, TypeInv, AtPlace
    <2>2. ~(IssueTokens(q) \/ EndSession(q) \/ MarkVerified(q))
      BY DEF IssueTokens, EndSession, MarkVerified, TypeInv, AtPlace, LoginSteps, ConfirmSteps
    <2> QED BY <1>3, <2>1, <2>2 DEF Stores, LeadsTo
  <1> QED BY <1>1, <1>2, <1>3, OwnStep

LEMMA GivenStep ==
    ASSUME TypeInv, SweepInv, [Next]_vars, NEW q \in Requests, pc'[q] # "idle"
    PROVE  mem'[q].given \subseteq HandedOut'
  <1>1. CASE pc[q] # "idle"
    BY <1>1, Kept, HandedOutGrows DEF SweepInv
  <1>2. CASE pc[q] = "idle"
    <2>1. Arrived(q)
      BY <1>2, OwnStep DEF Served, InFlight
    <2> QED BY <2>1, HandedOutGrows DEF Arrived
  <1> QED BY <1>1, <1>2

\* A sweep has still to do what it had to do, less what it deletes.
LEMMA TodoStep ==
    ASSUME TypeInv, SweepInv, [Next]_vars, NEW q \in Requests, pc'[q] = "sweep",
           NEW s \in mem'[q].given \cap sessions', s[1] = req'[q].email
    PROVE  s \in mem'[q].todo
  <1>1. pc[q] # "idle"
    BY OwnStep DEF Arrived, Served, InFlight
  <1>2. /\ s \in mem[q].given /\ req'[q] = req[q]
        /\ s \in HandedOut /\ s \in sessions
    BY <1>1, Kept, SessionsStayEnded DEF SweepInv
  <1>3. CASE pc'[q] = pc[q] /\ mem'[q] = mem[q]
    BY <1>2, <1>3 DEF SweepInv
  <1>4. CASE StartScan(q) /\ mem'[q].todo = SessionsOf(req[q].email)
    BY <1>2, <1>4 DEF SessionsOf
  <1>5. CASE DeleteKey(q)
    <2>1. PICK x : /\ sessions' = sessions \ {x} /\ mem' = [mem EXCEPT ![q].todo = @ \ {x}]
                   /\ pc[q] = "sweep"
      BY <1>5 DEF DeleteKey
    <2>2. mem \in [Requests -> Memory] /\ mem[q] \in Memory
      BY DEF TypeInv, TypeOK
    <2>3. mem'[q].todo = mem[q].todo \ {x}
      BY <2>1, <2>2 DEF Memory
    <2>4. s \in mem[q].todo
      BY <1>2, <2>1 DEF SweepInv
    <2> QED BY <2>1, <2>3, <2>4
  <1>6. ASSUME Served(q), Quiet(q) PROVE FALSE
    BY <1>6 DEF Quiet, LoginSteps
  <1>7. ASSUME Served(q), Stores(q) PROVE DeleteKey(q) \/ (StartScan(q) /\ mem'[q].todo = SessionsOf(req[q].email))
    BY <1>7 DEF Stores, Ends, LeadsTo
  <1>8. ~Arrived(q)
    BY <1>1 DEF Arrived
  <1> QED BY <1>3, <1>4, <1>5, <1>6, <1>7, <1>8, OwnStep

LEMMA RevokedStep ==
    ASSUME TypeInv, SweepInv, [Next]_vars
    PROVE  OldSessionsRevoked'
  <1> SUFFICES ASSUME NEW q \in Requests, Kind[q] \in {"reset", "withdraw"}, answer'[q] = "ok",
                      NEW s \in mem'[q].given, s[1] = req'[q].email, s \in sessions'
               PROVE  FALSE
    BY DEF OldSessionsRevoked
  <1>1. pc[q] # "idle"
    <2>1. CASE answer[q] = "ok"
      BY <2>1, AnsweredIsDone
    <2>2. CASE EndScan(q)
      BY <2>2 DEF EndScan
    <2> QED BY <2>1, <2>2, SuccessIsSwept
  <1>2. /\ s \in mem[q].given /\ req'[q] = req[q]
        /\ s \in HandedOut /\ s \in sessions
    BY <1>1, Kept, SessionsStayEnded DEF SweepInv
  <1>3. CASE answer[q] = "ok"
    BY <1>2, <1>3 DEF SweepInv, OldSessionsRevoked
  <1>4. CASE EndScan(q)
    BY <1>2, <1>4 DEF EndScan, SweepInv
  <1> QED BY <1>3, <1>4, SuccessIsSwept

LEMMA SweepStep ==
    ASSUME TypeInv, SweepInv, [Next]_vars
    PROVE  SweepInv'
  <1>1. \A q \in Requests : pc'[q] # "idle" => mem'[q].given \subseteq HandedOut'
    BY GivenStep
  <1>2. \A q \in Requests : pc'[q] = "sweep" =>
           \A s \in mem'[q].given \cap sessions' : s[1] = req'[q].email => s \in mem'[q].todo
    BY TodoStep
  <1> QED BY <1>1, <1>2, RevokedStep DEF SweepInv

----------------------------------------------------------------------------
(* Codes and markers *)

\* What a request named stays so.
LEMMA NamedStays ==
    ASSUME TypeInv, [Next]_vars, NEW q \in Requests, req[q].email \in Emails
    PROVE  req'[q] = req[q]
  <1>1. pc[q] # "idle"
    BY NoRequestTyped DEF TypeInv, AtPlace
  <1> QED BY <1>1, Kept

LEMMA SentStays ==
    ASSUME TypeInv, [Next]_vars, NEW e \in Emails, NEW c, Sent(e, c)
    PROVE  Sent(e, c)'
  <1>1. PICK q \in Requests : Kind[q] = "send" /\ req[q].email = e /\ req[q].code = c
    BY DEF Sent
  <1>2. req'[q] = req[q]
    BY <1>1, NamedStays
  <1> QED BY <1>1, <1>2 DEF Sent

LEMMA ConfirmersGrow ==
    ASSUME TypeInv, [Next]_vars, NEW e \in Emails
    PROVE  Confirmers(e) \subseteq Confirmers(e)'
  BY NamedStays DEF Confirmers

LEMMA ProvedStays ==
    ASSUME TypeInv, [Next]_vars, NEW e \in Emails, Proved(e)
    PROVE  Proved(e)'
  <1>1. PICK c \in Confirmers(e) : pc[c] = "done" /\ Sent(e, req[c].code)
    BY DEF Proved
  <1>2. c \in Requests /\ c \in Confirmers(e)' /\ req'[c] = req[c] /\ pc'[c] = "done"
    BY <1>1, ConfirmersGrow, NamedStays, Kept DEF Confirmers
  <1>3. Sent(e, req[c].code)'
    BY <1>1, <1>2, SentStays DEF Sent
  <1> QED BY <1>2, <1>3 DEF Proved

\* The values an action leaves in Redis, for the keys the proofs are about.
LEMMA CodesStored ==
    ASSUME TypeInv, [Next]_vars, NEW e \in Emails, code'[e] # None, code'[e] # code[e]
    PROVE  \E r \in Requests : Kind[r] = "send" /\ req[r].email = e /\ code'[e] = req[r].code
  <1>0. code \in [Emails -> Codes \cup {None}]
    BY DEF TypeInv, TypeOK
  <1>1. ASSUME NEW r \in Requests, Stores(r), ~StoreCode(r), ~TakeCode(r) PROVE code' = code
    BY <1>1 DEF redis, Stores, IssueTokens, EndSession, MarkVerified, SavePassword, UnmarkVerified,
                DeleteUser, StartScan, DeleteKey, EndScan
  <1>2. ASSUME NEW r \in Requests, TakeCode(r) PROVE FALSE
    BY <1>0, <1>2 DEF TakeCode
  <1>3. ASSUME NEW r \in Requests, StoreCode(r)
        PROVE  Kind[r] = "send" /\ req[r].email = e /\ code'[e] = req[r].code
    BY <1>0, <1>3 DEF StoreCode, TypeInv, AtPlace, SendSteps
  <1>4. ~Expire
    BY <1>0 DEF Expire
  <1>5. ~UNCHANGED vars
    BY DEF vars
  <1> QED BY <1>1, <1>2, <1>3, <1>4, <1>5, KindsOfStep DEF Arrived, Quiet

LEMMA MarkersStored ==
    ASSUME TypeInv, [Next]_vars, NEW e \in verified', e \notin verified
    PROVE  \E r \in Requests : MarkVerified(r) /\ req[r].email = e
  <1>1. ASSUME NEW r \in Requests, Stores(r), ~MarkVerified(r) PROVE FALSE
    BY <1>1 DEF redis, Stores, IssueTokens, EndSession, StoreCode, TakeCode, SavePassword, UnmarkVerified,
                DeleteUser, StartScan, DeleteKey, EndScan
  <1>2. ASSUME NEW r \in Requests, MarkVerified(r) PROVE req[r].email = e
    BY <1>2 DEF MarkVerified
  <1>3. ~Expire
    BY DEF Expire
  <1>4. ~UNCHANGED vars
    BY DEF vars
  <1> QED BY <1>1, <1>2, <1>3, <1>4, KindsOfStep DEF Arrived, Quiet

\* Who confirms has checked the code against one that was sent.
LEMMA ConfirmerStep ==
    ASSUME TypeInv, ProofInv, [Next]_vars, NEW q \in Requests, pc'[q] \in ConfirmSteps
    PROVE  Sent(req[q].email, req[q].code)'
  <1>1. CASE pc[q] \in ConfirmSteps
    <2>1. req'[q] = req[q] /\ req[q].email \in Emails /\ Sent(req[q].email, req[q].code)
      BY <1>1, Kept DEF ProofInv, TypeInv, AtPlace, InFlight, ConfirmSteps
    <2>2. PICK e \in Emails : e = req[q].email
      BY <2>1
    <2>3. PICK c : c = req[q].code
      OBVIOUS
    <2>4. Sent(e, c)'
      BY <2>1, <2>2, <2>3, SentStays
    <2> QED BY <2>1, <2>2, <2>3, <2>4 DEF Sent
  <1>2. CASE pc[q] \notin ConfirmSteps
    <2>1. ASSUME Served(q), Quiet(q) PROVE FALSE
      BY <1>2, <2>1 DEF Quiet, LoginSteps, ConfirmSteps
    <2>2. ASSUME Served(q), Stores(q) PROVE FALSE
      BY <1>2, <2>2 DEF Stores, Ends, LeadsTo, ConfirmSteps, TakeCode
    <2>3. Arrived(q)
      BY <1>2, <2>1, <2>2, OwnStep
    <2>4. /\ code[req'[q].email] = req'[q].code /\ req'[q].code \in Codes /\ req'[q].email \in Emails
      BY <2>3 DEF Arrived, ConfirmSteps
    <2>5. PICK e \in Emails, c \in Codes : e = req'[q].email /\ c = req'[q].code
      BY <2>4
    <2>6. Sent(e, c)
      BY <2>4, <2>5, SessionsAssumption DEF ProofInv
    <2>7. Sent(e, c)'
      BY <2>6, SentStays
    <2> QED BY <2>5, <2>7 DEF Sent
  <1> QED BY <1>1, <1>2

LEMMA MarkerStep ==
    ASSUME TypeInv, ProofInv, [Next]_vars, NEW e \in verified'
    PROVE  Proved(e)'
  <1>0. e \in Emails
    BY TypeStep DEF TypeInv, TypeOK
  <1>1. CASE e \in verified
    BY <1>0, <1>1, ProvedStays DEF ProofInv
  <1>2. ASSUME NEW r \in Requests, MarkVerified(r), req[r].email = e PROVE Proved(e)'
    <2>1. Kind[r] = "confirm" /\ Sent(e, req[r].code) /\ pc[r] = "mark"
      BY <1>2 DEF MarkVerified, TypeInv, AtPlace, ProofInv, ConfirmSteps
    <2>2. pc'[r] = "done" /\ req'[r] = req[r]
      BY <1>2 DEF MarkVerified, Respond, TypeInv, TypeOK
    <2>3. r \in Confirmers(e)'
      BY <1>2, <2>1, <2>2 DEF Confirmers
    <2>4. Sent(e, req[r].code)'
      BY <1>0, <2>1, <2>2, SentStays DEF Sent
    <2> QED BY <2>2, <2>3, <2>4 DEF Proved
  <1> QED BY <1>1, <1>2, MarkersStored

\* A reset goes on only with the proof it found when it arrived.
LEMMA ResetterStep ==
    ASSUME TypeInv, ProofInv, [Next]_vars, NEW q \in Requests,
           pc'[q] \in ResetSteps \/ Spending(q)'
    PROVE  req'[q].email \in Emails /\ Proved(req[q].email)'
  <1>1. CASE pc[q] \in ResetSteps \/ Spending(q)
    <2>1. pc[q] # "idle" /\ req[q].email \in Emails /\ Proved(req[q].email)
      BY <1>1, AnsweredIsDone DEF ProofInv, TypeInv, AtPlace, InFlight, ResetSteps, SweepSteps, Spending
    <2>2. PICK e \in Emails : e = req[q].email
      BY <2>1
    <2>3. req'[q] = req[q] /\ Proved(e)'
      BY <2>1, <2>2, Kept, ProvedStays
    <2> QED BY <2>2, <2>3 DEF Proved, Confirmers
  <1>2. CASE Arrived(q)
    <2>1. answer[q] = "none"
      BY <1>2 DEF Arrived, TypeInv, AtPlace
    <2>2. req'[q].email \in Emails /\ req'[q].email \in verified
      BY <1>2, <2>1 DEF Arrived, ResetSteps, SweepSteps, Spending
    <2>3. PICK e \in Emails : e = req'[q].email
      BY <2>2
    <2>4. Proved(e)'
      BY <2>2, <2>3, ProvedStays DEF ProofInv
    <2> QED BY <2>3, <2>4 DEF Proved, Confirmers
  <1>3. ASSUME ~Arrived(q) PROVE pc[q] \in ResetSteps \/ Spending(q)
    <2>1. CASE pc'[q] = pc[q] /\ answer'[q] = answer[q]
      BY <2>1 DEF Spending
    <2>2. CASE Spending(q)' /\ answer'[q] = "ok"
      <3>1. CASE EndScan(q)
        BY <2>2, <3>1 DEF EndScan, Spending, SweepSteps
      <3>2. CASE answer[q] = "ok"
        BY <2>2, <3>2 DEF Spending
      <3> QED BY <2>2, <3>1, <3>2, SuccessIsSwept DEF Spending
    <2>3. CASE Served(q) /\ Quiet(q) /\ ~(answer'[q] = "ok")
      BY <2>3 DEF Quiet, LoginSteps, ResetSteps, SweepSteps, Spending
    <2>4. CASE Served(q) /\ Stores(q) /\ ~(answer'[q] = "ok")
      <3>1. CASE pc'[q] \in ResetSteps
        BY <2>4, <3>1 DEF Stores, Ends, LeadsTo, ResetSteps, SavePassword
      <3>2. CASE pc'[q] \in SweepSteps /\ Kind[q] = "reset"
        <4>1. ~DeleteUser(q)
          BY <3>2 DEF DeleteUser, TypeInv, AtPlace
        <4> QED BY <2>4, <3>2, <4>1 DEF Stores, Ends, LeadsTo, ResetSteps, SweepSteps, Spending,
                                         UnmarkVerified, StartScan, DeleteKey
      <3> QED BY <2>4, <3>1, <3>2 DEF Spending
    <2>5. CASE answer'[q] = "ok" /\ pc'[q] \in ResetSteps
      BY <2>5, TypeStep DEF TypeInv, AtPlace, ResetSteps
    <2> QED BY <1>3, <2>1, <2>2, <2>3, <2>4, <2>5, OwnStep
  <1> QED BY <1>1, <1>2, <1>3

\* A marker that a reset has used up returns only with another confirmation.
LEMMA SpentStep ==
    ASSUME TypeInv, ProofInv, [Next]_vars, NEW q \in Requests, Spending(q)',
           \A c, d \in Confirmers(req'[q].email) : c = d
    PROVE  req'[q].email \notin verified'
  <1>1. CASE Spending(q)
    <2>1. /\ pc[q] # "idle" /\ req[q].email \in Emails /\ Proved(req[q].email)
      BY <1>1, AnsweredIsDone DEF ProofInv, Spending, SweepSteps
    <2>2. req'[q] = req[q] /\ req[q].email \notin verified
      BY <1>1, <2>1, Kept DEF ProofInv
    <2>3. PICK c \in Confirmers(req[q].email) : pc[c] = "done"
      BY <2>1 DEF Proved
    <2>4. ASSUME NEW r \in Requests, MarkVerified(r), req[r].email = req[q].email PROVE FALSE
      <3>1. r \in Confirmers(req[q].email) /\ pc[r] = "mark"
        BY <2>4 DEF MarkVerified, Confirmers, TypeInv, AtPlace, ConfirmSteps
      <3> QED BY <2>2, <2>3, <3>1
    <2> QED BY <2>2, <2>4, MarkersStored
  <1>2. CASE UnmarkVerified(q)
    BY <1>2 DEF UnmarkVerified
  <1>3. ASSUME ~Spending(q) PROVE UnmarkVerified(q)
    <2>0. Kind[q] = "reset"
      BY DEF Spending
    <2>1. answer'[q] # "ok"
      <3>1. ASSUME EndScan(q) PROVE FALSE
        BY <1>3, <2>0, <3>1 DEF EndScan, Spending, SweepSteps
      <3> QED BY <1>3, <2>0, <3>1, SuccessIsSwept DEF Spending
    <2>2. pc'[q] \in SweepSteps /\ pc[q] \notin SweepSteps
      BY <1>3, <2>0, <2>1 DEF Spending
    <2>3. ~(Served(q) /\ Quiet(q)) /\ ~Arrived(q)
      BY <2>2 DEF Quiet, Arrived, LoginSteps, SweepSteps
    <2>4. ~DeleteUser(q)
      BY <2>0 DEF DeleteUser, TypeInv, AtPlace
    <2> QED BY <2>2, <2>3, <2>4, OwnStep DEF Stores, Ends, LeadsTo, SweepSteps, StartScan, DeleteKey
  <1> QED BY <1>1, <1>2, <1>3

LEMMA ProofStep ==
    ASSUME TypeInv, ProofInv, [Next]_vars
    PROVE  ProofInv'
  <1>1. ASSUME NEW e \in Emails, code'[e] # None PROVE Sent(e, code[e])'
    <2>1. CASE code'[e] = code[e]
      <3>1. PICK c : c = code[e]
        OBVIOUS
      <3>2. Sent(e, c)'
        BY <1>1, <2>1, <3>1, SentStays DEF ProofInv
      <3> QED BY <2>1, <3>1, <3>2 DEF Sent
    <2>2. CASE code'[e] # code[e]
      <3>1. PICK r \in Requests : Kind[r] = "send" /\ req[r].email = e /\ code'[e] = req[r].code
        BY <1>1, <2>2, CodesStored
      <3>2. req'[r] = req[r]
        BY <3>1, NamedStays
      <3> QED BY <3>1, <3>2 DEF Sent
    <2> QED BY <2>1, <2>2
  <1>2. ASSUME NEW q \in Requests, Spending(q)', \A c, d \in Confirmers(req[q].email)' : c = d
        PROVE  req'[q].email \notin verified'
    <2>1. PICK e \in Emails : e = req'[q].email
      BY <1>2, ResetterStep
    <2>2. Confirmers(e) \subseteq Confirmers(e)' /\ Confirmers(e)' = Confirmers(req[q].email)'
      BY <2>1, ConfirmersGrow DEF Confirmers
    <2>3. \A c, d \in Confirmers(req'[q].email) : c = d
      BY <1>2, <2>1, <2>2
    <2> QED BY <1>2, <2>3, SpentStep
  <1> QED BY <1>1, <1>2, ConfirmerStep, MarkerStep, ResetterStep DEF ProofInv

----------------------------------------------------------------------------
(* The theorems *)

LEMMA Initially == Init => IInv
  <1> SUFFICES ASSUME Init PROVE IInv
    OBVIOUS
  <1>1. /\ pc \in [Requests -> {"idle", "done"}]
        /\ \A r \in Requests : req[r] = NoRequest /\ mem[r] = NoMemory /\ answer[r] = "none"
    BY DEF Init
  <1>2. TypeOK
    <2>1. OldSessions \subseteq Session
      BY SessionsAssumption DEF Session, Jtis
    <2>2. NoMemory \in Memory
      BY DEF NoMemory, Memory
    <2> QED BY <1>1, <2>1, <2>2, NoRequestTyped, SessionsAssumption DEF Init, TypeOK, Steps, Answers
  <1>3. TypeInv
    BY <1>1, <1>2 DEF TypeInv, AtPlace, InFlight, LoginSteps, SendSteps, ConfirmSteps, ResetSteps, SweepSteps
  <1>5. LocalInv
    BY <1>1 DEF LocalInv
  <1>6. SweepInv
    BY <1>1 DEF SweepInv, OldSessionsRevoked, NoMemory
  <1>7. ProofInv
    BY <1>1 DEF Init, ProofInv, Spending, ConfirmSteps, ResetSteps, SweepSteps
  <1> QED BY <1>3, <1>5, <1>6, <1>7 DEF IInv

LEMMA Inductive == IInv /\ [Next]_vars => IInv'
  BY TypeStep, LocalStep, SweepStep, ProofStep DEF IInv

LEMMA Invariant == Spec => []IInv
  BY Initially, Inductive, PTL DEF Spec

\* Accounts, Redis keys and handler variables keep their types under every mix
\* of requests, failures and expiries.
THEOREM SessionsTypeCorrect == Spec => []TypeOK
  BY Invariant, PTL DEF IInv, TypeInv

\* A reset or withdrawal that succeeds has ended every session its account's
\* clients held when it was asked for, whatever was under way beside it.
THEOREM SessionsRevoked == Spec => []OldSessionsRevoked
  BY Invariant, PTL DEF IInv, SweepInv

\* No step stores an ended session again, brings a withdrawn account back or
\* gives an account of a social provider a password.
THEOREM NothingReturns == Spec => NothingComesBack
  <1>1. ASSUME IInv, [Next]_vars
        PROVE  /\ \A s \in HandedOut : s \notin sessions => s \notin sessions'
               /\ \A e \in Emails : account[e] \in {Social, None} => account'[e] \in {account[e], None}
    <2>1. \A s \in HandedOut : s \notin sessions => s \notin sessions'
      BY <1>1, SessionsStayEnded DEF IInv
    <2>2. ASSUME NEW e \in Emails, account[e] \in {Social, None} PROVE account'[e] \in {account[e], None}
      <3>1. account \in [Emails -> Passwords \cup {Social, None}]
        BY <1>1 DEF IInv, TypeInv, TypeOK
      <3>2. ASSUME NEW r \in Requests, pc[r] = "savePassword", account[req[r].email] # None
            PROVE  req[r].email # e
        BY <1>1, <2>2, <3>2, SessionsAssumption DEF IInv, LocalInv
      <3> QED BY <1>1, <3>1, <3>2, AccountsChanged DEF IInv
    <2> QED BY <2>1, <2>2
  <1> QED BY <1>1, Invariant, PTL DEF Spec, NothingComesBack

\* A password changes only for a code that was sent to the address and entered,
\* and a successful reset has used its marker up.
THEOREM ChangesProved == Spec => PasswordChangeProved
  <1> DEFINE A == \A e \in Emails : account'[e] # account[e] /\ account'[e] \in Passwords =>
                    \E s, c \in Requests :
                       /\ Kind[s] = "send" /\ req[s].email = e
                       /\ Kind[c] = "confirm" /\ req[c].email = e
                       /\ req[c].code = req[s].code
             B == \A r \in Requests :
                    /\ Kind[r] = "reset" /\ answer'[r] = "ok"
                    /\ \A c, d \in Confirmers(req[r].email) : c = d
                    => req[r].email \notin verified'
  <1>1. ASSUME IInv, [Next]_vars PROVE A
    <2> SUFFICES ASSUME NEW e \in Emails, account'[e] # account[e], account'[e] \in Passwords
                 PROVE  \E s, c \in Requests :
                           /\ Kind[s] = "send" /\ req[s].email = e
                           /\ Kind[c] = "confirm" /\ req[c].email = e
                           /\ req[c].code = req[s].code
      OBVIOUS
    <2>1. account \in [Emails -> Passwords \cup {Social, None}] /\ None \notin Passwords
      BY <1>1, SessionsAssumption DEF IInv, TypeInv, TypeOK
    <2>2. PICK r \in Requests : pc[r] = "savePassword" /\ req[r].email = e
      BY <1>1, <2>1, AccountsChanged DEF IInv
    <2>3. Proved(e)
      BY <1>1, <2>2 DEF IInv, ProofInv, ResetSteps
    <2> QED BY <2>3 DEF Proved, Sent, Confirmers
  <1>2. ASSUME IInv, [Next]_vars PROVE B
    <2> SUFFICES ASSUME NEW r \in Requests, Kind[r] = "reset", answer'[r] = "ok",
                        \A c, d \in Confirmers(req[r].email) : c = d
                 PROVE  req[r].email \notin verified'
      OBVIOUS
    <2>1. Spending(r)'
      BY DEF Spending
    <2>2. pc[r] # "idle"
      <3>1. CASE EndScan(r)
        BY <3>1 DEF EndScan
      <3> QED BY <1>2, <3>1, SuccessIsSwept, AnsweredIsDone DEF IInv
    <2>3. req'[r] = req[r]
      BY <1>2, <2>2, Kept DEF IInv
    <2> QED BY <1>2, <2>1, <2>3, SpentStep DEF IInv
  <1> QED BY <1>1, <1>2, Invariant, PTL DEF Spec, PasswordChangeProved
=============================================================================
