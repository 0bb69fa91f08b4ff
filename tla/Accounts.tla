------------------------------ MODULE Accounts ------------------------------
(***************************************************************************)
(* Accounts: sign-up with a confirmed e-mail address, social login, change *)
(* of nickname, withdrawal.  Accounts are rows of PostgreSQL's users table *)
(* under READ COMMITTED, codes and markers are keys in Redis.  A handler's *)
(* steps are its awaits, in the order of the code.                         *)
(***************************************************************************)
EXTENDS Naturals

CONSTANTS
    Emails, Nicks, Codes,
    Typed,             \* the nicknames people enter themselves
    Identities,        \* social identities: a provider and its id of the person
    Candidate,         \* Candidate[name][n]: the n-th name tried for a person a provider calls name
    MaxTry,            \* how many names are tried at most (bound)
    OldIds, OldUsers,  \* earlier accounts: their ids, and the tables to start from
    Proved,            \* addresses confirmed before the behaviour starts
    Requests, Kind, MayFail,
    Mixes,             \* the sets of requests that are made in one behaviour
    None

VARIABLES
    users,      \* committed rows of users
    locked,     \* the row each request's transaction has locked, or None
    draft,      \* the row each request's transaction has written, or None
    code,       \* Redis email_verification_code:{email}
    verified,   \* Redis email_verified:{email}
    pc, req, mem, answer

vars == <<users, locked, draft, code, verified, pc, req, mem, answer>>
tables == <<users, locked, draft>>
redis == <<code, verified>>

\* A row's provider and provider_id: a social identity, or the address of a
\* local account.
Ids == OldIds \cup Requests
Row == [id : Ids, identity : Identities \cup Emails, email : Emails \cup {None}, nick : Nicks]

Kinds == {"send", "confirm", "register", "callback", "profile", "withdraw"}
Steps == {"idle", "storeCode", "mail", "takeCode", "mark", "findEmail", "readMarker", "linkEmail",
          "tryNick", "insert", "commitInsert", "touch", "update", "setNick", "commitNick", "reload",
          "unmark", "issue", "delete", "commitDelete", "done"}
Answers == {"none", "ok", "unauthorized", "conflict", "invalid", "error"}

Request == [email : Emails \cup {None}, code : Codes \cup {None}, nick : Nicks \cup {None},
            identity : Identities \cup {None}]
NoRequest == [email |-> None, code |-> None, nick |-> None, identity |-> None]

\* user: the account the handler works for.  nick: the name it chose for a
\* new account, or read with an existing one.
\* try: how many names it has tried.
Memory == [user : Ids \cup {None}, nick : Nicks \cup {None}, try : 1 .. MaxTry]
NoMemory == [user |-> None, nick |-> None, try |-> 1]

ASSUME AccountsAssumption ==
    /\ MaxTry \in Nat \ {0}
    /\ Typed \subseteq Nicks
    /\ DOMAIN Candidate \subseteq Nicks /\ Candidate \in [DOMAIN Candidate -> [1 .. MaxTry -> Nicks]]
    /\ OldUsers \subseteq SUBSET [id : OldIds, identity : Identities \cup Emails,
                                  email : Emails \cup {None}, nick : Nicks]
    /\ Proved \subseteq Emails
    /\ OldIds \cap Requests = {}
    /\ Kind \in [Requests -> Kinds]
    /\ MayFail \subseteq Requests
    /\ Mixes \subseteq SUBSET Requests
    /\ None \notin Emails \cup Nicks \cup Codes \cup Identities \cup Ids
    /\ None \notin Row

\* Addresses are the provider_id of local accounts only.
ASSUME IdentitiesAssumption == Identities \cap Emails = {}

----------------------------------------------------------------------------
(* The users table *)

\* uq_users_provider_provider_id, users.email, users.nickname
SameKey(a, b) ==
    /\ a.id # b.id
    /\ \/ a.identity = b.identity
       \/ a.email # None /\ a.email = b.email
       \/ a.nick = b.nick

\* The table behaviours start from satisfies the constraints, ids included.
ASSUME OldUsersAssumption ==
    \A table \in OldUsers : \A a, b \in table : ~SameKey(a, b) /\ (a.id = b.id => a = b)

UserById(i) == {u \in users : u.id = i}

\* Mutant: rows are not locked.
NoLockers(r, i) == {}

\* Open transactions that lock a row.
Lockers(r, i) ==
    {t \in Requests \ {r} : locked[t] = i /\ i # None}

\* Mutant: an insert asks only the committed rows.
NobodyUndecided(r, row) == {}

\* Open transactions whose outcome decides whether a row's keys are taken.
Undecided(r, row) ==
    {t \in Requests \ {r} : \/ draft[t] # None /\ SameKey(draft[t], row)
                            \/ \E u \in UserById(locked[t]) : SameKey(u, row)}

Clashes(row) == \E u \in users : SameKey(u, row)

----------------------------------------------------------------------------
GoTo(r, step) == pc' = [pc EXCEPT ![r] = step] /\ UNCHANGED answer
Respond(r, a) == pc' = [pc EXCEPT ![r] = "done"] /\ answer' = [answer EXCEPT ![r] = a]

EndTx(r) == locked' = [locked EXCEPT ![r] = None] /\ draft' = [draft EXCEPT ![r] = None]

\* An uncaught exception: the transaction is rolled back.
Raise(r) == EndTx(r) /\ Respond(r, "error") /\ UNCHANGED <<users, redis, req, mem>>

Receive(r, kind, x) == pc[r] = "idle" /\ Kind[r] = kind /\ req' = [req EXCEPT ![r] = x]

Init ==
    /\ users \in OldUsers
    /\ locked = [r \in Requests |-> None]
    /\ draft = [r \in Requests |-> None]
    /\ code = [e \in Emails |-> None]
    /\ verified = Proved
    /\ \E mix \in Mixes : pc = [r \in Requests |-> IF r \in mix THEN "idle" ELSE "done"]
    /\ req = [r \in Requests |-> NoRequest]
    /\ mem = [r \in Requests |-> NoMemory]
    /\ answer = [r \in Requests |-> "none"]

----------------------------------------------------------------------------
(* POST /auth/email/verification-code and .../confirm *)

Registered(e) == \E u \in users : u.email = e

SendCode(r) ==
    \E e \in Emails, c \in Codes :
        /\ Receive(r, "send", [NoRequest EXCEPT !.email = e, !.code = c])
        /\ \/ ~Registered(e) /\ GoTo(r, "storeCode")
           \/ Registered(e) /\ Respond(r, "conflict")
        /\ UNCHANGED <<tables, redis, mem>>

StoreCode(r) ==
    /\ pc[r] = "storeCode"
    /\ code' = [code EXCEPT ![req[r].email] = req[r].code]
    /\ GoTo(r, "mail")
    /\ UNCHANGED <<tables, verified, req, mem>>

MailCode(r) ==
    /\ pc[r] = "mail"
    /\ \E a \in {"ok", "error"} : Respond(r, a)
    /\ UNCHANGED <<tables, redis, req, mem>>

\* Mutant: any stored code will do.
SomeCode(e, c) == code[e] # None

CodeMatches(e, c) == code[e] = c

ConfirmCode(r) ==
    \E e \in Emails, c \in Codes :
        /\ Receive(r, "confirm", [NoRequest EXCEPT !.email = e, !.code = c])
        /\ \/ CodeMatches(e, c) /\ GoTo(r, "takeCode")
           \/ ~CodeMatches(e, c) /\ Respond(r, "invalid")
        /\ UNCHANGED <<tables, redis, mem>>

TakeCode(r) ==
    /\ pc[r] = "takeCode"
    /\ code' = [code EXCEPT ![req[r].email] = None]
    /\ GoTo(r, "mark")
    /\ UNCHANGED <<tables, verified, req, mem>>

MarkVerified(r) ==
    /\ pc[r] = "mark"
    /\ verified' = verified \cup {req[r].email}
    /\ Respond(r, "ok")
    /\ UNCHANGED <<tables, code, req, mem>>

----------------------------------------------------------------------------
(* POST /auth/register *)

NickTaken(n) == \E u \in users : u.nick = n

Register(r) ==
    \E e \in Emails, n \in Typed :
        /\ Receive(r, "register", [NoRequest EXCEPT !.email = e, !.nick = n])
        /\ mem' = [mem EXCEPT ![r].nick = n]
        /\ \/ ~NickTaken(n) /\ GoTo(r, "findEmail")
           \/ NickTaken(n) /\ Respond(r, "conflict")
        /\ UNCHANGED <<tables, redis>>

FindEmail(r) ==
    /\ pc[r] = "findEmail"
    /\ \/ ~Registered(req[r].email) /\ GoTo(r, "readMarker")
       \/ Registered(req[r].email) /\ Respond(r, "conflict")
    /\ UNCHANGED <<tables, redis, req, mem>>

\* The password may be too weak.
ReadMarker(r) ==
    /\ pc[r] = "readMarker"
    /\ \/ req[r].email \in verified /\ GoTo(r, "insert")
       \/ Respond(r, "invalid")
    /\ UNCHANGED <<tables, redis, req, mem>>

\* Mutant: the marker is left to expire.
LeaveMarker(r) ==
    /\ pc[r] = "unmark"
    /\ GoTo(r, "issue")
    /\ UNCHANGED <<tables, redis, req, mem>>

UnmarkVerified(r) ==
    /\ pc[r] = "unmark"
    /\ verified' = verified \ {req[r].email}
    /\ GoTo(r, "issue")
    /\ UNCHANGED <<tables, code, req, mem>>

----------------------------------------------------------------------------
(* The INSERT of a new account (register and callback).  It is flushed      *)
(* before the handler's try: a unique violation is not caught there, and    *)
(* the COMMIT that is inside it raises none.                                *)

\* Mutant: a local account is stored without its provider_id.
NewRowOfProvider(r) ==
    [id |-> r, email |-> req[r].email, nick |-> mem[r].nick, identity |-> req[r].identity]

NewRow(r) ==
    [id |-> r, email |-> req[r].email, nick |-> mem[r].nick,
     identity |-> IF Kind[r] = "register" THEN req[r].email ELSE req[r].identity]

InsertUser(r) ==
    /\ pc[r] = "insert" /\ Undecided(r, NewRow(r)) = {}
    /\ \/ /\ ~Clashes(NewRow(r))
          /\ draft' = [draft EXCEPT ![r] = NewRow(r)]
          /\ GoTo(r, "commitInsert")
          /\ UNCHANGED <<users, locked, redis, req, mem>>
       \/ Clashes(NewRow(r)) /\ Raise(r)

CommitUser(r) ==
    /\ pc[r] = "commitInsert"
    /\ users' = users \cup {draft[r]}
    /\ EndTx(r)
    /\ mem' = [mem EXCEPT ![r].user = r]
    /\ GoTo(r, "reload")
    /\ UNCHANGED <<redis, req>>

\* db.refresh fails when the row is gone.
ReloadUser(r) ==
    /\ pc[r] = "reload"
    /\ \/ /\ UserById(mem[r].user) # {}
          /\ \/ Kind[r] = "register" /\ GoTo(r, "unmark")
             \/ Kind[r] = "callback" /\ GoTo(r, "issue")
             \/ Kind[r] = "profile" /\ Respond(r, "ok")
       \/ UserById(mem[r].user) = {} /\ Respond(r, "error")
    /\ UNCHANGED <<tables, redis, req, mem>>

\* issue_tokens: the refresh session is in module Sessions.
IssueTokens(r) ==
    /\ pc[r] = "issue"
    /\ Respond(r, "ok")
    /\ UNCHANGED <<tables, redis, req, mem>>

----------------------------------------------------------------------------
(* POST /auth/{provider}/callback *)

\* What the provider says of the person: an identity, perhaps an address, a
\* name.  It may also refuse the code.
Callback(r) ==
    \E who \in Identities, e \in Emails \cup {None}, n \in DOMAIN Candidate :
        /\ Receive(r, "callback", [NoRequest EXCEPT !.identity = who, !.email = e, !.nick = n])
        /\ \/ \E u \in users :
                /\ u.identity = who
                /\ mem' = [mem EXCEPT ![r].user = u.id, ![r].nick = u.nick]
                /\ GoTo(r, "touch")
           \/ /\ \A u \in users : u.identity # who
              /\ GoTo(r, IF e = None THEN "tryNick" ELSE "linkEmail")
              /\ UNCHANGED mem
           \/ Respond(r, "invalid") /\ UNCHANGED mem
        /\ UNCHANGED <<tables, redis>>

LinkEmail(r) ==
    /\ pc[r] = "linkEmail"
    /\ \/ \E u \in users :
            /\ u.email = req[r].email
            /\ mem' = [mem EXCEPT ![r].user = u.id, ![r].nick = u.nick]
            /\ GoTo(r, "touch")
       \/ ~Registered(req[r].email) /\ GoTo(r, "tryNick") /\ UNCHANGED mem
    /\ UNCHANGED <<tables, redis, req>>

\* make_available_nickname, one query at a time.
TryNick(r) ==
    /\ pc[r] = "tryNick"
    /\ LET n == Candidate[req[r].nick][mem[r].try]
       IN \/ ~NickTaken(n) /\ mem' = [mem EXCEPT ![r].nick = n] /\ GoTo(r, "insert")
          \/ /\ NickTaken(n) /\ mem[r].try < MaxTry
             /\ mem' = [mem EXCEPT ![r].try = @ + 1]
             /\ UNCHANGED <<pc, answer>>
    /\ UNCHANGED <<tables, redis, req>>

\* Mutant: the login stores the whole account as it was read.
TouchWithNick(r) ==
    /\ pc[r] = "touch" /\ Lockers(r, mem[r].user) = {}
    /\ \E u \in UserById(mem[r].user) :
         users' = (users \ {u}) \cup {[u EXCEPT !.nick = mem[r].nick]}
    /\ GoTo(r, "reload")
    /\ UNCHANGED <<locked, draft, redis, req, mem>>

\* The UPDATE of last_login_at alone, and its COMMIT: it waits for the row,
\* and fails when the row is gone.
TouchUser(r) ==
    /\ pc[r] = "touch" /\ Lockers(r, mem[r].user) = {}
    /\ \/ UserById(mem[r].user) # {} /\ GoTo(r, "reload")
       \/ UserById(mem[r].user) = {} /\ Respond(r, "error")
    /\ UNCHANGED <<tables, redis, req, mem>>

----------------------------------------------------------------------------
(* PATCH /users/me *)

\* Accounts whose access token a client holds.
MayBeSignedIn(i) ==
    \/ i \in OldIds
    \/ \E t \in Requests : /\ Kind[t] \in {"register", "callback"}
                           /\ answer[t] = "ok" /\ mem[t].user = i

\* The account is the one the access token names; its row is read first.
\* Nothing is written when the nickname is absent or the one just read.
UpdateProfile(r) ==
    \E i \in Ids, n \in Typed :
        /\ MayBeSignedIn(i)
        /\ Receive(r, "profile", [NoRequest EXCEPT !.nick = n])
        /\ mem' = [mem EXCEPT ![r].user = i]
        /\ \/ \E u \in UserById(i) : GoTo(r, IF u.nick = n THEN "reload" ELSE "update")
           \/ UserById(i) = {} /\ Respond(r, "unauthorized")
        /\ UNCHANGED <<tables, redis>>

\* The UPDATE locks the row, then enters the new nickname in the index.
LockUser(r) ==
    /\ pc[r] = "update" /\ Lockers(r, mem[r].user) = {}
    /\ \/ /\ UserById(mem[r].user) # {}
          /\ locked' = [locked EXCEPT ![r] = mem[r].user]
          /\ GoTo(r, "setNick")
          /\ UNCHANGED <<users, draft, redis, req, mem>>
       \/ UserById(mem[r].user) = {} /\ Raise(r)

SetNick(r) ==
    /\ pc[r] = "setNick"
    /\ \E u \in UserById(locked[r]) :
         LET row == [u EXCEPT !.nick = req[r].nick]
         IN /\ Undecided(r, row) = {}
            /\ \/ /\ ~Clashes(row)
                  /\ draft' = [draft EXCEPT ![r] = row]
                  /\ GoTo(r, "commitNick")
                  /\ UNCHANGED <<users, locked, redis, req, mem>>
               \/ Clashes(row) /\ Raise(r)

CommitNick(r) ==
    /\ pc[r] = "commitNick"
    /\ users' = (users \ UserById(locked[r])) \cup {draft[r]}
    /\ EndTx(r)
    /\ GoTo(r, "reload")
    /\ UNCHANGED <<redis, req, mem>>

----------------------------------------------------------------------------
(* DELETE /auth/withdraw *)

Withdraw(r) ==
    \E i \in Ids :
        /\ MayBeSignedIn(i)
        /\ Receive(r, "withdraw", NoRequest)
        /\ mem' = [mem EXCEPT ![r].user = i]
        /\ \/ UserById(i) # {} /\ GoTo(r, "delete")
           \/ UserById(i) = {} /\ Respond(r, "unauthorized")
        /\ UNCHANGED <<tables, redis>>

\* The DELETE of a row that is gone deletes nothing.
DeleteUser(r) ==
    /\ pc[r] = "delete" /\ Lockers(r, mem[r].user) = {}
    /\ locked' = [locked EXCEPT ![r] = IF UserById(mem[r].user) = {} THEN None ELSE mem[r].user]
    /\ GoTo(r, "commitDelete")
    /\ UNCHANGED <<users, draft, redis, req, mem>>

\* The sessions it ends afterwards are in module Sessions.
CommitDelete(r) ==
    /\ pc[r] = "commitDelete"
    /\ users' = users \ UserById(locked[r])
    /\ EndTx(r)
    /\ Respond(r, "ok")
    /\ UNCHANGED <<redis, req, mem>>

----------------------------------------------------------------------------
(* Time and failures *)

Expire ==
    /\ \/ /\ \E e \in Emails : code[e] # None /\ code' = [code EXCEPT ![e] = None]
          /\ UNCHANGED verified
       \/ /\ \E e \in verified : verified' = verified \ {e}
          /\ UNCHANGED code
    /\ UNCHANGED <<tables, pc, req, mem, answer>>

InFlight(r) == pc[r] \notin {"idle", "done"}

\* The connection or the process dies before the response.
Die(r) == r \in MayFail /\ InFlight(r) /\ Raise(r)

WaitsFor(r) ==
    CASE pc[r] \in {"touch", "update", "delete"} -> Lockers(r, mem[r].user)
      [] pc[r] = "insert"  -> Undecided(r, NewRow(r))
      [] pc[r] = "setNick" -> UNION {Undecided(r, [u EXCEPT !.nick = req[r].nick]) : u \in UserById(locked[r])}
      [] OTHER -> {}

\* Mutant: nobody detects the cycle.
WaitForever(r) == FALSE

\* PostgreSQL breaks a cycle of waits by failing one of the transactions.
BreakDeadlock(r) ==
    /\ \E cycle \in SUBSET {a \in Requests : WaitsFor(a) # {}} :
         /\ r \in cycle
         /\ \A a \in cycle : (\E b \in cycle : b \in WaitsFor(a)) /\ (\E b \in cycle : a \in WaitsFor(b))
    /\ Raise(r)

Arrive(r) ==
    \/ SendCode(r) \/ ConfirmCode(r) \/ Register(r) \/ Callback(r) \/ UpdateProfile(r) \/ Withdraw(r)

Serve(r) ==
    \/ StoreCode(r) \/ MailCode(r) \/ TakeCode(r) \/ MarkVerified(r)
    \/ FindEmail(r) \/ ReadMarker(r) \/ InsertUser(r) \/ CommitUser(r) \/ ReloadUser(r)
    \/ UnmarkVerified(r) \/ IssueTokens(r) \/ LinkEmail(r) \/ TryNick(r) \/ TouchUser(r)
    \/ LockUser(r) \/ SetNick(r) \/ CommitNick(r) \/ DeleteUser(r) \/ CommitDelete(r)
    \/ BreakDeadlock(r)

Terminating == (\A r \in Requests : pc[r] = "done") /\ UNCHANGED vars

Next == (\E r \in Requests : Arrive(r) \/ Serve(r) \/ Die(r)) \/ Expire \/ Terminating

\* Requests that have arrived are served; clients, clocks and failures are free.
Spec == Init /\ [][Next]_vars /\ \A r \in Requests : WF_vars(Serve(r))

----------------------------------------------------------------------------
(* Properties *)

TypeOK ==
    /\ users \subseteq Row
    /\ locked \in [Requests -> Ids \cup {None}]
    /\ draft \in [Requests -> Row \cup {None}]
    /\ code \in [Emails -> Codes \cup {None}]
    /\ verified \subseteq Emails
    /\ pc \in [Requests -> Steps]
    /\ req \in [Requests -> Request]
    /\ mem \in [Requests -> Memory]
    /\ answer \in [Requests -> Answers]

\* Whatever registers, logs in and renames at once, no two accounts share an
\* identity, an address or a nickname.
KeysUnique == \A a, b \in users : ~SameKey(a, b)

Confirmers(e) == {c \in Requests : Kind[c] = "confirm" /\ req[c].email = e}

\* A local account appears only after somebody entered a code that was sent to
\* its address, or after the address was confirmed earlier; and a confirmed
\* address opens one account: once that is answered the marker is gone, so that
\* after a withdrawal the address must be confirmed again.
AddressProved ==
    [][/\ \A a \in users' \ users : a.identity \in Emails /\ (\A u \in users : u.id # a.id) =>
            \/ a.email \in Proved
            \/ \E s, c \in Requests :
                 /\ Kind[s] = "send" /\ req[s].email = a.email
                 /\ Kind[c] = "confirm" /\ req[c].email = a.email
                 /\ req[c].code = req[s].code
       /\ \A r \in Requests :
            /\ Kind[r] = "register" /\ answer'[r] = "ok" /\ req[r].email \notin Proved
            /\ \A c, d \in Confirmers(req[r].email) : c = d
            => req[r].email \notin verified']_vars

\* What a request was told holds, whoever still works with the account: a saved
\* nickname stays until the account is renamed again or withdrawn, and neither a
\* withdrawal nor a refused sign-up leaves a row behind.
AnswersHold ==
    \A r \in Requests :
        /\ /\ Kind[r] = "profile" /\ answer[r] = "ok"
           /\ \A t \in Requests \ {r} : Kind[t] = "profile" => mem[t].user # mem[r].user
           => \A u \in UserById(mem[r].user) : u.nick = req[r].nick
        /\ Kind[r] = "withdraw" /\ answer[r] = "ok" => UserById(mem[r].user) = {}
        /\ answer[r] \in {"conflict", "invalid"} => UserById(r) = {}

\* Every request that arrives is answered, also when transactions wait for each
\* other's rows and keys in a cycle.
EveryRequestAnswered == \A r \in Requests : InFlight(r) ~> (pc[r] = "done")
=============================================================================
