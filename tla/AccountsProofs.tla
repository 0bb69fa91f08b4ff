--------------------------- MODULE AccountsProofs ---------------------------
(***************************************************************************)
(* Proofs about Accounts, for any number of requests and earlier accounts: *)
(* its types, and that identities, addresses and nicknames stay unique.    *)
(*                                                                         *)
(* Uniqueness of the committed table is not inductive: a commit publishes  *)
(* a row that was compared with the table when it was written.  What makes *)
(* it safe is that the row has been compared with every row that could     *)
(* still be committed before it, and that a locked row stays where it is.  *)
(***************************************************************************)
EXTENDS Accounts, TLAPS

\* Where a request has not inserted anything yet.
Early == {"idle", "findEmail", "readMarker", "linkEmail", "tryNick", "insert", "commitInsert"}
\* Where a transaction holds a row or has written one.
Holding == {"setNick", "commitNick", "commitDelete", "commitInsert"}

\* What a handler knows of its request at each of its steps.
HandlerInv ==
    \A r \in Requests :
        /\ pc[r] \in {"storeCode", "mail", "takeCode", "mark"} => req[r].email \in Emails
        /\ pc[r] \in {"findEmail", "readMarker"} =>
              Kind[r] = "register" /\ req[r].email \in Emails /\ mem[r].nick \in Nicks
        /\ pc[r] \in {"linkEmail", "tryNick"} =>
              Kind[r] = "callback" /\ req[r].identity \in Identities /\ req[r].nick \in DOMAIN Candidate
        /\ pc[r] = "insert" =>
              /\ mem[r].nick \in Nicks
              /\ \/ Kind[r] = "register" /\ req[r].email \in Emails
                 \/ Kind[r] = "callback" /\ req[r].identity \in Identities
        /\ pc[r] \in {"update", "setNick"} => req[r].nick \in Nicks

TypeInv == TypeOK /\ HandlerInv

\* A locked row is there, has one holder, and is the row its draft replaces;
\* a row that is to be inserted is not there yet.
HeldInv ==
    \A r \in Requests :
        /\ locked[r] # None => pc[r] \in {"setNick", "commitNick", "commitDelete"} /\ UserById(locked[r]) # {}
        /\ draft[r] # None <=> pc[r] \in {"commitInsert", "commitNick"}
        /\ pc[r] \in {"setNick", "commitNick"} => locked[r] # None
        /\ pc[r] = "commitInsert" => draft[r].id = r
        /\ pc[r] = "commitNick" => draft[r].id = locked[r]
        /\ pc[r] \in Early => UserById(r) = {}

OneHolder == \A r, t \in Requests : r # t /\ locked[r] = locked[t] => locked[r] = None
IdsUnique == \A a, b \in users : a.id = b.id => a = b

\* Whatever is committed next, it fits what is committed and what is written.
DraftsFit ==
    \A r \in Requests : draft[r] # None =>
        /\ \A u \in users : ~SameKey(draft[r], u)
        /\ \A t \in Requests : r # t /\ draft[t] # None => ~SameKey(draft[r], draft[t])

TableInv == HeldInv /\ OneHolder /\ IdsUnique /\ KeysUnique /\ DraftsFit

IInv == TypeInv /\ TableInv

----------------------------------------------------------------------------
(* Types *)

LEMMA SameKeySymmetric == ASSUME NEW a, NEW b, SameKey(a, b) PROVE SameKey(b, a)
  BY DEF SameKey

\* NULL is no row, and no row has it as its id.
LEMMA NoneIsNoRow == \A row \in Row : row # None
  BY AccountsAssumption DEF Row, Ids

LEMMA NobodyIsNone ==
    ASSUME TypeOK, NEW i, UserById(i) # {}
    PROVE  i # None
  BY AccountsAssumption DEF TypeOK, UserById, Row

LEMMA StepTyped ==
    ASSUME TypeOK, NEW r \in Requests, NEW s \in Steps, GoTo(r, s)
    PROVE  /\ pc' \in [Requests -> Steps] /\ answer' \in [Requests -> Answers]
           /\ pc'[r] = s /\ \A t \in Requests : t # r => pc'[t] = pc[t]
  BY DEF GoTo, TypeOK

LEMMA AnswerTyped ==
    ASSUME TypeOK, NEW r \in Requests, NEW a \in Answers, Respond(r, a)
    PROVE  /\ pc' \in [Requests -> Steps] /\ answer' \in [Requests -> Answers]
           /\ pc'[r] = "done" /\ \A t \in Requests : t # r => pc'[t] = pc[t]
  BY DEF Respond, TypeOK, Steps

LEMMA RaiseTyped ==
    ASSUME TypeInv, NEW r \in Requests, Raise(r)
    PROVE  TypeInv'
  <1>1. pc' \in [Requests -> Steps] /\ answer' \in [Requests -> Answers]
    BY AnswerTyped DEF Raise, Answers, TypeInv
  <1>2. locked' \in [Requests -> Ids \cup {None}] /\ draft' \in [Requests -> Row \cup {None}]
    BY DEF Raise, EndTx, TypeInv, TypeOK
  <1>3. TypeOK'
    BY <1>1, <1>2 DEF Raise, redis, TypeInv, TypeOK
  <1>4. HandlerInv'
    BY DEF Raise, Respond, TypeInv, TypeOK, HandlerInv
  <1> QED BY <1>3, <1>4 DEF TypeInv

LEMMA UserChosen ==
    ASSUME TypeOK, NEW r \in Requests, NEW i \in Ids, mem' = [mem EXCEPT ![r].user = i]
    PROVE  /\ mem' \in [Requests -> Memory] /\ mem'[r].user = i /\ mem'[r].nick = mem[r].nick
           /\ \A t \in Requests : t # r => mem'[t] = mem[t]
  <1>1. mem \in [Requests -> Memory] /\ mem[r] \in Memory
    BY DEF TypeOK
  <1>2. mem' = [mem EXCEPT ![r] = [mem[r] EXCEPT !.user = i]]
    BY <1>1
  <1>3. /\ [mem[r] EXCEPT !.user = i] \in Memory
        /\ [mem[r] EXCEPT !.user = i].user = i /\ [mem[r] EXCEPT !.user = i].nick = mem[r].nick
    BY <1>1 DEF Memory
  <1> QED BY <1>1, <1>2, <1>3

LEMMA NickChosen ==
    ASSUME TypeOK, NEW r \in Requests, NEW n \in Nicks, mem' = [mem EXCEPT ![r].nick = n]
    PROVE  /\ mem' \in [Requests -> Memory] /\ mem'[r].nick = n /\ mem'[r].user = mem[r].user
           /\ \A t \in Requests : t # r => mem'[t] = mem[t]
  <1>1. mem \in [Requests -> Memory] /\ mem[r] \in Memory
    BY DEF TypeOK
  <1>2. mem' = [mem EXCEPT ![r] = [mem[r] EXCEPT !.nick = n]]
    BY <1>1
  <1>3. /\ [mem[r] EXCEPT !.nick = n] \in Memory
        /\ [mem[r] EXCEPT !.nick = n].nick = n /\ [mem[r] EXCEPT !.nick = n].user = mem[r].user
    BY <1>1 DEF Memory
  <1> QED BY <1>1, <1>2, <1>3

LEMMA AccountChosen ==
    ASSUME TypeOK, NEW r \in Requests, NEW i \in Ids, NEW n \in Nicks,
           mem' = [mem EXCEPT ![r].user = i, ![r].nick = n]
    PROVE  /\ mem' \in [Requests -> Memory] /\ mem'[r].user = i
           /\ \A t \in Requests : t # r => mem'[t] = mem[t]
  <1>1. mem \in [Requests -> Memory] /\ mem[r] \in Memory
    BY DEF TypeOK
  <1>2. mem' = [mem EXCEPT ![r] = [mem[r] EXCEPT !.user = i, !.nick = n]]
    BY <1>1
  <1>3. /\ [mem[r] EXCEPT !.user = i, !.nick = n] \in Memory
        /\ [mem[r] EXCEPT !.user = i, !.nick = n].user = i
    BY <1>1 DEF Memory
  <1> QED BY <1>1, <1>2, <1>3

\* The handler of one request moves on; what it knows has to be shown for it
\* alone.
LEMMA OthersKnow ==
    ASSUME TypeOK, HandlerInv, NEW r \in Requests,
           \A t \in Requests : t # r => pc'[t] = pc[t] /\ req'[t] = req[t] /\ mem'[t] = mem[t],
           /\ pc'[r] \in {"storeCode", "mail", "takeCode", "mark"} => req'[r].email \in Emails
           /\ pc'[r] \in {"findEmail", "readMarker"} =>
                 Kind[r] = "register" /\ req'[r].email \in Emails /\ mem'[r].nick \in Nicks
           /\ pc'[r] \in {"linkEmail", "tryNick"} =>
                 /\ Kind[r] = "callback" /\ req'[r].identity \in Identities
                 /\ req'[r].nick \in DOMAIN Candidate
           /\ pc'[r] = "insert" =>
                 /\ mem'[r].nick \in Nicks
                 /\ \/ Kind[r] = "register" /\ req'[r].email \in Emails
                    \/ Kind[r] = "callback" /\ req'[r].identity \in Identities
           /\ pc'[r] \in {"update", "setNick"} => req'[r].nick \in Nicks
    PROVE  HandlerInv'
  BY DEF HandlerInv

\* Requests that arrive.
LEMMA ArriveTyped ==
    ASSUME TypeInv, NEW r \in Requests, Arrive(r)
    PROVE  TypeInv'
  <1> USE AccountsAssumption
  <1>0. TypeOK /\ HandlerInv
    BY DEF TypeInv
  <1>1. CASE SendCode(r)
    <2>1. PICK e \in Emails, c \in Codes : SendCode(r)!(e, c)
      BY <1>1 DEF SendCode
    <2>2. [NoRequest EXCEPT !.email = e, !.code = c] \in Request
          /\ [NoRequest EXCEPT !.email = e, !.code = c].email = e
          /\ [NoRequest EXCEPT !.email = e, !.code = c].code = c
      BY DEF NoRequest, Request
    <2>3. req' \in [Requests -> Request] /\ req'[r].email = e /\ \A t \in Requests : t # r => req'[t] = req[t]
      BY <1>0, <2>1, <2>2 DEF Receive, TypeOK
    <2>4. /\ pc' \in [Requests -> Steps] /\ answer' \in [Requests -> Answers]
          /\ pc'[r] \in {"storeCode", "done"} /\ \A t \in Requests : t # r => pc'[t] = pc[t]
      <3>1. GoTo(r, "storeCode") \/ Respond(r, "conflict")
        BY <2>1
      <3> QED BY <1>0, <3>1, StepTyped, AnswerTyped DEF Steps, Answers
    <2>5. TypeOK'
      BY <1>0, <2>1, <2>3, <2>4 DEF tables, redis, TypeOK
    <2>6. HandlerInv'
      BY <1>0, <2>1, <2>3, <2>4, OthersKnow
    <2> QED BY <2>5, <2>6 DEF TypeInv
  <1>2. CASE ConfirmCode(r)
    <2>1. PICK e \in Emails, c \in Codes : ConfirmCode(r)!(e, c)
      BY <1>2 DEF ConfirmCode
    <2>2. [NoRequest EXCEPT !.email = e, !.code = c] \in Request
          /\ [NoRequest EXCEPT !.email = e, !.code = c].email = e
          /\ [NoRequest EXCEPT !.email = e, !.code = c].code = c
      BY DEF NoRequest, Request
    <2>3. req' \in [Requests -> Request] /\ req'[r].email = e /\ \A t \in Requests : t # r => req'[t] = req[t]
      BY <1>0, <2>1, <2>2 DEF Receive, TypeOK
    <2>4. /\ pc' \in [Requests -> Steps] /\ answer' \in [Requests -> Answers]
          /\ pc'[r] \in {"takeCode", "done"} /\ \A t \in Requests : t # r => pc'[t] = pc[t]
      <3>1. GoTo(r, "takeCode") \/ Respond(r, "invalid")
        BY <2>1
      <3> QED BY <1>0, <3>1, StepTyped, AnswerTyped DEF Steps, Answers
    <2>5. TypeOK'
      BY <1>0, <2>1, <2>3, <2>4 DEF tables, redis, TypeOK
    <2>6. HandlerInv'
      BY <1>0, <2>1, <2>3, <2>4, OthersKnow
    <2> QED BY <2>5, <2>6 DEF TypeInv
  <1>3. CASE Register(r)
    <2>1. PICK e \in Emails, n \in Typed : Register(r)!(e, n)
      BY <1>3 DEF Register
    <2>2. [NoRequest EXCEPT !.email = e, !.nick = n] \in Request
          /\ [NoRequest EXCEPT !.email = e, !.nick = n].email = e
          /\ [NoRequest EXCEPT !.email = e, !.nick = n].nick = n
      BY DEF NoRequest, Request
    <2>3. /\ req' \in [Requests -> Request] /\ req'[r].email = e /\ Kind[r] = "register"
          /\ \A t \in Requests : t # r => req'[t] = req[t]
      BY <1>0, <2>1, <2>2 DEF Receive, TypeOK
    <2>4. /\ pc' \in [Requests -> Steps] /\ answer' \in [Requests -> Answers]
          /\ pc'[r] \in {"findEmail", "done"} /\ \A t \in Requests : t # r => pc'[t] = pc[t]
      <3>1. GoTo(r, "findEmail") \/ Respond(r, "conflict")
        BY <2>1
      <3> QED BY <1>0, <3>1, StepTyped, AnswerTyped DEF Steps, Answers
    <2>5. mem' \in [Requests -> Memory] /\ mem'[r].nick = n /\ \A t \in Requests : t # r => mem'[t] = mem[t]
      BY <1>0, <2>1, NickChosen
    <2>6. TypeOK'
      BY <1>0, <2>1, <2>3, <2>4, <2>5 DEF tables, redis, TypeOK
    <2>7. HandlerInv'
      BY <1>0, <2>3, <2>4, <2>5, OthersKnow
    <2> QED BY <2>6, <2>7 DEF TypeInv
  <1>4. CASE Callback(r)
    <2>1. PICK who \in Identities, e \in Emails \cup {None}, n \in DOMAIN Candidate : Callback(r)!(who, e, n)
      BY <1>4 DEF Callback
    <2>2. [NoRequest EXCEPT !.identity = who, !.email = e, !.nick = n] \in Request
          /\ [NoRequest EXCEPT !.identity = who, !.email = e, !.nick = n].identity = who
          /\ [NoRequest EXCEPT !.identity = who, !.email = e, !.nick = n].email = e
          /\ [NoRequest EXCEPT !.identity = who, !.email = e, !.nick = n].nick = n
      BY DEF NoRequest, Request
    <2>3. /\ req' \in [Requests -> Request] /\ req'[r].identity = who /\ req'[r].nick = n
          /\ Kind[r] = "callback" /\ \A t \in Requests : t # r => req'[t] = req[t]
      BY <1>0, <2>1, <2>2 DEF Receive, TypeOK
    <2>4. /\ pc' \in [Requests -> Steps] /\ answer' \in [Requests -> Answers]
          /\ pc'[r] \in {"touch", "tryNick", "linkEmail", "done"}
          /\ \A t \in Requests : t # r => pc'[t] = pc[t]
      <3>1. GoTo(r, "touch") \/ GoTo(r, "tryNick") \/ GoTo(r, "linkEmail") \/ Respond(r, "invalid")
        BY <2>1
      <3> QED BY <1>0, <3>1, StepTyped, AnswerTyped DEF Steps, Answers
    <2>5. mem' \in [Requests -> Memory] /\ \A t \in Requests : t # r => mem'[t] = mem[t]
      <3>1. CASE UNCHANGED mem
        BY <1>0, <3>1 DEF TypeOK
      <3>2. ASSUME NEW u \in users, mem' = [mem EXCEPT ![r].user = u.id, ![r].nick = u.nick]
            PROVE  mem' \in [Requests -> Memory] /\ \A t \in Requests : t # r => mem'[t] = mem[t]
        <4>1. u.id \in Ids /\ u.nick \in Nicks
          BY <1>0 DEF TypeOK, Row
        <4> QED BY <1>0, <3>2, <4>1, AccountChosen
      <3> QED BY <2>1, <3>1, <3>2
    <2>6. TypeOK'
      BY <1>0, <2>1, <2>3, <2>4, <2>5 DEF tables, redis, TypeOK
    <2>7. HandlerInv'
      BY <1>0, <2>3, <2>4, <2>5, OthersKnow
    <2> QED BY <2>6, <2>7 DEF TypeInv
  <1>5. CASE UpdateProfile(r)
    <2>1. PICK i \in Ids, n \in Typed : UpdateProfile(r)!(i, n)
      BY <1>5 DEF UpdateProfile
    <2>2. [NoRequest EXCEPT !.nick = n] \in Request /\ [NoRequest EXCEPT !.nick = n].nick = n
      BY DEF NoRequest, Request
    <2>3. /\ req' \in [Requests -> Request] /\ req'[r].nick = n
          /\ \A t \in Requests : t # r => req'[t] = req[t]
      BY <1>0, <2>1, <2>2 DEF Receive, TypeOK
    <2>4. /\ pc' \in [Requests -> Steps] /\ answer' \in [Requests -> Answers]
          /\ pc'[r] \in {"reload", "update", "done"} /\ \A t \in Requests : t # r => pc'[t] = pc[t]
      <3>1. GoTo(r, "reload") \/ GoTo(r, "update") \/ Respond(r, "unauthorized")
        BY <2>1
      <3> QED BY <1>0, <3>1, StepTyped, AnswerTyped DEF Steps, Answers
    <2>5. mem' \in [Requests -> Memory] /\ \A t \in Requests : t # r => mem'[t] = mem[t]
      BY <1>0, <2>1, UserChosen
    <2>6. TypeOK'
      BY <1>0, <2>1, <2>3, <2>4, <2>5 DEF tables, redis, TypeOK
    <2>7. HandlerInv'
      BY <1>0, <2>3, <2>4, <2>5, OthersKnow
    <2> QED BY <2>6, <2>7 DEF TypeInv
  <1>6. CASE Withdraw(r)
    <2>1. PICK i \in Ids : Withdraw(r)!(i)
      BY <1>6 DEF Withdraw
    <2>2. NoRequest \in Request
      BY DEF NoRequest, Request
    <2>3. req' \in [Requests -> Request] /\ \A t \in Requests : t # r => req'[t] = req[t]
      BY <1>0, <2>1, <2>2 DEF Receive, TypeOK
    <2>4. /\ pc' \in [Requests -> Steps] /\ answer' \in [Requests -> Answers]
          /\ pc'[r] \in {"delete", "done"} /\ \A t \in Requests : t # r => pc'[t] = pc[t]
      <3>1. GoTo(r, "delete") \/ Respond(r, "unauthorized")
        BY <2>1
      <3> QED BY <1>0, <3>1, StepTyped, AnswerTyped DEF Steps, Answers
    <2>5. mem' \in [Requests -> Memory] /\ \A t \in Requests : t # r => mem'[t] = mem[t]
      BY <1>0, <2>1, UserChosen
    <2>6. TypeOK'
      BY <1>0, <2>1, <2>3, <2>4, <2>5 DEF tables, redis, TypeOK
    <2>7. HandlerInv'
      BY <1>0, <2>3, <2>4, <2>5, OthersKnow
    <2> QED BY <2>6, <2>7 DEF TypeInv
  <1> QED BY <1>1, <1>2, <1>3, <1>4, <1>5, <1>6 DEF Arrive

\* Each step of a handler.
LEMMA ServeTyped ==
    ASSUME TypeInv, HeldInv, NEW r \in Requests, Serve(r)
    PROVE  TypeInv'
  <1> USE AccountsAssumption
  <1>0. TypeOK /\ HandlerInv
    BY DEF TypeInv
  <1>1. CASE StoreCode(r)
    <2>1. GoTo(r, "mail")
      BY <1>1 DEF StoreCode
    <2>2. /\ pc' \in [Requests -> Steps] /\ answer' \in [Requests -> Answers]
          /\ \A t \in Requests : t # r => pc'[t] = pc[t]
      BY <1>0, <2>1, StepTyped, AnswerTyped DEF Steps, Answers
    <2>3. TypeOK'
      BY <1>0, <1>1, <2>2 DEF StoreCode, HandlerInv, tables, TypeOK, Request
    <2>4. HandlerInv'
      BY <1>0, <1>1, <2>2, OthersKnow DEF StoreCode, GoTo, Respond, HandlerInv, TypeOK
    <2> QED BY <2>3, <2>4 DEF TypeInv
  <1>2. CASE MailCode(r)
    <2>1. Respond(r, "ok") \/ Respond(r, "error")
      BY <1>2 DEF MailCode
    <2>2. /\ pc' \in [Requests -> Steps] /\ answer' \in [Requests -> Answers]
          /\ \A t \in Requests : t # r => pc'[t] = pc[t]
      BY <1>0, <2>1, StepTyped, AnswerTyped DEF Steps, Answers
    <2>3. TypeOK'
      BY <1>0, <1>2, <2>2 DEF MailCode, HandlerInv, tables, redis, TypeOK
    <2>4. HandlerInv'
      BY <1>0, <1>2, <2>2, OthersKnow DEF MailCode, GoTo, Respond, HandlerInv, TypeOK
    <2> QED BY <2>3, <2>4 DEF TypeInv
  <1>3. CASE TakeCode(r)
    <2>1. GoTo(r, "mark")
      BY <1>3 DEF TakeCode
    <2>2. /\ pc' \in [Requests -> Steps] /\ answer' \in [Requests -> Answers]
          /\ \A t \in Requests : t # r => pc'[t] = pc[t]
      BY <1>0, <2>1, StepTyped, AnswerTyped DEF Steps, Answers
    <2>3. TypeOK'
      BY <1>0, <1>3, <2>2 DEF TakeCode, HandlerInv, tables, TypeOK
    <2>4. HandlerInv'
      BY <1>0, <1>3, <2>2, OthersKnow DEF TakeCode, GoTo, Respond, HandlerInv, TypeOK
    <2> QED BY <2>3, <2>4 DEF TypeInv
  <1>4. CASE MarkVerified(r)
    <2>1. Respond(r, "ok")
      BY <1>4 DEF MarkVerified
    <2>2. /\ pc' \in [Requests -> Steps] /\ answer' \in [Requests -> Answers]
          /\ \A t \in Requests : t # r => pc'[t] = pc[t]
      BY <1>0, <2>1, StepTyped, AnswerTyped DEF Steps, Answers
    <2>3. TypeOK'
      BY <1>0, <1>4, <2>2 DEF MarkVerified, HandlerInv, tables, TypeOK
    <2>4. HandlerInv'
      BY <1>0, <1>4, <2>2, OthersKnow DEF MarkVerified, GoTo, Respond, HandlerInv, TypeOK
    <2> QED BY <2>3, <2>4 DEF TypeInv
  <1>5. CASE FindEmail(r)
    <2>1. GoTo(r, "readMarker") \/ Respond(r, "conflict")
      BY <1>5 DEF FindEmail
    <2>2. /\ pc' \in [Requests -> Steps] /\ answer' \in [Requests -> Answers]
          /\ \A t \in Requests : t # r => pc'[t] = pc[t]
      BY <1>0, <2>1, StepTyped, AnswerTyped DEF Steps, Answers
    <2>3. TypeOK'
      BY <1>0, <1>5, <2>2 DEF FindEmail, HandlerInv, tables, redis, TypeOK
    <2>4. HandlerInv'
      BY <1>0, <1>5, <2>2, OthersKnow DEF FindEmail, GoTo, Respond, HandlerInv, TypeOK
    <2> QED BY <2>3, <2>4 DEF TypeInv
  <1>6. CASE ReadMarker(r)
    <2>1. GoTo(r, "insert") \/ Respond(r, "invalid")
      BY <1>6 DEF ReadMarker
    <2>2. /\ pc' \in [Requests -> Steps] /\ answer' \in [Requests -> Answers]
          /\ \A t \in Requests : t # r => pc'[t] = pc[t]
      BY <1>0, <2>1, StepTyped, AnswerTyped DEF Steps, Answers
    <2>3. TypeOK'
      BY <1>0, <1>6, <2>2 DEF ReadMarker, HandlerInv, tables, redis, TypeOK
    <2>4. HandlerInv'
      BY <1>0, <1>6, <2>2, OthersKnow DEF ReadMarker, GoTo, Respond, HandlerInv, TypeOK
    <2> QED BY <2>3, <2>4 DEF TypeInv
  <1>7. CASE ReloadUser(r)
    <2>1. GoTo(r, "unmark") \/ GoTo(r, "issue") \/ Respond(r, "ok") \/ Respond(r, "error")
      BY <1>7 DEF ReloadUser
    <2>2. /\ pc' \in [Requests -> Steps] /\ answer' \in [Requests -> Answers]
          /\ \A t \in Requests : t # r => pc'[t] = pc[t]
      BY <1>0, <2>1, StepTyped, AnswerTyped DEF Steps, Answers
    <2>3. TypeOK'
      BY <1>0, <1>7, <2>2 DEF ReloadUser, HandlerInv, tables, redis, TypeOK
    <2>4. HandlerInv'
      BY <1>0, <1>7, <2>2, OthersKnow DEF ReloadUser, GoTo, Respond, HandlerInv, TypeOK
    <2> QED BY <2>3, <2>4 DEF TypeInv
  <1>8. CASE UnmarkVerified(r)
    <2>1. GoTo(r, "issue")
      BY <1>8 DEF UnmarkVerified
    <2>2. /\ pc' \in [Requests -> Steps] /\ answer' \in [Requests -> Answers]
          /\ \A t \in Requests : t # r => pc'[t] = pc[t]
      BY <1>0, <2>1, StepTyped, AnswerTyped DEF Steps, Answers
    <2>3. TypeOK'
      BY <1>0, <1>8, <2>2 DEF UnmarkVerified, HandlerInv, tables, TypeOK
    <2>4. HandlerInv'
      BY <1>0, <1>8, <2>2, OthersKnow DEF UnmarkVerified, GoTo, Respond, HandlerInv, TypeOK
    <2> QED BY <2>3, <2>4 DEF TypeInv
  <1>9. CASE IssueTokens(r)
    <2>1. Respond(r, "ok")
      BY <1>9 DEF IssueTokens
    <2>2. /\ pc' \in [Requests -> Steps] /\ answer' \in [Requests -> Answers]
          /\ \A t \in Requests : t # r => pc'[t] = pc[t]
      BY <1>0, <2>1, StepTyped, AnswerTyped DEF Steps, Answers
    <2>3. TypeOK'
      BY <1>0, <1>9, <2>2 DEF IssueTokens, HandlerInv, tables, redis, TypeOK
    <2>4. HandlerInv'
      BY <1>0, <1>9, <2>2, OthersKnow DEF IssueTokens, GoTo, Respond, HandlerInv, TypeOK
    <2> QED BY <2>3, <2>4 DEF TypeInv
  <1>10. CASE TouchUser(r)
    <2>1. GoTo(r, "reload") \/ Respond(r, "error")
      BY <1>10 DEF TouchUser
    <2>2. /\ pc' \in [Requests -> Steps] /\ answer' \in [Requests -> Answers]
          /\ \A t \in Requests : t # r => pc'[t] = pc[t]
      BY <1>0, <2>1, StepTyped, AnswerTyped DEF Steps, Answers
    <2>3. TypeOK'
      BY <1>0, <1>10, <2>2 DEF TouchUser, HandlerInv, tables, redis, TypeOK
    <2>4. HandlerInv'
      BY <1>0, <1>10, <2>2, OthersKnow DEF TouchUser, GoTo, Respond, HandlerInv, TypeOK
    <2> QED BY <2>3, <2>4 DEF TypeInv
  <1>11. CASE LinkEmail(r)
    <2>1. (\E u \in users : mem' = [mem EXCEPT ![r].user = u.id, ![r].nick = u.nick] /\ GoTo(r, "touch"))
          \/ (GoTo(r, "tryNick") /\ UNCHANGED mem)
      BY <1>11 DEF LinkEmail
    <2>2. /\ pc' \in [Requests -> Steps] /\ answer' \in [Requests -> Answers]
          /\ \A t \in Requests : t # r => pc'[t] = pc[t]
      BY <1>0, <2>1, StepTyped DEF Steps
    <2>3. /\ mem' \in [Requests -> Memory] /\ \A t \in Requests : t # r => mem'[t] = mem[t]
          /\ pc'[r] \in {"touch", "tryNick"}
      <3>1. CASE GoTo(r, "tryNick") /\ UNCHANGED mem
        BY <1>0, <3>1 DEF GoTo, TypeOK
      <3>2. ASSUME NEW u \in users, mem' = [mem EXCEPT ![r].user = u.id, ![r].nick = u.nick], GoTo(r, "touch")
            PROVE  /\ mem' \in [Requests -> Memory] /\ \A t \in Requests : t # r => mem'[t] = mem[t]
                   /\ pc'[r] = "touch"
        <4>1. u.id \in Ids /\ u.nick \in Nicks
          BY <1>0 DEF TypeOK, Row
        <4>2. mem' \in [Requests -> Memory] /\ \A t \in Requests : t # r => mem'[t] = mem[t]
          BY <1>0, <3>2, <4>1, AccountChosen
        <4>3. pc'[r] = "touch"
          BY <1>0, <3>2 DEF GoTo, TypeOK
        <4> QED BY <4>2, <4>3
      <3> QED BY <2>1, <3>1, <3>2
    <2>4. TypeOK'
      BY <1>0, <1>11, <2>2, <2>3 DEF LinkEmail, tables, redis, TypeOK
    <2>5. HandlerInv'
      BY <1>0, <1>11, <2>2, <2>3, OthersKnow DEF LinkEmail, HandlerInv
    <2> QED BY <2>4, <2>5 DEF TypeInv
  <1>12. CASE TryNick(r)
    <2>1. Candidate[req[r].nick] \in [1 .. MaxTry -> Nicks] /\ mem[r] \in Memory
      BY <1>0, <1>12 DEF TryNick, HandlerInv, TypeOK
    <2>2. Candidate[req[r].nick][mem[r].try] \in Nicks
      BY <2>1 DEF Memory
    <2>3. CASE GoTo(r, "insert") /\ mem' = [mem EXCEPT ![r].nick = Candidate[req[r].nick][mem[r].try]]
      <3>1. mem' \in [Requests -> Memory] /\ mem'[r].nick \in Nicks /\ \A t \in Requests : t # r => mem'[t] = mem[t]
        <4>1. PICK n \in Nicks : n = Candidate[req[r].nick][mem[r].try]
          BY <2>2
        <4>2. mem' = [mem EXCEPT ![r].nick = n]
          BY <2>3, <4>1
        <4>3. /\ mem' \in [Requests -> Memory] /\ mem'[r].nick = n
              /\ \A t \in Requests : t # r => mem'[t] = mem[t]
          BY <1>0, <4>2, NickChosen
        <4> QED BY <4>1, <4>3
      <3>2. /\ pc' \in [Requests -> Steps] /\ answer' \in [Requests -> Answers]
            /\ pc'[r] = "insert" /\ \A t \in Requests : t # r => pc'[t] = pc[t]
        BY <1>0, <2>3, StepTyped DEF Steps
      <3>3. TypeOK'
        BY <1>0, <1>12, <3>1, <3>2 DEF TryNick, tables, redis, TypeOK
      <3>4. HandlerInv'
        BY <1>0, <1>12, <3>1, <3>2, OthersKnow DEF TryNick, HandlerInv
      <3> QED BY <3>3, <3>4 DEF TypeInv
    <2>4. CASE mem[r].try < MaxTry /\ mem' = [mem EXCEPT ![r].try = @ + 1] /\ UNCHANGED <<pc, answer>>
      <3>1. mem' = [mem EXCEPT ![r] = [mem[r] EXCEPT !.try = mem[r].try + 1]]
        BY <1>0, <2>4 DEF TypeOK
      <3>2. [mem[r] EXCEPT !.try = mem[r].try + 1] \in Memory
        <4>1. mem[r].try + 1 \in 1 .. MaxTry
          BY <2>1, <2>4 DEF Memory
        <4> QED BY <2>1, <4>1 DEF Memory
      <3>3. mem' \in [Requests -> Memory] /\ \A t \in Requests : t # r => mem'[t] = mem[t]
        BY <1>0, <3>1, <3>2 DEF TypeOK
      <3>4. TypeOK'
        BY <1>0, <1>12, <2>4, <3>3 DEF TryNick, tables, redis, TypeOK
      <3>5. HandlerInv'
        BY <1>0, <1>12, <2>4, <3>3, OthersKnow DEF TryNick, HandlerInv
      <3> QED BY <3>4, <3>5 DEF TypeInv
    <2> QED BY <1>12, <2>3, <2>4 DEF TryNick
  <1>13. CASE InsertUser(r)
    <2>1. NewRow(r) \in Row
      BY <1>0, <1>13 DEF InsertUser, HandlerInv, NewRow, Row, Ids, TypeOK, Request
    <2>2. CASE Raise(r)
      BY <2>2, RaiseTyped
    <2>3. CASE /\ draft' = [draft EXCEPT ![r] = NewRow(r)] /\ GoTo(r, "commitInsert")
               /\ UNCHANGED <<users, locked, redis, req, mem>>
      <3>1. /\ pc' \in [Requests -> Steps] /\ answer' \in [Requests -> Answers]
            /\ pc'[r] = "commitInsert" /\ \A t \in Requests : t # r => pc'[t] = pc[t]
        BY <1>0, <2>3, StepTyped DEF Steps
      <3>2. TypeOK'
        BY <1>0, <2>1, <2>3, <3>1 DEF redis, TypeOK
      <3>3. HandlerInv'
        BY <1>0, <2>3, <3>1, OthersKnow
      <3> QED BY <3>2, <3>3 DEF TypeInv
    <2> QED BY <1>13, <2>2, <2>3 DEF InsertUser
  <1>14. CASE CommitUser(r)
    <2>1. draft[r] \in Row
      BY <1>0, <1>14 DEF CommitUser, HeldInv, TypeOK
    <2>2. /\ pc' \in [Requests -> Steps] /\ answer' \in [Requests -> Answers]
          /\ pc'[r] = "reload" /\ \A t \in Requests : t # r => pc'[t] = pc[t]
      BY <1>0, <1>14, StepTyped DEF CommitUser, Steps
    <2>3. mem' \in [Requests -> Memory] /\ \A t \in Requests : t # r => mem'[t] = mem[t]
      BY <1>0, <1>14, UserChosen DEF CommitUser, Ids
    <2>a. users' \subseteq Row
      BY <1>0, <1>14, <2>1 DEF CommitUser, TypeOK
    <2>b. locked' \in [Requests -> Ids \cup {None}] /\ draft' \in [Requests -> Row \cup {None}]
      BY <1>0, <1>14 DEF CommitUser, EndTx, TypeOK
    <2>4. TypeOK'
      BY <1>0, <1>14, <2>2, <2>3, <2>a, <2>b DEF CommitUser, redis, TypeOK
    <2>5. HandlerInv'
      BY <1>0, <1>14, <2>2, <2>3, OthersKnow DEF CommitUser
    <2> QED BY <2>4, <2>5 DEF TypeInv
  <1>15. CASE LockUser(r)
    <2>1. CASE Raise(r)
      BY <2>1, RaiseTyped
    <2>2. CASE /\ locked' = [locked EXCEPT ![r] = mem[r].user] /\ GoTo(r, "setNick")
               /\ UNCHANGED <<users, draft, redis, req, mem>>
      <3>1. /\ pc' \in [Requests -> Steps] /\ answer' \in [Requests -> Answers]
            /\ pc'[r] = "setNick" /\ \A t \in Requests : t # r => pc'[t] = pc[t]
        BY <1>0, <2>2, StepTyped DEF Steps
      <3>2. TypeOK'
        BY <1>0, <2>2, <3>1 DEF redis, TypeOK, Memory
      <3>3. HandlerInv'
        BY <1>0, <1>15, <2>2, <3>1, OthersKnow DEF LockUser, HandlerInv
      <3> QED BY <3>2, <3>3 DEF TypeInv
    <2> QED BY <1>15, <2>1, <2>2 DEF LockUser
  <1>16. CASE SetNick(r)
    <2>1. PICK u \in UserById(locked[r]) : SetNick(r)!2!(u)
      BY <1>16 DEF SetNick
    <2>2. [u EXCEPT !.nick = req[r].nick] \in Row
      <3>1. u \in Row
        BY <1>0 DEF UserById, TypeOK
      <3>2. req[r].nick \in Nicks
        BY <1>0, <1>16 DEF SetNick, HandlerInv
      <3> QED BY <3>1, <3>2 DEF Row
    <2>3. CASE Raise(r)
      BY <2>3, RaiseTyped
    <2>4. CASE /\ draft' = [draft EXCEPT ![r] = [u EXCEPT !.nick = req[r].nick]] /\ GoTo(r, "commitNick")
               /\ UNCHANGED <<users, locked, redis, req, mem>>
      <3>1. /\ pc' \in [Requests -> Steps] /\ answer' \in [Requests -> Answers]
            /\ pc'[r] = "commitNick" /\ \A t \in Requests : t # r => pc'[t] = pc[t]
        BY <1>0, <2>4, StepTyped DEF Steps
      <3>2. TypeOK'
        BY <1>0, <2>2, <2>4, <3>1 DEF redis, TypeOK
      <3>3. HandlerInv'
        BY <1>0, <2>4, <3>1, OthersKnow
      <3> QED BY <3>2, <3>3 DEF TypeInv
    <2> QED BY <2>1, <2>3, <2>4
  <1>17. CASE CommitNick(r)
    <2>1. draft[r] \in Row
      BY <1>0, <1>17 DEF CommitNick, HeldInv, TypeOK
    <2>2. /\ pc' \in [Requests -> Steps] /\ answer' \in [Requests -> Answers]
          /\ pc'[r] = "reload" /\ \A t \in Requests : t # r => pc'[t] = pc[t]
      BY <1>0, <1>17, StepTyped DEF CommitNick, Steps
    <2>a. users' \subseteq Row
      BY <1>0, <1>17, <2>1 DEF CommitNick, TypeOK
    <2>b. locked' \in [Requests -> Ids \cup {None}] /\ draft' \in [Requests -> Row \cup {None}]
      BY <1>0, <1>17 DEF CommitNick, EndTx, TypeOK
    <2>3. TypeOK'
      BY <1>0, <1>17, <2>2, <2>a, <2>b DEF CommitNick, redis, TypeOK
    <2>4. HandlerInv'
      BY <1>0, <1>17, <2>2, OthersKnow DEF CommitNick
    <2> QED BY <2>3, <2>4 DEF TypeInv
  <1>18. CASE DeleteUser(r)
    <2>1. /\ pc' \in [Requests -> Steps] /\ answer' \in [Requests -> Answers]
          /\ pc'[r] = "commitDelete" /\ \A t \in Requests : t # r => pc'[t] = pc[t]
      BY <1>0, <1>18, StepTyped DEF DeleteUser, Steps
    <2>a. locked' \in [Requests -> Ids \cup {None}]
      <3>1. mem[r] \in Memory /\ locked \in [Requests -> Ids \cup {None}]
        BY <1>0 DEF TypeOK
      <3>2. mem[r].user \in Ids \cup {None} \/ UserById(mem[r].user) = {}
        BY <3>1 DEF Memory
      <3> QED BY <1>18, <3>1, <3>2 DEF DeleteUser
    <2>2. TypeOK'
      BY <1>0, <1>18, <2>1, <2>a DEF DeleteUser, redis, TypeOK
    <2>3. HandlerInv'
      BY <1>0, <1>18, <2>1, OthersKnow DEF DeleteUser
    <2> QED BY <2>2, <2>3 DEF TypeInv
  <1>19. CASE CommitDelete(r)
    <2>1. /\ pc' \in [Requests -> Steps] /\ answer' \in [Requests -> Answers]
          /\ pc'[r] = "done" /\ \A t \in Requests : t # r => pc'[t] = pc[t]
      BY <1>0, <1>19, AnswerTyped DEF CommitDelete, Answers
    <2>2. TypeOK'
      BY <1>0, <1>19, <2>1 DEF CommitDelete, EndTx, redis, TypeOK
    <2>3. HandlerInv'
      BY <1>0, <1>19, <2>1, OthersKnow DEF CommitDelete
    <2> QED BY <2>2, <2>3 DEF TypeInv
  <1>20. CASE BreakDeadlock(r)
    BY <1>20, RaiseTyped DEF BreakDeadlock
  <1> QED
    BY <1>1, <1>2, <1>3, <1>4, <1>5, <1>6, <1>7, <1>8, <1>9, <1>10, <1>11, <1>12, <1>13, <1>14,
       <1>15, <1>16, <1>17, <1>18, <1>19, <1>20 DEF Serve

\* Types and what handlers know, whatever happens next.
LEMMA TypeStep == TypeInv /\ HeldInv /\ [Next]_vars => TypeInv'
  <1> SUFFICES ASSUME TypeInv, HeldInv, [Next]_vars PROVE TypeInv'
    OBVIOUS
  <1>1. ASSUME NEW r \in Requests, Arrive(r) PROVE TypeInv'
    BY <1>1, ArriveTyped
  <1>2. ASSUME NEW r \in Requests, Serve(r) PROVE TypeInv'
    BY <1>2, ServeTyped
  <1>3. ASSUME NEW r \in Requests, Die(r) PROVE TypeInv'
    BY <1>3, RaiseTyped DEF Die
  <1>4. CASE Expire
    <2>1. code' \in [Emails -> Codes \cup {None}] /\ verified' \subseteq Emails
      BY <1>4 DEF Expire, TypeInv, TypeOK
    <2> QED BY <1>4, <2>1 DEF Expire, tables, TypeInv, TypeOK, HandlerInv
  <1>5. CASE UNCHANGED vars
    BY <1>5 DEF vars, TypeInv, TypeOK, HandlerInv
  <1> QED BY <1>1, <1>2, <1>3, <1>4, <1>5 DEF Next, Terminating

----------------------------------------------------------------------------
(* The table *)

\* A step that neither holds nor writes a row leaves the table as it is.
Quiet(r) ==
    /\ UNCHANGED tables /\ pc[r] \notin Holding
    /\ \E s \in Steps \ Holding : pc' = [pc EXCEPT ![r] = s] /\ (s \in Early => pc[r] \in Early)

LEMMA QuietStep ==
    ASSUME TypeOK, TableInv, NEW r \in Requests, Quiet(r)
    PROVE  TableInv'
  <1>1. PICK s \in Steps \ Holding : pc' = [pc EXCEPT ![r] = s] /\ (s \in Early => pc[r] \in Early)
    BY DEF Quiet
  <1>2. \A i : UserById(i)' = UserById(i)
    BY DEF Quiet, tables, UserById
  <1>3. \A t \in Requests : pc'[t] = IF t = r THEN s ELSE pc[t]
    BY <1>1 DEF TypeOK
  <1>4. HeldInv'
    BY <1>1, <1>2, <1>3 DEF Quiet, tables, TableInv, HeldInv, Holding
  <1>5. OneHolder' /\ IdsUnique' /\ KeysUnique' /\ DraftsFit'
    BY DEF Quiet, tables, TableInv, OneHolder, IdsUnique, KeysUnique, DraftsFit
  <1> QED BY <1>4, <1>5 DEF TableInv

\* A transaction that fails lets go of its rows.
LEMMA RaiseStep ==
    ASSUME TypeOK, TableInv, NEW r \in Requests, Raise(r)
    PROVE  TableInv'
  <1>1. \A t \in Requests : /\ pc'[t] = IF t = r THEN "done" ELSE pc[t]
                            /\ locked'[t] = IF t = r THEN None ELSE locked[t]
                            /\ draft'[t] = IF t = r THEN None ELSE draft[t]
    BY DEF Raise, EndTx, Respond, TypeOK
  <1>2. \A i : UserById(i)' = UserById(i)
    BY DEF Raise, UserById
  <1>3. HeldInv'
    BY <1>1, <1>2 DEF TableInv, HeldInv, Early
  <1>4. OneHolder'
    BY <1>1 DEF TableInv, OneHolder
  <1>5. IdsUnique' /\ KeysUnique' /\ DraftsFit'
    BY <1>1 DEF Raise, TableInv, IdsUnique, KeysUnique, DraftsFit
  <1> QED BY <1>3, <1>4, <1>5 DEF TableInv
\* The INSERT: the new row fits all that is committed or may be.
LEMMA InsertStep ==
    ASSUME TypeInv, TableInv, NEW r \in Requests, InsertUser(r)
    PROVE  TableInv'
  <1>0. TypeOK
    BY DEF TypeInv
  <1>1. CASE Raise(r)
    BY <1>0, <1>1, RaiseStep
  <1>2. CASE /\ ~Clashes(NewRow(r)) /\ draft' = [draft EXCEPT ![r] = NewRow(r)]
             /\ GoTo(r, "commitInsert") /\ UNCHANGED <<users, locked>>
    <2>1. \A t \in Requests : /\ pc'[t] = IF t = r THEN "commitInsert" ELSE pc[t]
                              /\ draft'[t] = IF t = r THEN NewRow(r) ELSE draft[t]
      BY <1>0, <1>2 DEF GoTo, TypeOK
    <2>2. NewRow(r) # None /\ NewRow(r).id = r /\ pc[r] = "insert"
      <3>1. pc[r] = "insert" /\ HandlerInv /\ req[r] \in Request
        BY <1>0 DEF InsertUser, TypeInv, TypeOK
      <3>2. NewRow(r) \in Row
        BY <3>1 DEF HandlerInv, NewRow, Row, Ids, Request
      <3> QED BY <3>2, NoneIsNoRow DEF NewRow, InsertUser
    <2>3. \A i : UserById(i)' = UserById(i)
      BY <1>2 DEF UserById
    <2>4. HeldInv'
      BY <1>2, <2>1, <2>2, <2>3 DEF TableInv, HeldInv, Early
    <2>5. OneHolder' /\ IdsUnique' /\ KeysUnique'
      BY <1>2 DEF TableInv, OneHolder, IdsUnique, KeysUnique
    <2>6. \A u \in users : ~SameKey(NewRow(r), u)
      BY <1>2, SameKeySymmetric DEF Clashes
    <2>7. \A t \in Requests : t # r /\ draft[t] # None => ~SameKey(draft[t], NewRow(r)) /\ ~SameKey(NewRow(r), draft[t])
      BY SameKeySymmetric DEF InsertUser, Undecided
    <2>8. DraftsFit'
      BY <1>2, <2>1, <2>6, <2>7 DEF TableInv, DraftsFit
    <2> QED BY <2>4, <2>5, <2>8 DEF TableInv
  <1> QED BY <1>1, <1>2 DEF InsertUser

\* Its COMMIT.
LEMMA CommitUserStep ==
    ASSUME TypeOK, TableInv, NEW r \in Requests, CommitUser(r)
    PROVE  TableInv'
  <1>1. /\ pc[r] = "commitInsert" /\ draft[r] # None /\ draft[r].id = r /\ UserById(r) = {}
        /\ locked[r] = None /\ users' = users \cup {draft[r]}
    BY DEF CommitUser, TableInv, HeldInv, Early
  <1>2. \A t \in Requests : /\ pc'[t] = IF t = r THEN "reload" ELSE pc[t]
                            /\ locked'[t] = IF t = r THEN None ELSE locked[t]
                            /\ draft'[t] = IF t = r THEN None ELSE draft[t]
    BY DEF CommitUser, EndTx, GoTo, TypeOK
  <1>3. \A i : i # r => UserById(i)' = UserById(i)
    BY <1>1 DEF UserById
  <1>4. \A i : UserById(i) # {} => UserById(i)' # {}
    BY <1>1 DEF UserById
  <1>5. HeldInv'
    BY <1>2, <1>3, <1>4 DEF TableInv, HeldInv, Early
  <1>6. OneHolder'
    BY <1>2 DEF TableInv, OneHolder
  <1>7. IdsUnique'
    BY <1>1 DEF TableInv, IdsUnique, UserById
  <1>8. ~SameKey(draft[r], draft[r])
    BY DEF SameKey
  <1>9. KeysUnique'
    BY <1>1, <1>8, SameKeySymmetric DEF TableInv, KeysUnique, DraftsFit
  <1>10. DraftsFit'
    BY <1>1, <1>2 DEF TableInv, DraftsFit
  <1> QED BY <1>5, <1>6, <1>7, <1>9, <1>10 DEF TableInv

\* The UPDATE takes the row's lock.
LEMMA LockUserStep ==
    ASSUME TypeOK, TableInv, NEW r \in Requests, LockUser(r)
    PROVE  TableInv'
  <1>1. CASE Raise(r)
    BY <1>1, RaiseStep
  <1>2. CASE /\ UserById(mem[r].user) # {} /\ locked' = [locked EXCEPT ![r] = mem[r].user]
             /\ GoTo(r, "setNick") /\ UNCHANGED <<users, draft>>
    <2>1. \A t \in Requests : /\ pc'[t] = IF t = r THEN "setNick" ELSE pc[t]
                              /\ locked'[t] = IF t = r THEN mem[r].user ELSE locked[t]
      BY <1>2 DEF GoTo, TypeOK
    <2>2. mem[r].user # None
      BY <1>2, NobodyIsNone
    <2>3. \A i : UserById(i)' = UserById(i)
      BY <1>2 DEF UserById
    <2>4. pc[r] = "update" /\ draft[r] = None
      BY DEF LockUser, TableInv, HeldInv
    <2>5. HeldInv'
      BY <1>2, <2>1, <2>2, <2>3, <2>4 DEF TableInv, HeldInv, Early
    <2>6. \A t \in Requests : t # r => locked[t] # mem[r].user
      BY <2>2 DEF LockUser, Lockers
    <2>7. OneHolder'
      BY <2>1, <2>6 DEF TableInv, OneHolder
    <2>8. IdsUnique' /\ KeysUnique' /\ DraftsFit'
      BY <1>2 DEF TableInv, IdsUnique, KeysUnique, DraftsFit
    <2> QED BY <2>5, <2>7, <2>8 DEF TableInv
  <1> QED BY <1>1, <1>2 DEF LockUser

\* The new nickname fits all that is committed or may be.
LEMMA SetNickStep ==
    ASSUME TypeInv, TableInv, NEW r \in Requests, SetNick(r)
    PROVE  TableInv'
  <1>0. TypeOK
    BY DEF TypeInv
  <1>1. PICK u \in UserById(locked[r]) : SetNick(r)!2!(u)
    BY DEF SetNick
  <1> DEFINE row == [u EXCEPT !.nick = req[r].nick]
  <1>2. row \in Row /\ row.id = locked[r]
    <2>1. u \in Row /\ u.id = locked[r]
      BY <1>0 DEF UserById, TypeOK
    <2>2. req[r].nick \in Nicks
      BY DEF SetNick, TypeInv, HandlerInv
    <2> QED BY <2>1, <2>2 DEF Row
  <1>3. CASE Raise(r)
    BY <1>0, <1>3, RaiseStep
  <1>4. CASE ~Clashes(row) /\ draft' = [draft EXCEPT ![r] = row] /\ GoTo(r, "commitNick") /\ UNCHANGED <<users, locked>>
    <2>1. \A t \in Requests : /\ pc'[t] = IF t = r THEN "commitNick" ELSE pc[t]
                              /\ draft'[t] = IF t = r THEN row ELSE draft[t]
      BY <1>0, <1>4 DEF GoTo, TypeOK
    <2>2. row # None
      BY <1>2, NoneIsNoRow
    <2>3. \A i : UserById(i)' = UserById(i)
      BY <1>4 DEF UserById
    <2>4. pc[r] = "setNick"
      BY DEF SetNick
    <2>5. HeldInv'
      BY <1>2, <1>4, <2>1, <2>2, <2>3, <2>4 DEF TableInv, HeldInv, Early
    <2>6. OneHolder' /\ IdsUnique' /\ KeysUnique'
      BY <1>4 DEF TableInv, OneHolder, IdsUnique, KeysUnique
    <2>7. \A v \in users : ~SameKey(row, v)
      BY <1>4, SameKeySymmetric DEF Clashes
    <2>8. \A t \in Requests : t # r /\ draft[t] # None => ~SameKey(draft[t], row) /\ ~SameKey(row, draft[t])
      BY <1>1, SameKeySymmetric DEF Undecided
    <2>9. DraftsFit'
      BY <1>4, <2>1, <2>7, <2>8 DEF TableInv, DraftsFit
    <2> QED BY <2>5, <2>6, <2>9 DEF TableInv
  <1> QED BY <1>1, <1>3, <1>4

\* The row is replaced; nobody else holds it.
LEMMA CommitNickStep ==
    ASSUME TypeOK, TableInv, NEW r \in Requests, CommitNick(r)
    PROVE  TableInv'
  <1>1. /\ pc[r] = "commitNick" /\ draft[r] # None /\ locked[r] # None /\ draft[r].id = locked[r]
        /\ users' = (users \ UserById(locked[r])) \cup {draft[r]}
    BY DEF CommitNick, TableInv, HeldInv
  <1>2. \A t \in Requests : /\ pc'[t] = IF t = r THEN "reload" ELSE pc[t]
                            /\ locked'[t] = IF t = r THEN None ELSE locked[t]
                            /\ draft'[t] = IF t = r THEN None ELSE draft[t]
    BY DEF CommitNick, EndTx, GoTo, TypeOK
  <1>3. \A i : i # locked[r] => UserById(i)' = UserById(i)
    BY <1>1 DEF UserById
  <1>4. UserById(locked[r]) # {}
    BY <1>1 DEF TableInv, HeldInv
  <1>5. \A t \in Requests : t # r => locked[t] # locked[r]
    BY <1>1 DEF TableInv, OneHolder
  <1>6. HeldInv'
    BY <1>2, <1>3, <1>4, <1>5 DEF TableInv, HeldInv, Early
  <1>7. OneHolder'
    BY <1>2 DEF TableInv, OneHolder
  <1>8. IdsUnique'
    BY <1>1 DEF TableInv, IdsUnique, UserById
  <1>9. ~SameKey(draft[r], draft[r])
    BY DEF SameKey
  <1>10. KeysUnique'
    BY <1>1, <1>9, SameKeySymmetric DEF TableInv, KeysUnique, DraftsFit
  <1>11. DraftsFit'
    BY <1>1, <1>2 DEF TableInv, DraftsFit
  <1> QED BY <1>6, <1>7, <1>8, <1>10, <1>11 DEF TableInv

\* The DELETE takes the row's lock, if there is a row.
LEMMA DeleteUserStep ==
    ASSUME TypeOK, TableInv, NEW r \in Requests, DeleteUser(r)
    PROVE  TableInv'
  <1> DEFINE held == IF UserById(mem[r].user) = {} THEN None ELSE mem[r].user
  <1>1. \A t \in Requests : /\ pc'[t] = IF t = r THEN "commitDelete" ELSE pc[t]
                            /\ locked'[t] = IF t = r THEN held ELSE locked[t]
    BY DEF DeleteUser, GoTo, TypeOK
  <1>2. UNCHANGED <<users, draft>> /\ pc[r] = "delete"
    BY DEF DeleteUser
  <1>3. \A i : UserById(i)' = UserById(i)
    BY <1>2 DEF UserById
  <1>4. held # None => UserById(held) # {}
    OBVIOUS
  <1>5. HeldInv'
    BY <1>1, <1>2, <1>3, <1>4 DEF TableInv, HeldInv, Early
  <1>6. held # None => \A t \in Requests : t # r => locked[t] # held
    BY DEF DeleteUser, Lockers
  <1>7. OneHolder'
    BY <1>1, <1>6 DEF TableInv, OneHolder
  <1>8. IdsUnique' /\ KeysUnique' /\ DraftsFit'
    BY <1>2 DEF TableInv, IdsUnique, KeysUnique, DraftsFit
  <1> QED BY <1>5, <1>7, <1>8 DEF TableInv

\* The row goes.
LEMMA CommitDeleteStep ==
    ASSUME TypeOK, TableInv, NEW r \in Requests, CommitDelete(r)
    PROVE  TableInv'
  <1>1. pc[r] = "commitDelete" /\ users' = users \ UserById(locked[r])
    BY DEF CommitDelete
  <1>2. \A t \in Requests : /\ pc'[t] = IF t = r THEN "done" ELSE pc[t]
                            /\ locked'[t] = IF t = r THEN None ELSE locked[t]
                            /\ draft'[t] = IF t = r THEN None ELSE draft[t]
    BY DEF CommitDelete, EndTx, Respond, TypeOK
  <1>3. \A i : i # locked[r] => UserById(i)' = UserById(i)
    BY <1>1 DEF UserById
  <1>4. \A i : UserById(i) = {} => UserById(i)' = {}
    BY <1>1 DEF UserById
  <1>5. \A t \in Requests : t # r /\ locked[t] # None => locked[t] # locked[r]
    BY DEF TableInv, OneHolder
  <1>6. HeldInv'
    BY <1>2, <1>3, <1>4, <1>5 DEF TableInv, HeldInv, Early
  <1>7. OneHolder'
    BY <1>2 DEF TableInv, OneHolder
  <1>8. IdsUnique' /\ KeysUnique' /\ DraftsFit'
    BY <1>1, <1>2 DEF TableInv, IdsUnique, KeysUnique, DraftsFit
  <1> QED BY <1>6, <1>7, <1>8 DEF TableInv

----------------------------------------------------------------------------
LEMMA ServeStep ==
    ASSUME TypeInv, TableInv, NEW r \in Requests, Serve(r)
    PROVE  TableInv'
  <1>0. TypeOK
    BY DEF TypeInv
  <1>1. CASE \/ StoreCode(r) \/ TakeCode(r) \/ MailCode(r) \/ MarkVerified(r) \/ FindEmail(r)
             \/ UnmarkVerified(r) \/ IssueTokens(r)
    <2>1. Quiet(r)
      BY <1>1 DEF Quiet, tables, Holding, Early, Steps, GoTo, Respond, StoreCode, MailCode, TakeCode,
                  MarkVerified, FindEmail, UnmarkVerified, IssueTokens
    <2> QED BY <1>0, <2>1, QuietStep
  <1>2. CASE ReadMarker(r) \/ ReloadUser(r) \/ LinkEmail(r) \/ TouchUser(r)
    <2>1. Quiet(r)
      BY <1>2 DEF Quiet, tables, Holding, Early, Steps, GoTo, Respond, ReadMarker, ReloadUser, LinkEmail, TouchUser
    <2> QED BY <1>0, <2>1, QuietStep
  <1>3. CASE TryNick(r)
    <2>1. CASE GoTo(r, "insert")
      <3>1. Quiet(r)
        BY <1>3, <2>1 DEF Quiet, tables, Holding, Early, Steps, GoTo, TryNick
      <3> QED BY <1>0, <3>1, QuietStep
    <2>2. CASE UNCHANGED pc
      BY <1>3, <2>2 DEF TryNick, tables, TableInv, HeldInv, OneHolder, IdsUnique, KeysUnique, DraftsFit, UserById
    <2> QED BY <1>3, <2>1, <2>2 DEF TryNick
  <1>4. CASE BreakDeadlock(r)
    BY <1>0, <1>4, RaiseStep DEF BreakDeadlock
  <1> QED
    BY <1>0, <1>1, <1>2, <1>3, <1>4, InsertStep, CommitUserStep, LockUserStep, SetNickStep, CommitNickStep,
       DeleteUserStep, CommitDeleteStep DEF Serve

LEMMA TableStep == IInv /\ [Next]_vars => TableInv'
  <1> SUFFICES ASSUME IInv, [Next]_vars PROVE TableInv'
    OBVIOUS
  <1>0. TypeInv /\ TypeOK /\ TableInv
    BY DEF IInv, TypeInv
  <1>1. ASSUME NEW r \in Requests, Arrive(r) PROVE TableInv'
    <2>1. Quiet(r)
      <3>1. CASE SendCode(r) \/ ConfirmCode(r) \/ Register(r)
        BY <3>1 DEF Quiet, tables, Holding, Early, Steps, GoTo, Respond, Receive, SendCode, ConfirmCode, Register
      <3>2. CASE Callback(r)
        BY <3>2 DEF Quiet, tables, Holding, Early, Steps, GoTo, Respond, Receive, Callback
      <3>3. CASE UpdateProfile(r) \/ Withdraw(r)
        BY <3>3 DEF Quiet, tables, Holding, Early, Steps, GoTo, Respond, Receive, UpdateProfile, Withdraw
      <3> QED BY <1>1, <3>1, <3>2, <3>3 DEF Arrive
    <2> QED BY <1>0, <2>1, QuietStep
  <1>2. ASSUME NEW r \in Requests, Serve(r) PROVE TableInv'
    BY <1>0, <1>2, ServeStep
  <1>3. ASSUME NEW r \in Requests, Die(r) PROVE TableInv'
    BY <1>0, <1>3, RaiseStep DEF Die
  <1>4. CASE Expire \/ UNCHANGED vars
    <2>1. UNCHANGED <<users, locked, draft, pc>>
      BY <1>4 DEF Expire, tables, vars
    <2> QED BY <1>0, <2>1 DEF TableInv, HeldInv, OneHolder, IdsUnique, KeysUnique, DraftsFit, UserById
  <1> QED BY <1>1, <1>2, <1>3, <1>4 DEF Next, Terminating

LEMMA Initially == Init => IInv
  <1> SUFFICES ASSUME Init PROVE IInv
    OBVIOUS
  <1> USE AccountsAssumption
  <1>1. users \subseteq Row
    BY DEF Init, Row, Ids
  <1>2. NoRequest \in Request /\ NoMemory \in Memory
    BY DEF NoRequest, Request, NoMemory, Memory
  <1>3. pc \in [Requests -> Steps] /\ \A r \in Requests : pc[r] \in {"idle", "done"}
    BY DEF Init, Steps
  <1>4. TypeOK
    BY <1>1, <1>2, <1>3 DEF Init, TypeOK, Answers
  <1>5. HandlerInv
    BY <1>3 DEF HandlerInv
  <1>6. \A r \in Requests : UserById(r) = {}
    BY DEF Init, UserById
  <1>7. HeldInv
    BY <1>3, <1>6 DEF Init, HeldInv
  <1>8. OneHolder /\ DraftsFit
    BY DEF Init, OneHolder, DraftsFit
  <1>9. IdsUnique /\ KeysUnique
    BY OldUsersAssumption DEF Init, IdsUnique, KeysUnique
  <1> QED BY <1>4, <1>5, <1>7, <1>8, <1>9 DEF IInv, TypeInv, TableInv

LEMMA Inductive == IInv /\ [Next]_vars => IInv'
  BY TypeStep, TableStep DEF IInv, TableInv

\* Every value of the state is of its kind, whatever requests overlap:
\* auth_service.py, user_service.py.
THEOREM AccountsTypeCorrect == Spec => []TypeOK
  <1>1. IInv => TypeOK
    BY DEF IInv, TypeInv
  <1> QED BY <1>1, Initially, Inductive, PTL DEF Spec

\* No two accounts share an identity, an address or a nickname, for any number
\* of sign-ups, social logins and renamings: the constraints of models/user.py
\* hold of what is committed in any order.
THEOREM UniqueKeys == Spec => []KeysUnique
  <1>1. IInv => KeysUnique
    BY DEF IInv, TableInv
  <1> QED BY <1>1, Initially, Inductive, PTL DEF Spec
----------------------------------------------------------------------------
(* What an answer promises.  An account that exists or has existed is never *)
(* inserted again; its row changes by a renaming alone; and a renaming, of  *)
(* which there is one, locks the row it was asked for.                      *)

\* The account's row has been committed.
Settled(i) == i \in OldIds \/ (i \in Requests /\ pc[i] \notin Early)

Alone(r) == \A t \in Requests \ {r} : Kind[t] = "profile" => mem[t].user # mem[r].user

\* Which handler a step belongs to.
KindOfStep(r) ==
    /\ pc[r] = "mail" => Kind[r] = "send"
    /\ pc[r] = "storeCode" => Kind[r] = "send"
    /\ pc[r] \in {"takeCode", "mark"} => Kind[r] = "confirm"
    /\ pc[r] \in {"findEmail", "readMarker", "linkEmail", "tryNick", "insert", "commitInsert", "touch",
                 "unmark", "issue"} => Kind[r] \in {"register", "callback"}
    /\ pc[r] \in {"update", "setNick", "commitNick"} => Kind[r] = "profile" /\ mem[r].user # None
    /\ pc[r] = "reload" => Kind[r] # "withdraw"
    /\ pc[r] \in {"delete", "commitDelete"} => Kind[r] = "withdraw" /\ mem[r].user # None

Promise(r) ==
    /\ pc[r] = "idle" => mem[r].user = None
    /\ answer[r] # "none" => pc[r] = "done"
    /\ mem[r].user # None => Settled(mem[r].user)
    /\ pc[r] \in {"setNick", "commitNick"} => locked[r] = mem[r].user
    /\ pc[r] = "commitNick" => draft[r].nick = req[r].nick
    /\ pc[r] = "commitDelete" => locked[r] = mem[r].user \/ UserById(mem[r].user) = {}
    /\ Kind[r] = "profile" /\ (pc[r] = "reload" \/ answer[r] = "ok") =>
          mem[r].user # None /\ (Alone(r) => \A u \in UserById(mem[r].user) : u.nick = req[r].nick)
    /\ Kind[r] = "withdraw" /\ answer[r] = "ok" => mem[r].user # None /\ UserById(mem[r].user) = {}
    /\ answer[r] \in {"conflict", "invalid"} => UserById(r) = {}

PromiseInv == \A r \in Requests : KindOfStep(r) /\ Promise(r)

\* Requests other than r are where they were.
Undisturbed(r) ==
    \A t \in Requests : t # r =>
        /\ pc'[t] = pc[t] /\ mem'[t] = mem[t] /\ req'[t] = req[t] /\ answer'[t] = answer[t]
        /\ locked'[t] = locked[t] /\ draft'[t] = draft[t]

\* What a step of r may do to accounts that are settled.
Settling(r) ==
    /\ pc[r] \notin Early => pc'[r] \notin Early
    /\ Kind[r] = "profile" => mem'[r].user = mem[r].user \/ pc[r] = "idle"
    /\ \A i : Settled(i) =>
          /\ UserById(i) = {} => UserById(i)' = {}
          /\ \A u \in UserById(i)' : u \in UserById(i) \/ (pc[r] = "commitNick" /\ locked[r] = i)

LEMMA OthersKeepPromises ==
    ASSUME PromiseInv, NEW r \in Requests, Undisturbed(r), Settling(r),
           NEW t \in Requests, t # r
    PROVE  KindOfStep(t)' /\ Promise(t)'
  <1> USE DEF PromiseInv
  <1>1. KindOfStep(t)'
    BY DEF Undisturbed, KindOfStep
  <1>2. \A i : Settled(i) => Settled(i)'
    BY DEF Settled, Settling, Undisturbed
  <1>3. mem[t].user # None /\ UserById(mem[t].user) = {} => UserById(mem[t].user)' = {}
    BY DEF Promise, Settling, Undisturbed
  <1>4. answer[t] \in {"conflict", "invalid"} => UserById(t)' = {}
    <2>1. answer[t] \in {"conflict", "invalid"} => Settled(t) /\ UserById(t) = {}
      BY DEF Promise, Settled, Early
    <2> QED BY <2>1 DEF Settling
  <1>5. ASSUME Kind[t] = "profile", pc[t] = "reload" \/ answer[t] = "ok", Alone(t)',
               NEW u \in UserById(mem[t].user)'
        PROVE  u.nick = req[t].nick
    <2>1. mem[t].user # None /\ Settled(mem[t].user)
      BY <1>5 DEF Promise
    <2>2. Kind[r] = "profile" => mem[r].user # mem[t].user
      <3>1. Kind[r] = "profile" => mem'[r].user # mem[t].user
        BY <1>5 DEF Alone, Undisturbed
      <3>2. pc[r] = "idle" => mem[r].user = None
        BY DEF Promise
      <3> QED BY <2>1, <3>1, <3>2 DEF Settling
    <2>3. Alone(t)
      BY <1>5, <2>2 DEF Alone, Undisturbed
    <2>4. u \in UserById(mem[t].user)
      <3>1. ~(pc[r] = "commitNick" /\ locked[r] = mem[t].user)
        BY <2>2 DEF KindOfStep, Promise
      <3> QED BY <1>5, <2>1, <3>1 DEF Settling, Undisturbed
    <2> QED BY <1>5, <2>3, <2>4 DEF Promise
  <1>6. Promise(t)'
    <2>1. (mem[t].user # None => Settled(mem[t].user))'
      BY <1>2 DEF Promise, Undisturbed
    <2>2. Kind[t] = "profile" /\ (pc'[t] = "reload" \/ answer'[t] = "ok") =>
             mem'[t].user # None /\ (Alone(t)' => \A u \in UserById(mem[t].user)' : u.nick = req'[t].nick)
      BY <1>5 DEF Promise, Undisturbed
    <2>3. (pc[t] = "commitDelete" => locked[t] = mem[t].user \/ UserById(mem[t].user) = {})'
      BY <1>3 DEF Promise, KindOfStep, Undisturbed
    <2>4. (Kind[t] = "withdraw" /\ answer[t] = "ok" => mem[t].user # None /\ UserById(mem[t].user) = {})'
      BY <1>3 DEF Promise, Undisturbed
    <2> QED BY <1>4, <2>1, <2>2, <2>3, <2>4 DEF Promise, Undisturbed
  <1> QED BY <1>1, <1>6
LEMMA KeepPromises ==
    ASSUME PromiseInv, NEW r \in Requests, Undisturbed(r), Settling(r), KindOfStep(r)', Promise(r)'
    PROVE  PromiseInv'
  BY OthersKeepPromises DEF PromiseInv

\* A step that leaves the accounts as they are.
LEMMA Calm ==
    ASSUME NEW r \in Requests, UNCHANGED users, pc[r] \notin Early => pc'[r] \notin Early,
           Kind[r] = "profile" => mem'[r].user = mem[r].user \/ pc[r] = "idle"
    PROVE  Settling(r)
  BY DEF Settling, UserById

\* It also leaves the request's account as it is.
LEMMA PlainStep ==
    ASSUME IInv, PromiseInv, NEW r \in Requests, Undisturbed(r), UNCHANGED tables,
           mem'[r].user = mem[r].user, Kind[r] = "profile" => req'[r] = req[r],
           pc'[r] \in Early => pc[r] \in Early,
           pc'[r] \notin {"idle", "setNick", "commitNick", "commitDelete"},
           answer'[r] # "none" => pc'[r] = "done",
           Kind[r] = "profile" /\ (pc'[r] = "reload" \/ answer'[r] = "ok") => pc[r] = "reload",
           Kind[r] = "withdraw" => answer'[r] # "ok",
           answer'[r] \in {"conflict", "invalid"} => pc[r] \in Early,
           KindOfStep(r)'
    PROVE  PromiseInv'
  <1>1. Settling(r)
    BY Calm DEF tables
  <1>2. \A i : UserById(i)' = UserById(i)
    BY DEF tables, UserById
  <1>3. mem'[r].user # None => Settled(mem[r].user)'
    BY DEF PromiseInv, Promise, Settled, Undisturbed
  <1>4. pc[r] \in Early => UserById(r) = {}
    BY DEF IInv, TableInv, HeldInv
  <1>5. ASSUME Kind[r] = "profile", pc'[r] = "reload" \/ answer'[r] = "ok", Alone(r)',
               NEW u \in UserById(mem[r].user)
        PROVE  u.nick = req'[r].nick
    <2>1. Alone(r)
      BY <1>5 DEF Alone, Undisturbed
    <2> QED BY <1>5, <2>1 DEF PromiseInv, Promise
  <1>6. Kind[r] = "profile" /\ (pc'[r] = "reload" \/ answer'[r] = "ok") => mem[r].user # None
    BY DEF PromiseInv, Promise
  <1>7. Promise(r)'
    <2>1. UserById(mem[r].user)' = UserById(mem[r].user)
      BY <1>2 DEF tables, UserById
    <2> QED BY <1>2, <1>3, <1>4, <1>5, <1>6, <2>1 DEF Promise
  <1> QED BY <1>1, <1>7, KeepPromises

LEMMA RaiseKeepsPromises ==
    ASSUME IInv, PromiseInv, NEW r \in Requests, pc[r] # "idle", Raise(r)
    PROVE  PromiseInv'
  <1>0. TypeOK
    BY DEF IInv, TypeInv
  <1>1. Undisturbed(r) /\ pc'[r] = "done" /\ answer'[r] = "error" /\ UNCHANGED <<users, req, mem>>
    BY <1>0 DEF Raise, EndTx, Respond, Undisturbed, TypeOK
  <1>2. Settling(r)
    BY <1>1, Calm DEF Early
  <1>3. Settled(mem[r].user) => Settled(mem[r].user)'
    BY <1>1 DEF Settled, Undisturbed, Early
  <1>4. KindOfStep(r)' /\ Promise(r)'
    BY <1>1, <1>3 DEF PromiseInv, Promise, KindOfStep
  <1> QED BY <1>1, <1>2, <1>4, KeepPromises

\* Handlers that only look and move on.
LEMMA PlainSteps ==
    ASSUME IInv, PromiseInv, NEW r \in Requests,
           \/ StoreCode(r) \/ MailCode(r) \/ TakeCode(r) \/ MarkVerified(r) \/ FindEmail(r) \/ ReadMarker(r)
           \/ ReloadUser(r) \/ UnmarkVerified(r) \/ IssueTokens(r) \/ TouchUser(r)
           \/ SendCode(r) \/ ConfirmCode(r) \/ Register(r)
    PROVE  PromiseInv'
  <1>0. TypeOK /\ HandlerInv /\ KindOfStep(r) /\ Promise(r)
    BY DEF IInv, TypeInv, PromiseInv
  <1> USE DEF Undisturbed, GoTo, Respond, TypeOK, KindOfStep, Promise, Early, tables
  <1>1. CASE StoreCode(r) \/ TakeCode(r) \/ UnmarkVerified(r)
    BY <1>0, <1>1, PlainStep DEF StoreCode, TakeCode, UnmarkVerified
  <1>2. CASE MailCode(r) \/ MarkVerified(r) \/ IssueTokens(r)
    BY <1>0, <1>2, PlainStep DEF MailCode, MarkVerified, IssueTokens
  <1>3. CASE FindEmail(r) \/ ReadMarker(r)
    BY <1>0, <1>3, PlainStep DEF FindEmail, ReadMarker, HandlerInv
  <1>4. CASE ReloadUser(r) \/ TouchUser(r)
    BY <1>0, <1>4, PlainStep DEF ReloadUser, TouchUser
  <1>5. CASE SendCode(r) \/ ConfirmCode(r)
    <2>1. /\ pc[r] = "idle" /\ Kind[r] \in {"send", "confirm"} /\ UNCHANGED <<tables, mem>>
          /\ \E x : req' = [req EXCEPT ![r] = x]
          /\ \/ GoTo(r, "storeCode") /\ Kind[r] = "send"
             \/ GoTo(r, "takeCode") /\ Kind[r] = "confirm"
             \/ Respond(r, "conflict") \/ Respond(r, "invalid")
      BY <1>5 DEF SendCode, ConfirmCode, Receive
    <2>2. Undisturbed(r)
      BY <1>0, <2>1
    <2>3. /\ pc'[r] \in {"storeCode", "takeCode", "done"}
          /\ answer'[r] # "none" => pc'[r] = "done"
          /\ answer'[r] \in {"none", "conflict", "invalid"}
      BY <1>0, <2>1
    <2>4. KindOfStep(r)'
      BY <1>0, <2>1, <2>3
    <2> QED BY <1>0, <2>1, <2>2, <2>3, <2>4, PlainStep
  <1>6. CASE Register(r)
    <2>1. PICK e \in Emails, n \in Typed : Register(r)!(e, n)
      BY <1>6 DEF Register
    <2>2. /\ pc[r] = "idle" /\ Kind[r] = "register" /\ UNCHANGED tables
          /\ \E x : req' = [req EXCEPT ![r] = x]
          /\ GoTo(r, "findEmail") \/ Respond(r, "conflict")
      BY <2>1 DEF Receive
    <2>3. mem'[r].user = mem[r].user /\ \A t \in Requests : t # r => mem'[t] = mem[t]
      BY <1>0, <2>1, NickChosen, AccountsAssumption
    <2>4. Undisturbed(r)
      BY <1>0, <2>2, <2>3
    <2>5. /\ pc'[r] \in {"findEmail", "done"}
          /\ answer'[r] # "none" => pc'[r] = "done"
          /\ answer'[r] \in {"none", "conflict"}
      BY <1>0, <2>2
    <2>6. KindOfStep(r)'
      BY <1>0, <2>2, <2>5
    <2> QED BY <1>0, <2>2, <2>3, <2>4, <2>5, <2>6, PlainStep
  <1> QED BY <1>1, <1>2, <1>3, <1>4, <1>5, <1>6
\* Rows that are there are settled.
LEMMA ThereIsSettled ==
    ASSUME IInv, NEW i, UserById(i) # {}
    PROVE  i # None /\ Settled(i)
  <1>1. i \in Ids
    BY DEF IInv, TypeInv, TypeOK, Row, UserById
  <1> QED BY <1>1, AccountsAssumption DEF IInv, TableInv, HeldInv, Settled, Ids

\* Handlers that choose the account they work for.
LEMMA ChoosingSteps ==
    ASSUME IInv, PromiseInv, NEW r \in Requests,
           Callback(r) \/ LinkEmail(r) \/ TryNick(r) \/ UpdateProfile(r) \/ Withdraw(r)
    PROVE  PromiseInv'
  <1>0. TypeOK /\ HandlerInv /\ KindOfStep(r) /\ Promise(r)
    BY DEF IInv, TypeInv, PromiseInv
  <1> USE DEF Undisturbed, GoTo, Respond, TypeOK, Early, tables
  <1>a. \A i : UNCHANGED users => UserById(i)' = UserById(i)
    BY DEF UserById
  <1>1. CASE Callback(r) \/ LinkEmail(r)
    <2>1. /\ pc[r] \in {"idle", "linkEmail"} /\ Kind[r] = "callback" /\ UNCHANGED tables
          /\ UNCHANGED req \/ \E x : req' = [req EXCEPT ![r] = x]
          /\ \/ \E u \in users : mem' = [mem EXCEPT ![r].user = u.id, ![r].nick = u.nick] /\ GoTo(r, "touch")
             \/ UNCHANGED mem /\ (GoTo(r, "tryNick") \/ GoTo(r, "linkEmail") \/ Respond(r, "invalid"))
      BY <1>0, <1>1 DEF Callback, LinkEmail, Receive, HandlerInv
    <2>2. CASE UNCHANGED mem /\ (GoTo(r, "tryNick") \/ GoTo(r, "linkEmail") \/ Respond(r, "invalid"))
      <3>1. Undisturbed(r)
        BY <1>0, <2>1, <2>2
      <3>2. /\ pc'[r] \in {"tryNick", "linkEmail", "done"}
            /\ answer'[r] # "none" => pc'[r] = "done"
            /\ answer'[r] \in {"none", "invalid"}
        BY <1>0, <2>1, <2>2 DEF Promise
      <3>3. KindOfStep(r)'
        BY <2>1, <3>2 DEF KindOfStep
      <3> QED BY <2>1, <2>2, <3>1, <3>2, <3>3, PlainStep
    <2>3. ASSUME NEW u \in users, mem' = [mem EXCEPT ![r].user = u.id, ![r].nick = u.nick], GoTo(r, "touch")
          PROVE  PromiseInv'
      <3>1. u.id \in Ids /\ u.nick \in Nicks /\ u \in UserById(u.id)
        BY <1>0 DEF Row, UserById
      <3>2. mem'[r].user = u.id /\ \A t \in Requests : t # r => mem'[t] = mem[t]
        BY <1>0, <2>3, <3>1, AccountChosen
      <3>3. Undisturbed(r) /\ pc'[r] = "touch" /\ answer'[r] = "none"
        BY <1>0, <2>1, <2>3, <3>2 DEF Promise
      <3>4. Settling(r)
        BY <2>1, <3>3, Calm
      <3>5. u.id # None /\ Settled(u.id)
        BY <3>1, ThereIsSettled
      <3>6. Settled(u.id)'
        BY <3>3, <3>5 DEF Settled
      <3>7. KindOfStep(r)' /\ Promise(r)'
        BY <2>1, <3>2, <3>3, <3>6 DEF KindOfStep, Promise
      <3> QED BY <3>3, <3>4, <3>7, KeepPromises
    <2> QED BY <2>1, <2>2, <2>3
  <1>2. CASE TryNick(r)
    <2>1. mem'[r].user = mem[r].user /\ \A t \in Requests : t # r => mem'[t] = mem[t]
      BY <1>0, <1>2 DEF TryNick, Memory
    <2>2. pc[r] = "tryNick" /\ pc'[r] \in {"tryNick", "insert"} /\ answer'[r] = "none" /\ UNCHANGED <<tables, req>>
      BY <1>0, <1>2 DEF TryNick, Promise
    <2>3. Undisturbed(r)
      BY <1>0, <1>2, <2>1 DEF TryNick
    <2>4. KindOfStep(r)'
      BY <1>0, <2>2 DEF KindOfStep
    <2> QED BY <1>0, <2>1, <2>2, <2>3, <2>4, PlainStep
  <1>3. ASSUME NEW i \in Ids, MayBeSignedIn(i) PROVE i # None /\ Settled(i)
    <2>1. i # None
      BY AccountsAssumption
    <2> QED BY <1>3, <2>1 DEF MayBeSignedIn, Settled, PromiseInv, Promise
  <1>4. CASE UpdateProfile(r)
    <2>1. PICK i \in Ids, n \in Typed : UpdateProfile(r)!(i, n)
      BY <1>4 DEF UpdateProfile
    <2>2. [NoRequest EXCEPT !.nick = n].nick = n
      BY DEF NoRequest
    <2>3. /\ pc[r] = "idle" /\ Kind[r] = "profile" /\ UNCHANGED tables /\ req'[r].nick = n
          /\ \A t \in Requests : t # r => req'[t] = req[t]
      BY <1>0, <2>1, <2>2 DEF Receive
    <2>4. mem'[r].user = i /\ \A t \in Requests : t # r => mem'[t] = mem[t]
      BY <1>0, <2>1, UserChosen
    <2>5. /\ pc'[r] \in {"reload", "update", "done"} /\ answer'[r] \in {"none", "unauthorized"}
          /\ answer'[r] # "none" => pc'[r] = "done"
          /\ \A t \in Requests : t # r => pc'[t] = pc[t] /\ answer'[t] = answer[t]
      <3>1. GoTo(r, "reload") \/ GoTo(r, "update") \/ Respond(r, "unauthorized")
        BY <2>1
      <3> QED BY <1>0, <2>3, <3>1 DEF Promise
    <2>6. Undisturbed(r)
      BY <2>3, <2>4, <2>5
    <2>7. Settling(r)
      BY <2>3, <2>5, Calm
    <2>8. i # None /\ Settled(i)
      BY <1>3, <2>1
    <2>9. Settled(i)'
      BY <2>5, <2>8 DEF Settled
    <2>10. pc'[r] = "reload" => \A u \in UserById(i) : u.nick = n
      <3>1. ASSUME pc'[r] = "reload", NEW u \in UserById(i) PROVE u.nick = n
        <4>1. PICK v \in UserById(i) : GoTo(r, IF v.nick = n THEN "reload" ELSE "update")
          BY <1>0, <2>1, <3>1
        <4>2. v.nick = n
          BY <1>0, <3>1, <4>1
        <4>3. u = v
          BY <3>1, <4>1 DEF UserById, IInv, TableInv, IdsUnique
        <4> QED BY <4>2, <4>3
      <3> QED BY <3>1
    <2>11. KindOfStep(r)' /\ Promise(r)'
      <3>1. UserById(mem[r].user)' = UserById(i)
        BY <2>3, <2>4 DEF UserById
      <3> QED BY <2>3, <2>4, <2>5, <2>8, <2>9, <2>10, <3>1 DEF KindOfStep, Promise
    <2> QED BY <2>6, <2>7, <2>11, KeepPromises
  <1>5. CASE Withdraw(r)
    <2>1. PICK i \in Ids : Withdraw(r)!(i)
      BY <1>5 DEF Withdraw
    <2>3. /\ pc[r] = "idle" /\ Kind[r] = "withdraw" /\ UNCHANGED tables
          /\ \A t \in Requests : t # r => req'[t] = req[t]
      BY <1>0, <2>1 DEF Receive
    <2>4. mem'[r].user = i /\ \A t \in Requests : t # r => mem'[t] = mem[t]
      BY <1>0, <2>1, UserChosen
    <2>5. /\ pc'[r] \in {"delete", "done"} /\ answer'[r] \in {"none", "unauthorized"}
          /\ answer'[r] # "none" => pc'[r] = "done"
          /\ \A t \in Requests : t # r => pc'[t] = pc[t] /\ answer'[t] = answer[t]
      <3>1. GoTo(r, "delete") \/ Respond(r, "unauthorized")
        BY <2>1
      <3> QED BY <1>0, <2>3, <3>1 DEF Promise
    <2>6. Undisturbed(r)
      BY <2>3, <2>4, <2>5
    <2>7. Settling(r)
      BY <2>3, <2>5, Calm
    <2>8. i # None /\ Settled(i)
      BY <1>3, <2>1
    <2>9. Settled(i)'
      BY <2>5, <2>8 DEF Settled
    <2>10. KindOfStep(r)' /\ Promise(r)'
      BY <2>3, <2>4, <2>5, <2>8, <2>9 DEF KindOfStep, Promise
    <2> QED BY <2>6, <2>7, <2>10, KeepPromises
  <1> QED BY <1>1, <1>2, <1>4, <1>5
\* Transactions that take a row's lock or write a row.
LEMMA WritingSteps ==
    ASSUME IInv, PromiseInv, NEW r \in Requests,
           InsertUser(r) \/ LockUser(r) \/ SetNick(r) \/ DeleteUser(r)
    PROVE  PromiseInv'
  <1>0. TypeOK /\ HandlerInv /\ KindOfStep(r) /\ Promise(r)
    BY DEF IInv, TypeInv, PromiseInv
  <1> USE DEF Undisturbed, GoTo, TypeOK, Early, redis
  <1>a. CASE Raise(r)
    <2>1. pc[r] # "idle"
      BY DEF InsertUser, LockUser, SetNick, DeleteUser
    <2> QED BY <1>a, <2>1, RaiseKeepsPromises
  <1>1. CASE InsertUser(r) /\ ~Raise(r)
    <2>1. /\ pc[r] = "insert" /\ Kind[r] \in {"register", "callback"} /\ UNCHANGED <<users, req, mem>>
          /\ pc'[r] = "commitInsert" /\ answer'[r] = "none" /\ Undisturbed(r)
      BY <1>0, <1>1 DEF InsertUser, KindOfStep, Promise
    <2>2. Settling(r)
      BY <2>1, Calm
    <2>3. Settled(mem[r].user) => Settled(mem[r].user)'
      BY <2>1 DEF Settled
    <2>4. KindOfStep(r)' /\ Promise(r)'
      BY <1>0, <2>1, <2>3 DEF KindOfStep, Promise
    <2> QED BY <2>1, <2>2, <2>4, KeepPromises
  <1>2. CASE LockUser(r) /\ ~Raise(r)
    <2>1. /\ pc[r] = "update" /\ Kind[r] = "profile" /\ mem[r].user # None /\ UNCHANGED <<users, req, mem>>
          /\ pc'[r] = "setNick" /\ answer'[r] = "none" /\ locked'[r] = mem[r].user /\ Undisturbed(r)
      BY <1>0, <1>2 DEF LockUser, KindOfStep, Promise
    <2>2. Settling(r)
      BY <2>1, Calm
    <2>3. Settled(mem[r].user) => Settled(mem[r].user)'
      BY <2>1 DEF Settled
    <2>4. KindOfStep(r)' /\ Promise(r)'
      BY <1>0, <2>1, <2>3 DEF KindOfStep, Promise
    <2> QED BY <2>1, <2>2, <2>4, KeepPromises
  <1>3. CASE SetNick(r) /\ ~Raise(r)
    <2>0. PICK u \in UserById(locked[r]) : SetNick(r)!2!(u)
      BY <1>3 DEF SetNick
    <2>1. /\ pc[r] = "setNick" /\ Kind[r] = "profile" /\ mem[r].user # None /\ UNCHANGED <<users, locked, req, mem>>
          /\ pc'[r] = "commitNick" /\ answer'[r] = "none" /\ Undisturbed(r)
          /\ draft'[r] = [u EXCEPT !.nick = req[r].nick]
      BY <1>0, <1>3, <2>0 DEF SetNick, KindOfStep, Promise
    <2>2. draft'[r].nick = req[r].nick
      BY <1>0, <2>1 DEF UserById, Row
    <2>3. Settling(r)
      BY <2>1, Calm
    <2>4. Settled(mem[r].user) => Settled(mem[r].user)'
      BY <2>1 DEF Settled
    <2>5. KindOfStep(r)' /\ Promise(r)'
      BY <1>0, <2>1, <2>2, <2>4 DEF KindOfStep, Promise
    <2> QED BY <2>1, <2>3, <2>5, KeepPromises
  <1>4. CASE DeleteUser(r)
    <2>1. /\ pc[r] = "delete" /\ Kind[r] = "withdraw" /\ mem[r].user # None /\ UNCHANGED <<users, req, mem>>
          /\ pc'[r] = "commitDelete" /\ answer'[r] = "none" /\ Undisturbed(r)
          /\ locked'[r] = IF UserById(mem[r].user) = {} THEN None ELSE mem[r].user
      BY <1>0, <1>4 DEF DeleteUser, KindOfStep, Promise
    <2>2. Settling(r)
      BY <2>1, Calm
    <2>3. Settled(mem[r].user) => Settled(mem[r].user)'
      BY <2>1 DEF Settled
    <2>4. UserById(mem[r].user)' = UserById(mem[r].user)
      BY <2>1 DEF UserById
    <2>5. KindOfStep(r)' /\ Promise(r)'
      BY <1>0, <2>1, <2>3, <2>4 DEF KindOfStep, Promise
    <2> QED BY <2>1, <2>2, <2>5, KeepPromises
  <1> QED BY <1>a, <1>1, <1>2, <1>3, <1>4

\* The commits.
LEMMA CommittingSteps ==
    ASSUME IInv, PromiseInv, NEW r \in Requests, CommitUser(r) \/ CommitNick(r) \/ CommitDelete(r)
    PROVE  PromiseInv'
  <1>0. TypeOK /\ HandlerInv /\ KindOfStep(r) /\ Promise(r) /\ HeldInv
    BY DEF IInv, TypeInv, TableInv, PromiseInv
  <1> USE DEF Undisturbed, GoTo, Respond, TypeOK, Early, redis, EndTx
  <1>1. CASE CommitUser(r)
    <2>1. mem'[r].user = r /\ \A t \in Requests : t # r => mem'[t] = mem[t]
      BY <1>0, <1>1, UserChosen DEF CommitUser, Ids
    <2>2. /\ pc[r] = "commitInsert" /\ Kind[r] \in {"register", "callback"} /\ UNCHANGED req
          /\ pc'[r] = "reload" /\ answer'[r] = "none" /\ users' = users \cup {draft[r]} /\ draft[r].id = r
      BY <1>0, <1>1 DEF CommitUser, KindOfStep, Promise, HeldInv
    <2>3. Undisturbed(r)
      BY <1>0, <1>1, <2>1 DEF CommitUser
    <2>4. ~Settled(r)
      BY <2>2, AccountsAssumption DEF Settled
    <2>5. \A i : i # r => UserById(i)' = UserById(i)
      BY <2>2 DEF UserById
    <2>6. Settling(r)
      BY <2>2, <2>4, <2>5 DEF Settling
    <2>7. Settled(r)'
      BY <2>2 DEF Settled
    <2>8. KindOfStep(r)' /\ Promise(r)'
      BY <2>1, <2>2, <2>7 DEF KindOfStep, Promise
    <2> QED BY <2>3, <2>6, <2>8, KeepPromises
  <1>2. CASE CommitNick(r)
    <2>1. /\ pc[r] = "commitNick" /\ Kind[r] = "profile" /\ mem[r].user # None /\ UNCHANGED <<req, mem>>
          /\ pc'[r] = "reload" /\ answer'[r] = "none" /\ Undisturbed(r)
          /\ users' = (users \ UserById(locked[r])) \cup {draft[r]}
      BY <1>0, <1>2 DEF CommitNick, KindOfStep, Promise
    <2>2. locked[r] = mem[r].user /\ draft[r].id = locked[r] /\ draft[r].nick = req[r].nick
          /\ UserById(locked[r]) # {}
      BY <1>0, <2>1 DEF HeldInv, Promise
    <2>3. \A i : i # locked[r] => UserById(i)' = UserById(i)
      BY <2>1, <2>2 DEF UserById
    <2>4. UserById(mem[r].user)' = {draft[r]}
      BY <2>1, <2>2 DEF UserById
    <2>5. Settling(r)
      BY <2>1, <2>2, <2>3 DEF Settling
    <2>6. Settled(mem[r].user) => Settled(mem[r].user)'
      BY <2>1 DEF Settled
    <2>7. KindOfStep(r)' /\ Promise(r)'
      BY <1>0, <2>1, <2>2, <2>4, <2>6 DEF KindOfStep, Promise
    <2> QED BY <2>1, <2>5, <2>7, KeepPromises
  <1>3. CASE CommitDelete(r)
    <2>1. /\ pc[r] = "commitDelete" /\ Kind[r] = "withdraw" /\ mem[r].user # None /\ UNCHANGED <<req, mem>>
          /\ pc'[r] = "done" /\ answer'[r] = "ok" /\ Undisturbed(r)
          /\ users' = users \ UserById(locked[r])
      BY <1>0, <1>3 DEF CommitDelete, KindOfStep, Promise
    <2>2. \A i : UserById(i)' \subseteq UserById(i)
      BY <2>1 DEF UserById
    <2>3. UserById(mem[r].user)' = {}
      BY <1>0, <2>1 DEF UserById, Promise
    <2>4. Settling(r)
      BY <2>1, <2>2 DEF Settling
    <2>5. Settled(mem[r].user) => Settled(mem[r].user)'
      BY <2>1 DEF Settled
    <2>6. KindOfStep(r)' /\ Promise(r)'
      BY <1>0, <2>1, <2>3, <2>5 DEF KindOfStep, Promise
    <2> QED BY <2>1, <2>4, <2>6, KeepPromises
  <1> QED BY <1>1, <1>2, <1>3

LEMMA PromiseStep == IInv /\ PromiseInv /\ [Next]_vars => PromiseInv'
  <1> SUFFICES ASSUME IInv, PromiseInv, [Next]_vars PROVE PromiseInv'
    OBVIOUS
  <1>1. ASSUME NEW r \in Requests, Arrive(r) PROVE PromiseInv'
    BY <1>1, PlainSteps, ChoosingSteps DEF Arrive
  <1>2. ASSUME NEW r \in Requests, BreakDeadlock(r) PROVE PromiseInv'
    <2>1. WaitsFor(r) # {} /\ Raise(r)
      BY <1>2 DEF BreakDeadlock
    <2>2. pc[r] # "idle"
      BY <2>1 DEF WaitsFor
    <2> QED BY <2>1, <2>2, RaiseKeepsPromises
  <1>3. ASSUME NEW r \in Requests, Serve(r) PROVE PromiseInv'
    BY <1>2, <1>3, PlainSteps, ChoosingSteps, WritingSteps, CommittingSteps DEF Serve
  <1>4. ASSUME NEW r \in Requests, Die(r) PROVE PromiseInv'
    BY <1>4, RaiseKeepsPromises DEF Die, InFlight
  <1>5. CASE Expire \/ UNCHANGED vars
    <2>1. UNCHANGED <<users, locked, draft, pc, req, mem, answer>>
      BY <1>5 DEF Expire, tables, vars
    <2> QED BY <2>1 DEF PromiseInv, Promise, KindOfStep, Settled, Alone, UserById
  <1> QED BY <1>1, <1>3, <1>4, <1>5 DEF Next, Terminating

LEMMA InitiallyPromised == Init => PromiseInv
  BY DEF Init, PromiseInv, Promise, KindOfStep, NoMemory

\* What a request was told holds: a saved nickname stays until another renaming
\* or the withdrawal, a withdrawn account does not come back, and a refused
\* sign-up leaves no row, for any number of requests of any account:
\* auth_service.py, user_service.py.
THEOREM AnswersStayTrue == Spec => []AnswersHold
  <1>1. IInv /\ PromiseInv => AnswersHold
    BY DEF PromiseInv, Promise, Alone, AnswersHold
  <1>2. Init => IInv /\ PromiseInv
    BY Initially, InitiallyPromised
  <1>3. IInv /\ PromiseInv /\ [Next]_vars => IInv' /\ PromiseInv'
    BY Inductive, PromiseStep
  <1> QED BY <1>1, <1>2, <1>3, PTL DEF Spec
----------------------------------------------------------------------------
(* Addresses.  A code that is stored was sent, a marker that is stored was  *)
(* set by somebody who entered such a code, and a sign-up goes on only with *)
(* the marker it found.                                                     *)

Sent(e, c) == \E s \in Requests : Kind[s] = "send" /\ req[s].email = e /\ req[s].code = c
Confirmed(e) == \E c \in Confirmers(e) : pc[c] = "done" /\ Sent(e, req[c].code)
Known(e) == e \in Proved \/ Confirmed(e)

\* A sign-up whose address was verified, and one that has used its marker up.
Opening(r) == Kind[r] = "register" /\ pc[r] \in {"insert", "commitInsert", "reload", "unmark"}
Spending(r) == Kind[r] = "register" /\ (pc[r] = "issue" \/ answer[r] = "ok")

EvidenceInv ==
    /\ \A r \in Requests : pc[r] = "idle" => req[r].email = None
    /\ \A r \in Requests : pc[r] = "touch" => Kind[r] = "callback"
    /\ \A r \in Requests : pc[r] = "commitInsert" =>
          \/ Kind[r] = "register" /\ draft[r].email = req[r].email
          \/ Kind[r] = "callback" /\ draft[r].identity \in Identities
    /\ \A e \in Emails : code[e] # None => Sent(e, code[e])
    /\ \A r \in Requests : pc[r] \in {"takeCode", "mark"} => Sent(req[r].email, req[r].code)
    /\ \A e \in verified : Known(e)
    /\ \A r \in Requests : Opening(r) \/ Spending(r) => req[r].email \in Emails /\ Known(req[r].email)
    /\ \A r \in Requests : Spending(r) /\ req[r].email \notin Proved =>
          ((\A c, d \in Confirmers(req[r].email) : c = d) => req[r].email \notin verified)

AllInv == IInv /\ PromiseInv /\ EvidenceInv

\* A request that arrives reads, and goes on or is refused.
Came(r) ==
    /\ pc[r] = "idle" /\ UNCHANGED <<users, draft, code, verified>>
    /\ \A q \in Requests : q # r => pc'[q] = pc[q] /\ req'[q] = req[q] /\ answer'[q] = answer[q]
    /\ answer'[r] # "ok"
    /\ pc'[r] \in {"storeCode", "takeCode", "findEmail", "touch", "tryNick", "linkEmail", "reload",
                   "update", "delete", "done"}
    /\ pc'[r] = "touch" => Kind[r] = "callback"
    /\ pc'[r] = "reload" => Kind[r] = "profile"
    /\ pc'[r] = "takeCode" =>
          req'[r].email \in Emails /\ req'[r].code # None /\ code[req'[r].email] = req'[r].code

\* What the steps of a handler have in common.
Moved(r) ==
    /\ InFlight(r) /\ pc'[r] # "idle" /\ req' = req
    /\ \A q \in Requests : q # r => pc'[q] = pc[q] /\ answer'[q] = answer[q] /\ draft'[q] = draft[q]

\* Which step comes before which in a sign-up.
Path(r) ==
    /\ pc'[r] = "mark" => pc[r] = "takeCode"
    /\ pc'[r] # "takeCode"
    /\ pc'[r] = "touch" => pc[r] = "linkEmail"
    /\ pc'[r] = "insert" /\ Kind[r] = "register" => pc[r] = "readMarker" /\ req[r].email \in verified
    /\ pc'[r] = "commitInsert" => pc[r] = "insert" /\ draft'[r] = NewRow(r)
    /\ pc'[r] = "reload" /\ Kind[r] = "register" => pc[r] = "commitInsert"
    /\ pc'[r] = "unmark" => pc[r] = "reload"
    /\ pc'[r] = "issue" /\ Kind[r] = "register" => UnmarkVerified(r)
    /\ answer'[r] = "ok" /\ Kind[r] = "register" => pc[r] = "issue"

LEMMA CameStep ==
    ASSUME AllInv, NEW r \in Requests, Arrive(r)
    PROVE  Came(r)
  <1>0. TypeOK /\ answer[r] # "ok"
    <2>1. pc[r] = "idle"
      BY DEF Arrive, SendCode, ConfirmCode, Register, Callback, UpdateProfile, Withdraw, Receive
    <2> QED BY <2>1 DEF AllInv, IInv, TypeInv, PromiseInv, Promise
  <1> USE <1>0 DEF GoTo, Respond, Receive, TypeOK, tables, redis, Came
  <1>1. CASE SendCode(r)
    BY <1>1 DEF SendCode
  <1>2. CASE ConfirmCode(r)
    <2>1. PICK e \in Emails, c \in Codes : ConfirmCode(r)!(e, c)
      BY <1>2 DEF ConfirmCode
    <2>2. /\ [NoRequest EXCEPT !.email = e, !.code = c].email = e
          /\ [NoRequest EXCEPT !.email = e, !.code = c].code = c
      BY DEF NoRequest
    <2>3. req'[r].email = e /\ req'[r].code = c /\ c # None
      BY <2>1, <2>2, AccountsAssumption
    <2> QED BY <2>1, <2>3 DEF CodeMatches
  <1>3. CASE Register(r)
    BY <1>3 DEF Register
  <1>4. CASE Callback(r)
    <2>1. PICK who \in Identities, e \in Emails \cup {None}, n \in DOMAIN Candidate : Callback(r)!(who, e, n)
      BY <1>4 DEF Callback
    <2>2. /\ pc[r] = "idle" /\ Kind[r] = "callback" /\ UNCHANGED <<tables, redis>>
          /\ \E x : req' = [req EXCEPT ![r] = x]
          /\ GoTo(r, "touch") \/ GoTo(r, "tryNick") \/ GoTo(r, "linkEmail") \/ Respond(r, "invalid")
      BY <2>1
    <2> QED BY <2>2
  <1>5. CASE UpdateProfile(r)
    BY <1>5 DEF UpdateProfile
  <1>6. CASE Withdraw(r)
    BY <1>6 DEF Withdraw
  <1> QED BY <1>1, <1>2, <1>3, <1>4, <1>5, <1>6 DEF Arrive

LEMMA RaiseMoves ==
    ASSUME AllInv, NEW r \in Requests, InFlight(r), Raise(r)
    PROVE  Moved(r) /\ Path(r)
  BY DEF AllInv, IInv, TypeInv, TypeOK, Raise, EndTx, Respond, Moved, Path

LEMMA MovedStep ==
    ASSUME AllInv, NEW r \in Requests, Serve(r) \/ Die(r)
    PROVE  Moved(r) /\ Path(r)
  <1>0. TypeOK /\ KindOfStep(r) /\ (pc[r] # "done" => answer[r] = "none") /\ (pc[r] = "touch" => Kind[r] = "callback")
    BY DEF AllInv, IInv, TypeInv, PromiseInv, Promise, EvidenceInv
  <1>r. CASE InFlight(r) /\ Raise(r)
    BY <1>r, RaiseMoves
  <1>1. CASE StoreCode(r) /\ ~Raise(r)
    BY <1>0, <1>1 DEF StoreCode, KindOfStep, GoTo, Respond, TypeOK, InFlight, tables, redis, Moved, Path
  <1>2. CASE MailCode(r) /\ ~Raise(r)
    BY <1>0, <1>2 DEF MailCode, KindOfStep, GoTo, Respond, TypeOK, InFlight, tables, redis, Moved, Path
  <1>3. CASE TakeCode(r) /\ ~Raise(r)
    BY <1>0, <1>3 DEF TakeCode, KindOfStep, GoTo, Respond, TypeOK, InFlight, tables, redis, Moved, Path
  <1>4. CASE MarkVerified(r) /\ ~Raise(r)
    BY <1>0, <1>4 DEF MarkVerified, KindOfStep, GoTo, Respond, TypeOK, InFlight, tables, redis, Moved, Path
  <1>5. CASE FindEmail(r) /\ ~Raise(r)
    BY <1>0, <1>5 DEF FindEmail, KindOfStep, GoTo, Respond, TypeOK, InFlight, tables, redis, Moved, Path
  <1>6. CASE ReadMarker(r) /\ ~Raise(r)
    BY <1>0, <1>6 DEF ReadMarker, KindOfStep, GoTo, Respond, TypeOK, InFlight, tables, redis, Moved, Path
  <1>7. CASE InsertUser(r) /\ ~Raise(r)
    BY <1>0, <1>7 DEF InsertUser, KindOfStep, GoTo, Respond, TypeOK, InFlight, tables, redis, Moved, Path
  <1>8. CASE CommitUser(r) /\ ~Raise(r)
    BY <1>0, <1>8 DEF CommitUser, KindOfStep, GoTo, Respond, TypeOK, InFlight, tables, redis, Moved, Path, EndTx
  <1>9. CASE ReloadUser(r) /\ ~Raise(r)
    BY <1>0, <1>9 DEF ReloadUser, KindOfStep, GoTo, Respond, TypeOK, InFlight, tables, redis, Moved, Path
  <1>10. CASE UnmarkVerified(r) /\ ~Raise(r)
    BY <1>0, <1>10 DEF UnmarkVerified, KindOfStep, GoTo, Respond, TypeOK, InFlight, tables, redis, Moved, Path
  <1>11. CASE IssueTokens(r) /\ ~Raise(r)
    BY <1>0, <1>11 DEF IssueTokens, KindOfStep, GoTo, Respond, TypeOK, InFlight, tables, redis, Moved, Path
  <1>12. CASE LinkEmail(r) /\ ~Raise(r)
    BY <1>0, <1>12 DEF LinkEmail, KindOfStep, GoTo, Respond, TypeOK, InFlight, tables, redis, Moved, Path
  <1>13. CASE TryNick(r) /\ ~Raise(r)
    <2>1. /\ pc[r] = "tryNick" /\ UNCHANGED <<tables, req>>
          /\ GoTo(r, "insert") \/ UNCHANGED <<pc, answer>>
      BY <1>13 DEF TryNick
    <2>2. Kind[r] = "callback"
      BY <2>1 DEF AllInv, IInv, TypeInv, HandlerInv
    <2> QED BY <1>0, <2>1, <2>2 DEF GoTo, TypeOK, InFlight, tables, Moved, Path
  <1>14. CASE TouchUser(r) /\ ~Raise(r)
    BY <1>0, <1>14 DEF TouchUser, KindOfStep, GoTo, Respond, TypeOK, InFlight, tables, redis, Moved, Path
  <1>15. CASE LockUser(r) /\ ~Raise(r)
    BY <1>0, <1>15 DEF LockUser, KindOfStep, GoTo, Respond, TypeOK, InFlight, tables, redis, Moved, Path
  <1>16. CASE SetNick(r) /\ ~Raise(r)
    BY <1>0, <1>16 DEF SetNick, KindOfStep, GoTo, Respond, TypeOK, InFlight, tables, redis, Moved, Path
  <1>17. CASE CommitNick(r) /\ ~Raise(r)
    BY <1>0, <1>17 DEF CommitNick, KindOfStep, GoTo, Respond, TypeOK, InFlight, tables, redis, Moved, Path, EndTx
  <1>18. CASE DeleteUser(r) /\ ~Raise(r)
    BY <1>0, <1>18 DEF DeleteUser, KindOfStep, GoTo, Respond, TypeOK, InFlight, tables, redis, Moved, Path
  <1>19. CASE CommitDelete(r) /\ ~Raise(r)
    BY <1>0, <1>19 DEF CommitDelete, KindOfStep, GoTo, Respond, TypeOK, InFlight, tables, redis, Moved, Path, EndTx
  <1>20. ASSUME Raise(r), Serve(r) \/ Die(r) PROVE InFlight(r)
    BY <1>20 DEF InFlight, Die, Serve, StoreCode, MailCode, TakeCode, MarkVerified, FindEmail, ReadMarker, InsertUser, CommitUser, ReloadUser, UnmarkVerified, IssueTokens, LinkEmail, TryNick, TouchUser, LockUser, SetNick, CommitNick, DeleteUser, CommitDelete, BreakDeadlock, WaitsFor
  <1> QED BY <1>r, <1>1, <1>2, <1>3, <1>4, <1>5, <1>6, <1>7, <1>8, <1>9, <1>10, <1>11, <1>12, <1>13, <1>14, <1>15, <1>16, <1>17, <1>18, <1>19, <1>20 DEF Serve, Die, BreakDeadlock

LEMMA KindsOfStep ==
    ASSUME AllInv, [Next]_vars
    PROVE  \/ \E r \in Requests : Came(r) \/ (Moved(r) /\ Path(r))
           \/ Expire
           \/ UNCHANGED vars
  BY CameStep, MovedStep DEF Next, Terminating

LEMMA Kept ==
    ASSUME AllInv, [Next]_vars, NEW q \in Requests
    PROVE  /\ pc[q] # "idle" => pc'[q] # "idle" /\ req'[q] = req[q]
           /\ pc[q] = "done" => pc'[q] = "done" /\ answer'[q] = answer[q]
  BY KindsOfStep DEF Came, Moved, InFlight, Expire, vars

LEMMA NamedStays ==
    ASSUME AllInv, [Next]_vars, NEW q \in Requests, req[q].email \in Emails
    PROVE  req'[q] = req[q]
  BY Kept, AccountsAssumption DEF AllInv, EvidenceInv

LEMMA SentStays ==
    ASSUME AllInv, [Next]_vars, NEW e \in Emails, NEW c, Sent(e, c)
    PROVE  Sent(e, c)'
  <1>1. PICK q \in Requests : Kind[q] = "send" /\ req[q].email = e /\ req[q].code = c
    BY DEF Sent
  <1>2. req'[q] = req[q]
    BY <1>1, NamedStays
  <1> QED BY <1>1, <1>2 DEF Sent

LEMMA ConfirmersGrow ==
    ASSUME AllInv, [Next]_vars, NEW e \in Emails
    PROVE  Confirmers(e) \subseteq Confirmers(e)'
  BY NamedStays DEF Confirmers

LEMMA KnownStays ==
    ASSUME AllInv, [Next]_vars, NEW e \in Emails, Known(e)
    PROVE  Known(e)'
  <1>1. ASSUME NEW c \in Confirmers(e), pc[c] = "done", Sent(e, req[c].code) PROVE Confirmed(e)'
    <2>1. c \in Requests /\ c \in Confirmers(e)' /\ req'[c] = req[c] /\ pc'[c] = "done"
      BY <1>1, ConfirmersGrow, NamedStays, Kept DEF Confirmers
    <2>2. Sent(e, req[c].code)'
      BY <1>1, <2>1, SentStays DEF Sent
    <2> QED BY <2>1, <2>2 DEF Confirmed
  <1> QED BY <1>1 DEF Known, Confirmed

LEMMA CodesStored ==
    ASSUME AllInv, [Next]_vars, NEW e \in Emails, code'[e] # None, code'[e] # code[e]
    PROVE  \E r \in Requests : Kind[r] = "send" /\ req[r].email = e /\ code'[e] = req[r].code
  <1>0. code \in [Emails -> Codes \cup {None}]
    BY DEF AllInv, IInv, TypeInv, TypeOK
  <1>1. ASSUME NEW r \in Requests, Serve(r) \/ Die(r), ~StoreCode(r), ~TakeCode(r) PROVE code' = code
    BY <1>1 DEF redis, Serve, Die, Raise, BreakDeadlock, MailCode, MarkVerified, FindEmail, ReadMarker, InsertUser, CommitUser,
                ReloadUser, UnmarkVerified, IssueTokens, LinkEmail, TryNick, TouchUser,
                LockUser, SetNick, CommitNick, DeleteUser, CommitDelete
  <1>2. ASSUME NEW r \in Requests, TakeCode(r) PROVE FALSE
    BY <1>0, <1>2 DEF TakeCode
  <1>3. ASSUME NEW r \in Requests, StoreCode(r)
        PROVE  Kind[r] = "send" /\ req[r].email = e /\ code'[e] = req[r].code
    BY <1>0, <1>3 DEF StoreCode, AllInv, PromiseInv, KindOfStep
  <1>4. ~Expire
    BY <1>0 DEF Expire
  <1>5. ~UNCHANGED vars
    BY DEF vars
  <1> QED BY <1>1, <1>2, <1>3, <1>4, <1>5, CameStep DEF Next, Terminating, Came

LEMMA MarkersStored ==
    ASSUME AllInv, [Next]_vars, NEW e \in verified', e \notin verified
    PROVE  \E r \in Requests : MarkVerified(r) /\ req[r].email = e
  <1>1. ASSUME NEW r \in Requests, Serve(r) \/ Die(r), ~MarkVerified(r), ~UnmarkVerified(r)
        PROVE  verified' = verified
    BY <1>1 DEF redis, Serve, Die, Raise, BreakDeadlock, StoreCode, MailCode, TakeCode, FindEmail, ReadMarker, InsertUser, CommitUser,
                ReloadUser, IssueTokens, LinkEmail, TryNick, TouchUser, LockUser, SetNick,
                CommitNick, DeleteUser, CommitDelete
  <1>2. ASSUME NEW r \in Requests, MarkVerified(r) PROVE req[r].email = e
    BY <1>2 DEF MarkVerified
  <1>3. ASSUME NEW r \in Requests, UnmarkVerified(r) PROVE FALSE
    BY <1>3 DEF UnmarkVerified
  <1>4. ~Expire
    BY DEF Expire
  <1>5. ~UNCHANGED vars
    BY DEF vars
  <1> QED BY <1>1, <1>2, <1>3, <1>4, <1>5, CameStep DEF Next, Terminating, Came

\* An account appears by the commit of a sign-up or of a first social login.
LEMMA AccountsOpened ==
    ASSUME AllInv, [Next]_vars, NEW a \in users', a \notin users, \A u \in users : u.id # a.id
    PROVE  \E r \in Requests : pc[r] = "commitInsert" /\ a = draft[r]
  <1>1. ASSUME NEW r \in Requests, Serve(r) \/ Die(r), ~CommitUser(r), ~CommitNick(r), ~CommitDelete(r)
        PROVE  users' = users
    BY <1>1 DEF tables, redis, Serve, Die, Raise, BreakDeadlock, StoreCode, MailCode, TakeCode, MarkVerified, FindEmail, ReadMarker, InsertUser,
                ReloadUser, UnmarkVerified, IssueTokens, LinkEmail, TryNick, TouchUser,
                LockUser, SetNick, DeleteUser
  <1>2. ASSUME NEW r \in Requests, CommitUser(r) PROVE pc[r] = "commitInsert" /\ a = draft[r]
    BY <1>2 DEF CommitUser
  <1>3. ASSUME NEW r \in Requests, CommitNick(r) PROVE FALSE
    <2>1. a = draft[r] /\ draft[r].id = locked[r] /\ UserById(locked[r]) # {}
      BY <1>3 DEF CommitNick, AllInv, IInv, TableInv, HeldInv
    <2> QED BY <2>1 DEF UserById
  <1>4. ASSUME NEW r \in Requests, CommitDelete(r) PROVE FALSE
    BY <1>4 DEF CommitDelete
  <1>5. ~Expire /\ ~UNCHANGED vars
    BY DEF Expire, vars, tables
  <1> QED BY <1>1, <1>2, <1>3, <1>4, <1>5, CameStep DEF Next, Terminating, Came

\* The step of q itself, or what another step leaves of it.
LEMMA OwnStep ==
    ASSUME AllInv, [Next]_vars, NEW q \in Requests
    PROVE  \/ pc'[q] = pc[q] /\ answer'[q] = answer[q] /\ req'[q] = req[q] /\ draft'[q] = draft[q]
           \/ Came(q)
           \/ Moved(q) /\ Path(q)
  <1>1. ASSUME NEW r \in Requests, Came(r), r # q
        PROVE  pc'[q] = pc[q] /\ answer'[q] = answer[q] /\ req'[q] = req[q] /\ draft'[q] = draft[q]
    BY <1>1 DEF Came
  <1>2. ASSUME NEW r \in Requests, Moved(r), r # q
        PROVE  pc'[q] = pc[q] /\ answer'[q] = answer[q] /\ req'[q] = req[q] /\ draft'[q] = draft[q]
    BY <1>2 DEF Moved
  <1>3. CASE Expire \/ UNCHANGED vars
    BY <1>3 DEF Expire, vars, tables
  <1> QED BY <1>1, <1>2, <1>3, KindsOfStep

LEMMA RowStep ==
    ASSUME AllInv, [Next]_vars, NEW q \in Requests, pc'[q] = "commitInsert"
    PROVE  \/ Kind[q] = "register" /\ draft'[q].email = req'[q].email
           \/ Kind[q] = "callback" /\ draft'[q].identity \in Identities
  <1>1. CASE Moved(q) /\ Path(q)
    <2>1. pc[q] = "insert" /\ draft'[q] = NewRow(q) /\ req' = req
      BY <1>1 DEF Moved, Path
    <2>2. \/ Kind[q] = "register"
          \/ Kind[q] = "callback" /\ req[q].identity \in Identities
      BY <2>1 DEF AllInv, IInv, TypeInv, HandlerInv
    <2> QED BY <2>1, <2>2 DEF NewRow
  <1>2. ~Came(q)
    BY DEF Came
  <1> QED BY <1>1, <1>2, OwnStep DEF AllInv, EvidenceInv

LEMMA ConfirmerStep ==
    ASSUME AllInv, [Next]_vars, NEW q \in Requests, pc'[q] \in {"takeCode", "mark"}
    PROVE  Sent(req[q].email, req[q].code)'
  <1>1. CASE pc[q] \in {"takeCode", "mark"}
    <2>1. req'[q] = req[q] /\ req[q].email \in Emails /\ Sent(req[q].email, req[q].code)
      BY <1>1, Kept DEF AllInv, EvidenceInv, IInv, TypeInv, HandlerInv
    <2>2. PICK e \in Emails : e = req[q].email
      BY <2>1
    <2>3. PICK c : c = req[q].code
      OBVIOUS
    <2>4. Sent(e, c)'
      BY <2>1, <2>2, <2>3, SentStays
    <2> QED BY <2>1, <2>2, <2>3, <2>4 DEF Sent
  <1>2. CASE Came(q)
    <2>1. code[req'[q].email] = req'[q].code /\ req'[q].code # None /\ req'[q].email \in Emails
      BY <1>2 DEF Came
    <2>2. PICK e \in Emails : e = req'[q].email
      BY <2>1
    <2>3. PICK c : c = req'[q].code
      OBVIOUS
    <2>4. Sent(e, c)
      BY <2>1, <2>2, <2>3 DEF AllInv, EvidenceInv
    <2>5. Sent(e, c)'
      BY <2>4, SentStays
    <2> QED BY <2>2, <2>3, <2>5 DEF Sent
  <1>3. ASSUME Moved(q), Path(q) PROVE pc[q] \in {"takeCode", "mark"}
    BY <1>3 DEF Path
  <1> QED BY <1>1, <1>2, <1>3, OwnStep

LEMMA MarkerStep ==
    ASSUME AllInv, [Next]_vars, NEW e \in verified'
    PROVE  Known(e)'
  <1>0. e \in Emails
    BY TypeStep DEF AllInv, IInv, TableInv, TypeInv, TypeOK
  <1>1. CASE e \in verified
    BY <1>0, <1>1, KnownStays DEF AllInv, EvidenceInv
  <1>2. ASSUME NEW r \in Requests, MarkVerified(r), req[r].email = e PROVE Known(e)'
    <2>1. Kind[r] = "confirm" /\ Sent(e, req[r].code) /\ pc[r] = "mark"
      BY <1>2 DEF MarkVerified, AllInv, PromiseInv, KindOfStep, EvidenceInv
    <2>2. pc'[r] = "done" /\ req'[r] = req[r]
      BY <1>2 DEF MarkVerified, Respond, AllInv, IInv, TypeInv, TypeOK
    <2>3. r \in Confirmers(e)'
      BY <1>2, <2>1, <2>2 DEF Confirmers
    <2>4. Sent(e, req[r].code)'
      BY <1>0, <2>1, <2>2, SentStays DEF Sent
    <2> QED BY <2>2, <2>3, <2>4 DEF Known, Confirmed
  <1> QED BY <1>1, <1>2, MarkersStored

\* A sign-up goes on only with the marker it found.
LEMMA OpenerStep ==
    ASSUME AllInv, [Next]_vars, NEW q \in Requests, Opening(q)' \/ Spending(q)'
    PROVE  req'[q].email \in Emails /\ Known(req[q].email)'
  <1>1. ASSUME req[q].email \in Emails, Known(req[q].email), pc[q] # "idle"
        PROVE  req'[q].email \in Emails /\ Known(req[q].email)'
    <2>1. PICK e \in Emails : e = req[q].email
      BY <1>1
    <2>2. req'[q] = req[q] /\ Known(e)'
      BY <1>1, <2>1, Kept, KnownStays
    <2> QED BY <2>1, <2>2 DEF Known, Confirmed, Confirmers
  <1>2. CASE Opening(q) \/ Spending(q)
    <2>1. pc[q] # "idle"
      BY <1>2 DEF Opening, Spending, AllInv, PromiseInv, Promise
    <2> QED BY <1>1, <1>2, <2>1 DEF AllInv, EvidenceInv
  <1>3. CASE pc[q] = "readMarker" /\ req[q].email \in verified
    BY <1>1, <1>3 DEF AllInv, EvidenceInv, IInv, TypeInv, TypeOK
  <1>4. ~Came(q)
    BY DEF Came, Opening, Spending
  <1>5. ASSUME Moved(q), Path(q)
        PROVE  Opening(q) \/ Spending(q) \/ (pc[q] = "readMarker" /\ req[q].email \in verified)
    BY <1>5 DEF Path, Opening, Spending, UnmarkVerified
  <1>6. CASE pc'[q] = pc[q] /\ answer'[q] = answer[q]
    BY <1>2, <1>6 DEF Opening, Spending
  <1> QED BY <1>2, <1>3, <1>4, <1>5, <1>6, OwnStep

\* A marker that a sign-up has used up returns only with another confirmation.
LEMMA SpentStep ==
    ASSUME AllInv, [Next]_vars, NEW q \in Requests, Spending(q)', req'[q].email \notin Proved,
           \A c, d \in Confirmers(req'[q].email) : c = d
    PROVE  req'[q].email \notin verified'
  <1>1. CASE Spending(q)
    <2>1. pc[q] # "idle"
      BY <1>1 DEF Spending, AllInv, PromiseInv, Promise
    <2>2. req'[q] = req[q] /\ req[q].email \notin verified /\ Known(req[q].email)
      BY <1>1, <2>1, Kept DEF AllInv, EvidenceInv
    <2>3. PICK c \in Confirmers(req[q].email) : pc[c] = "done"
      BY <2>2 DEF Known, Confirmed
    <2>4. ASSUME NEW r \in Requests, MarkVerified(r), req[r].email = req[q].email PROVE FALSE
      <3>1. r \in Confirmers(req[q].email) /\ pc[r] = "mark"
        BY <2>4 DEF MarkVerified, Confirmers, AllInv, PromiseInv, KindOfStep
      <3> QED BY <2>2, <2>3, <3>1
    <2> QED BY <2>2, <2>4, MarkersStored
  <1>2. CASE UnmarkVerified(q)
    BY <1>2 DEF UnmarkVerified
  <1>3. CASE pc'[q] = pc[q] /\ answer'[q] = answer[q]
    BY <1>1, <1>3 DEF Spending
  <1>4. ~Came(q)
    BY DEF Came, Spending
  <1>5. ASSUME Moved(q), Path(q) PROVE Spending(q) \/ UnmarkVerified(q)
    BY <1>5 DEF Path, Spending
  <1> QED BY <1>1, <1>2, <1>3, <1>4, <1>5, OwnStep

LEMMA EvidenceStep == AllInv /\ [Next]_vars => EvidenceInv'
  <1> SUFFICES ASSUME AllInv, [Next]_vars PROVE EvidenceInv'
    OBVIOUS
  <1>1. ASSUME NEW q \in Requests, pc'[q] = "idle" PROVE req'[q].email = None
    BY <1>1, OwnStep DEF Came, Moved, AllInv, EvidenceInv
  <1>2. ASSUME NEW q \in Requests, pc'[q] = "touch" PROVE Kind[q] = "callback"
    BY <1>2, OwnStep DEF Came, Path, AllInv, EvidenceInv, IInv, TypeInv, HandlerInv
  <1>3. ASSUME NEW e \in Emails, code'[e] # None PROVE Sent(e, code[e])'
    <2>1. CASE code'[e] = code[e]
      <3>1. PICK c : c = code[e]
        OBVIOUS
      <3>2. Sent(e, c)'
        BY <1>3, <2>1, <3>1, SentStays DEF AllInv, EvidenceInv
      <3> QED BY <2>1, <3>1, <3>2 DEF Sent
    <2>2. CASE code'[e] # code[e]
      <3>1. PICK r \in Requests : Kind[r] = "send" /\ req[r].email = e /\ code'[e] = req[r].code
        BY <1>3, <2>2, CodesStored
      <3>2. req'[r] = req[r]
        BY <3>1, NamedStays
      <3> QED BY <3>1, <3>2 DEF Sent
    <2> QED BY <2>1, <2>2
  <1>4. ASSUME NEW q \in Requests, Spending(q)', req'[q].email \notin Proved,
               \A c, d \in Confirmers(req[q].email)' : c = d
        PROVE  req'[q].email \notin verified'
    <2>1. PICK e \in Emails : e = req'[q].email
      BY <1>4, OpenerStep
    <2>2. Confirmers(e) \subseteq Confirmers(e)' /\ Confirmers(e)' = Confirmers(req[q].email)'
      BY <2>1, ConfirmersGrow DEF Confirmers
    <2>3. \A c, d \in Confirmers(req'[q].email) : c = d
      BY <1>4, <2>1, <2>2
    <2> QED BY <1>4, <2>3, SpentStep
  <1> QED BY <1>1, <1>2, <1>3, <1>4, RowStep, ConfirmerStep, MarkerStep, OpenerStep DEF EvidenceInv

\* A local account appears only for an address that was confirmed with a code
\* sent to it, or earlier, and a sign-up that succeeds has used its marker up:
\* auth_service.py, register and confirm_email_verification.
THEOREM AddressesProved == Spec => AddressProved
  <1> DEFINE A == \A a \in users' \ users : a.identity \in Emails /\ (\A u \in users : u.id # a.id) =>
                    \/ a.email \in Proved
                    \/ \E s, c \in Requests :
                         /\ Kind[s] = "send" /\ req[s].email = a.email
                         /\ Kind[c] = "confirm" /\ req[c].email = a.email
                         /\ req[c].code = req[s].code
             B == \A r \in Requests :
                    /\ Kind[r] = "register" /\ answer'[r] = "ok" /\ req[r].email \notin Proved
                    /\ \A c, d \in Confirmers(req[r].email) : c = d
                    => req[r].email \notin verified'
  <1>1. Init => EvidenceInv
    BY AccountsAssumption DEF Init, EvidenceInv, NoRequest, Known, Opening, Spending
  <1>2. Spec => []AllInv
    <2>1. Init => AllInv
      BY <1>1, Initially, InitiallyPromised DEF AllInv
    <2>2. AllInv /\ [Next]_vars => AllInv'
      BY Inductive, PromiseStep, EvidenceStep DEF AllInv
    <2> QED BY <2>1, <2>2, PTL DEF Spec
  <1>3. ASSUME AllInv, [Next]_vars PROVE A
    <2> SUFFICES ASSUME NEW a \in users' \ users, a.identity \in Emails, \A u \in users : u.id # a.id
                 PROVE  \/ a.email \in Proved
                        \/ \E s, c \in Requests :
                             /\ Kind[s] = "send" /\ req[s].email = a.email
                             /\ Kind[c] = "confirm" /\ req[c].email = a.email
                             /\ req[c].code = req[s].code
      OBVIOUS
    <2>1. PICK r \in Requests : pc[r] = "commitInsert" /\ a = draft[r]
      BY <1>3, AccountsOpened
    <2>2. Kind[r] = "register" /\ a.email = req[r].email
      BY <1>3, <2>1, IdentitiesAssumption DEF AllInv, EvidenceInv
    <2>3. Known(a.email)
      BY <1>3, <2>1, <2>2 DEF AllInv, EvidenceInv, Opening
    <2> QED BY <2>3 DEF Known, Confirmed, Sent, Confirmers
  <1>4. ASSUME AllInv, [Next]_vars PROVE B
    <2> SUFFICES ASSUME NEW r \in Requests, Kind[r] = "register", answer'[r] = "ok", req[r].email \notin Proved,
                        \A c, d \in Confirmers(req[r].email) : c = d
                 PROVE  req[r].email \notin verified'
      OBVIOUS
    <2>1. Spending(r)'
      BY DEF Spending
    <2>2. req'[r] = req[r]
      BY <1>4, OwnStep DEF Came, Moved
    <2> QED BY <1>4, <2>1, <2>2, SpentStep
  <1> QED BY <1>2, <1>3, <1>4, PTL DEF Spec, AddressProved
=============================================================================
