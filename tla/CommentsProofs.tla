--------------------------- MODULE CommentsProofs ---------------------------
(***************************************************************************)
(* Proofs about Comments, for any accounts, questions, tables and          *)
(* requests.                                                               *)
(*                                                                         *)
(* That no row is orphaned and that only owners change a row both rest on  *)
(* the row locks: ClaimInv says what a handler has checked of the rows it  *)
(* has locked, and that it still holds because locks are exclusive.  So    *)
(* does LikeInv, for what set_like found and every answered like.  CalmInv *)
(* says that without withdrawals a request locks only below the comment it *)
(* holds, so that a request that holds a row never waits.                  *)
(***************************************************************************)
EXTENDS Comments, TLAPS

KindsAt(step) ==
    CASE step = "comment" -> OnComment
      [] step = "reply" -> OnReply
      [] step = "insert" -> {"create", "reply"}
      [] step = "write" -> {"edit", "editReply"}
      [] step \in {"like", "save"} -> {"like", "unlike"}
      [] step = "account" -> {"withdraw"}
      [] step = "remove" -> {"delete", "deleteReply", "withdraw"}
      [] step \in {"list", "authors", "replies", "replyAuthors"} -> {"list"}
      [] OTHER -> Kinds

\* What the router has established of the request a handler serves.
HandlerOK ==
    \A r \in Requests : pc[r] # "idle" => req[r] \in Sends[r] /\ req[r].kind \in KindsAt(pc[r])

TypeInv == TypeOK /\ HandlerOK

Exclusive == \A r, o \in Requests : r # o => locks[r] \cap locks[o] = {}

\* A handler past get_comment has locked a comment that exists, its user's own
\* where it matters; past get_reply, a reply of its user; a withdrawal past
\* LockAccount, an account.
HasComment(r) ==
    /\ req[r].comment \in locks[r] /\ IsComment(post, req[r].comment)
    /\ req[r].kind \in {"edit", "delete"} => post[req[r].comment].author = req[r].user
HasReply(r) ==
    /\ req[r].reply \in locks[r] /\ IsReply(post, req[r].reply)
    /\ post[req[r].reply].author = req[r].user
Claims(r) ==
    /\ pc[r] \in {"reply", "insert", "write", "like", "save", "remove"} /\ req[r].kind \in OnComment
         => HasComment(r)
    /\ pc[r] \in {"write", "remove"} /\ req[r].kind \in OnReply => HasReply(r)

\* A request that has not been answered has inserted nothing.
Fresh(r) == pc[r] # "done" => post[r] = None /\ answer[r] = "none"

ClaimInv == Exclusive /\ \A r \in Requests : Claims(r) /\ Fresh(r)

IntegrityInv == TypeInv /\ ClaimInv /\ NoOrphans

----------------------------------------------------------------------------
(* Types *)

LEMMA LockTyped ==
    ASSUME TypeOK, NEW r \in Requests, NEW x \in Rows, Lock(r, x)
    PROVE  locks' \in [Requests -> SUBSET Rows]
BY DEF TypeOK, Lock

LEMMA StepTyped ==
    ASSUME TypeOK, NEW r \in Requests, NEW step \in Steps, GoTo(r, step)
    PROVE  pc' \in [Requests -> Steps]
BY DEF TypeOK, GoTo

LEMMA RespondTyped ==
    ASSUME TypeOK, NEW r \in Requests, NEW a \in Answers, Respond(r, a)
    PROVE  /\ pc' \in [Requests -> Steps] /\ answer' \in [Requests -> Answers]
           /\ locks' \in [Requests -> SUBSET Rows]
BY DEF TypeOK, Respond, Steps

LEMMA MemoryReplaced ==
    ASSUME TypeOK, NEW r \in Requests, NEW m \in Memory, mem' = [mem EXCEPT ![r] = m]
    PROVE  mem' \in [Requests -> Memory]
BY DEF TypeOK

LEMMA LikedSet ==
    ASSUME TypeOK, NEW r \in Requests, NEW b \in BOOLEAN, mem' = [mem EXCEPT ![r].liked = b]
    PROVE  mem' \in [Requests -> Memory]
<1> DEFINE m == [mem[r] EXCEPT !.liked = b]
<1>1. mem[r] \in Memory
  BY DEF TypeOK
<1>2. m \in Memory
  BY <1>1 DEF Memory
<1>3. mem' = [mem EXCEPT ![r] = m]
  OBVIOUS
<1> HIDE DEF m
<1> QED
  BY <1>2, <1>3, MemoryReplaced

LEMMA WholeSet ==
    ASSUME TypeOK, NEW r \in Requests, NEW b \in BOOLEAN, mem' = [mem EXCEPT ![r].whole = b]
    PROVE  mem' \in [Requests -> Memory]
<1> DEFINE m == [mem[r] EXCEPT !.whole = b]
<1>1. mem[r] \in Memory
  BY DEF TypeOK
<1>2. m \in Memory
  BY <1>1 DEF Memory
<1>3. mem' = [mem EXCEPT ![r] = m]
  OBVIOUS
<1> HIDE DEF m
<1> QED
  BY <1>2, <1>3, MemoryReplaced

LEMMA AuthorsSet ==
    ASSUME TypeOK, NEW r \in Requests, NEW S \in SUBSET Users, mem' = [mem EXCEPT ![r].authors = S]
    PROVE  mem' \in [Requests -> Memory]
<1> DEFINE m == [mem[r] EXCEPT !.authors = S]
<1>1. mem[r] \in Memory
  BY DEF TypeOK
<1>2. m \in Memory
  BY <1>1 DEF Memory
<1>3. mem' = [mem EXCEPT ![r] = m]
  OBVIOUS
<1> HIDE DEF m
<1> QED
  BY <1>2, <1>3, MemoryReplaced

LEMMA ShownSet ==
    ASSUME TypeOK, NEW r \in Requests, NEW S \in SUBSET Ids, NEW A \in SUBSET Users,
           mem' = [mem EXCEPT ![r].shown = S, ![r].authors = A]
    PROVE  mem' \in [Requests -> Memory]
<1> DEFINE m == [mem[r] EXCEPT !.shown = S, !.authors = A]
<1>1. mem[r] \in Memory
  BY DEF TypeOK
<1>2. m \in Memory
  BY <1>1 DEF Memory
<1>3. mem' = [mem EXCEPT ![r] = m]
  BY <1>1 DEF Memory, TypeOK
<1> HIDE DEF m
<1> QED
  BY <1>2, <1>3, MemoryReplaced

\* What the router guarantees of the request a handler serves.
LEMMA RequestFields ==
    ASSUME TypeInv, NEW r \in Requests, pc[r] # "idle"
    PROVE  /\ req[r] \in Request /\ Complete(req[r])
           /\ req[r].kind \in KindsAt(pc[r])
BY ClientsAssumption DEF TypeInv, TypeOK, HandlerOK

\* A step that answers, or goes on to a step for its kind of request, keeps HandlerOK.
LEMMA StepKeepsHandler ==
    ASSUME TypeInv, NEW r \in Requests, pc[r] # "idle", UNCHANGED req,
           \/ \E a \in Answers : Respond(r, a)
           \/ \E step \in Steps : GoTo(r, step) /\ req[r].kind \in KindsAt(step)
    PROVE  HandlerOK'
<1>1. KindsAt("done") = Kinds
  BY DEF KindsAt
<1>2. req[r].kind \in Kinds
  BY RequestFields DEF Request
<1>3. CASE \E a \in Answers : Respond(r, a)
  BY <1>1, <1>2, <1>3 DEF Respond, TypeInv, TypeOK, HandlerOK
<1>4. CASE \E step \in Steps : GoTo(r, step) /\ req[r].kind \in KindsAt(step)
  BY <1>4 DEF GoTo, TypeInv, TypeOK, HandlerOK
<1> QED
  BY <1>3, <1>4
\* A step that leaves tables and locals alone keeps TypeInv when its locks do.
LEMMA QuietStep ==
    ASSUME TypeInv, NEW r \in Requests, pc[r] # "idle", Unchanged, UNCHANGED <<req, mem>>,
           \/ \E a \in Answers : Respond(r, a)
           \/ \E step \in Steps, x \in Rows :
                  Lock(r, x) /\ GoTo(r, step) /\ req[r].kind \in KindsAt(step) /\ UNCHANGED answer
    PROVE  TypeInv'
<1>1. HandlerOK'
  BY StepKeepsHandler
<1>2. CASE \E a \in Answers : Respond(r, a)
  BY <1>1, <1>2, RespondTyped DEF TypeInv, TypeOK, Unchanged
<1>3. CASE \E step \in Steps, x \in Rows :
              Lock(r, x) /\ GoTo(r, step) /\ req[r].kind \in KindsAt(step) /\ UNCHANGED answer
  BY <1>1, <1>3, LockTyped, StepTyped DEF TypeInv, TypeOK, Unchanged
<1> QED
  BY <1>2, <1>3

LEMMA InitTyped == Init => TypeInv
<1> SUFFICES ASSUME Init PROVE TypeInv
  OBVIOUS
<1>1. PICK h \in Histories : post = h.post /\ likes = h.likes
  BY DEF Init
<1>2. post \in [Ids -> Post \cup {None}] /\ likes \subseteq Like
  BY <1>1, HistoriesAssumption
<1>3. NoRequest \in Request
  BY DEF NoRequest, Request, Kinds
<1>4. NoMemory \in Memory
  BY DEF NoMemory, Memory
<1>5. "idle" \in Steps /\ "none" \in Answers
  BY DEF Steps, Answers
<1>6. TypeOK
  BY <1>2, <1>3, <1>4, <1>5 DEF Init, TypeOK
<1>7. HandlerOK
  BY DEF Init, HandlerOK
<1> QED
  BY <1>6, <1>7 DEF TypeInv

LEMMA FirstFits == ASSUME NEW kind \in Kinds
                   PROVE  First(kind) \in Steps /\ kind \in KindsAt(First(kind))
BY DEF Kinds, First, Steps, KindsAt, OnComment, OnReply

LEMMA ArriveTyped ==
    ASSUME TypeInv, NEW r \in Requests, Arrive(r)
    PROVE  TypeInv'
<1>1. PICK x \in Sends[r] :
         /\ req' = [req EXCEPT ![r] = x]
         /\ \/ \E a \in {"unauthorized", "notFound"} : Respond(r, a)
            \/ GoTo(r, First(x.kind)) /\ UNCHANGED <<locks, answer>>
  BY DEF Arrive
<1>2. x \in Request /\ x.kind \in Kinds
  BY ClientsAssumption DEF Request
<1>3. req' \in [Requests -> Request]
  BY <1>1, <1>2 DEF TypeInv, TypeOK
<1>4. {"unauthorized", "notFound"} \subseteq Answers /\ KindsAt("done") = Kinds
  BY DEF Answers, KindsAt
<1>5. First(x.kind) \in Steps /\ x.kind \in KindsAt(First(x.kind))
  BY <1>2, FirstFits
<1>6. UNCHANGED mem /\ Unchanged
  BY DEF Arrive
<1>7. CASE \E a \in {"unauthorized", "notFound"} : Respond(r, a)
  <2>1. TypeOK'
    BY <1>3, <1>4, <1>6, <1>7, RespondTyped DEF TypeInv, TypeOK, Unchanged
  <2>2. HandlerOK'
    BY <1>1, <1>2, <1>4, <1>7 DEF Respond, TypeInv, TypeOK, HandlerOK
  <2> QED
    BY <2>1, <2>2 DEF TypeInv
<1>8. CASE GoTo(r, First(x.kind)) /\ UNCHANGED <<locks, answer>>
  <2>1. TypeOK'
    BY <1>3, <1>5, <1>6, <1>8, StepTyped DEF TypeInv, TypeOK, Unchanged
  <2>2. HandlerOK'
    BY <1>1, <1>5, <1>8 DEF GoTo, TypeInv, TypeOK, HandlerOK
  <2> QED
    BY <2>1, <2>2 DEF TypeInv
<1> QED
  BY <1>1, <1>7, <1>8

LEMMA AnswersNamed ==
    {"ok", "error", "unauthorized", "notFound", "forbidden"} \subseteq Answers
BY DEF Answers

LEMMA LockCommentTyped ==
    ASSUME TypeInv, NEW r \in Requests, LockComment(r)
    PROVE  TypeInv'
<1> DEFINE next == AfterComment(req[r].kind)
<1>1. pc[r] = "comment" /\ req[r].kind \in OnComment /\ req[r].comment \in Ids
  BY RequestFields DEF LockComment, KindsAt, Complete
<1>2. next \in Steps /\ req[r].kind \in KindsAt(next)
  BY <1>1 DEF AfterComment, Steps, KindsAt, OnComment, OnReply
<1>3. req[r].comment \in Rows
  BY <1>1 DEF Rows
<1>4. \/ \E a \in Answers : Respond(r, a)
      \/ Lock(r, req[r].comment) /\ GoTo(r, next) /\ UNCHANGED answer
  BY AnswersNamed DEF LockComment
<1> QED
  BY <1>1, <1>2, <1>3, <1>4, QuietStep DEF LockComment

LEMMA LockReplyTyped ==
    ASSUME TypeInv, NEW r \in Requests, LockReply(r)
    PROVE  TypeInv'
<1> DEFINE next == IF req[r].kind = "editReply" THEN "write" ELSE "remove"
<1>1. pc[r] = "reply" /\ req[r].kind \in OnReply /\ req[r].reply \in Ids
  BY RequestFields DEF LockReply, KindsAt, Complete
<1>2. next \in Steps /\ req[r].kind \in KindsAt(next)
  BY <1>1 DEF Steps, KindsAt, OnReply
<1>3. req[r].reply \in Rows
  BY <1>1 DEF Rows
<1>4. \/ \E a \in Answers : Respond(r, a)
      \/ Lock(r, req[r].reply) /\ GoTo(r, next) /\ UNCHANGED answer
  BY AnswersNamed DEF LockReply
<1> QED
  BY <1>1, <1>2, <1>3, <1>4, QuietStep DEF LockReply
\* A step that answers and writes tables of the right type.
LEMMA AnswerTyped ==
    ASSUME TypeInv, NEW r \in Requests, pc[r] # "idle", NEW a \in Answers, Respond(r, a),
           live' \subseteq Users, post' \in [Ids -> Post \cup {None}], likes' \subseteq Like,
           UNCHANGED <<req, mem>>
    PROVE  TypeInv'
<1>1. HandlerOK'
  BY StepKeepsHandler
<1> QED
  BY <1>1, RespondTyped DEF TypeInv, TypeOK

LEMMA InsertTyped ==
    ASSUME TypeInv, NEW r \in Requests, Insert(r)
    PROVE  TypeInv'
<1> DEFINE row == [question |-> req[r].question, author |-> req[r].user, content |-> req[r].content,
                   parent |-> IF req[r].kind = "reply" THEN req[r].comment ELSE None]
<1>1. pc[r] = "insert" /\ req[r].kind \in {"create", "reply"}
  BY RequestFields DEF Insert, KindsAt
<1>2. req[r].question \in Questions /\ req[r].user \in Users /\ req[r].content \in Contents
  BY <1>1, RequestFields DEF Complete, WithContent
<1>3. req[r].kind = "reply" => req[r].comment \in Ids
  BY <1>1, RequestFields DEF Complete, OnComment
<1>4. row \in Post
  BY <1>2, <1>3 DEF Post
<1>5. post' \in [Ids -> Post \cup {None}]
  <2>1. post' = [post EXCEPT ![r] = row] \/ post' = post
    BY DEF Insert
  <2> HIDE DEF row
  <2> QED
    BY <1>4, <2>1 DEF TypeInv, TypeOK
<1>6. PICK a \in Answers : Respond(r, a)
  BY AnswersNamed DEF Insert
<1>7. live' \subseteq Users /\ likes' \subseteq Like /\ UNCHANGED <<req, mem>>
  BY DEF Insert, TypeInv, TypeOK
<1> QED
  BY <1>1, <1>5, <1>6, <1>7, AnswerTyped

\* An edit rewrites the content of one post.
LEMMA WriteEffect ==
    ASSUME IntegrityInv, NEW r \in Requests, Write(r)
    PROVE  /\ Edited(r) \in Ids \cap locks[r] /\ post[Edited(r)] \in Post
           /\ post[Edited(r)].author = req[r].user
           /\ post'[Edited(r)] \in Post
           /\ post'[Edited(r)].author = post[Edited(r)].author
           /\ post'[Edited(r)].parent = post[Edited(r)].parent
           /\ \A i \in Ids \ {Edited(r)} : post'[i] = post[i]
<1>1. pc[r] = "write" /\ req[r].kind \in {"edit", "editReply"}
  BY RequestFields DEF Write, KindsAt, IntegrityInv
<1>2. req[r].content \in Contents /\ Edited(r) \in Ids
  BY <1>1, RequestFields DEF Complete, WithContent, OnComment, OnReply, Edited, IntegrityInv
<1>3. Edited(r) \in locks[r] /\ post[Edited(r)] # None /\ post[Edited(r)].author = req[r].user
  BY <1>1 DEF IntegrityInv, ClaimInv, Claims, HasComment, HasReply, Edited, OnComment, OnReply,
              IsComment, IsReply
<1>4. post \in [Ids -> Post \cup {None}]
  BY DEF IntegrityInv, TypeInv, TypeOK
<1>5. post[Edited(r)] \in Post
  BY <1>2, <1>3, <1>4
<1> DEFINE row == [post[Edited(r)] EXCEPT !.content = req[r].content]
<1>6. row \in Post /\ row.author = post[Edited(r)].author /\ row.parent = post[Edited(r)].parent
  BY <1>2, <1>5 DEF Post
<1>7. post' = [post EXCEPT ![Edited(r)] = row]
  BY DEF Write
<1> HIDE DEF row
<1> QED
  BY <1>2, <1>3, <1>4, <1>5, <1>6, <1>7

LEMMA WriteTyped ==
    ASSUME IntegrityInv, NEW r \in Requests, Write(r)
    PROVE  TypeInv'
<1>1. TypeInv /\ pc[r] = "write"
  BY DEF Write, IntegrityInv
<1>2. post' \in [Ids -> Post \cup {None}]
  <2>1. DOMAIN post' = Ids /\ post' = [i \in Ids |-> post'[i]]
    BY <1>1 DEF Write, TypeInv, TypeOK
  <2>2. \A i \in Ids : post'[i] \in Post \cup {None}
    BY <1>1, WriteEffect DEF TypeInv, TypeOK
  <2> QED
    BY <2>1, <2>2
<1>3. Respond(r, "ok") /\ live' \subseteq Users /\ likes' \subseteq Like /\ UNCHANGED <<req, mem>>
  BY <1>1 DEF Write, TypeInv, TypeOK
<1> QED
  BY <1>1, <1>2, <1>3, AnswersNamed, AnswerTyped

LEMMA ReadLikeTyped ==
    ASSUME TypeInv, NEW r \in Requests, ReadLike(r)
    PROVE  TypeInv'
<1>1. pc[r] = "like" /\ req[r].kind \in KindsAt("save") /\ "save" \in Steps
  BY RequestFields DEF ReadLike, KindsAt, Steps
<1>2. HandlerOK'
  BY <1>1, StepKeepsHandler DEF ReadLike
<1>3. (LikeOf(r) \in likes) \in BOOLEAN
  OBVIOUS
<1>4. mem' \in [Requests -> Memory]
  BY <1>3, LikedSet DEF ReadLike, TypeInv
<1> QED
  BY <1>1, <1>2, <1>4, StepTyped DEF ReadLike, Unchanged, TypeInv, TypeOK

LEMMA SaveLikeTyped ==
    ASSUME TypeInv, NEW r \in Requests, SaveLike(r)
    PROVE  TypeInv'
<1>1. pc[r] = "save" /\ req[r].kind \in {"like", "unlike"}
  BY RequestFields DEF SaveLike, KindsAt
<1>2. LikeOf(r) \in Like
  BY <1>1, RequestFields DEF Complete, OnComment, LikeOf, Like
<1>3. likes' \subseteq Like
  BY <1>2 DEF SaveLike, TypeInv, TypeOK
<1>4. PICK a \in Answers : Respond(r, a)
  BY AnswersNamed DEF SaveLike
<1>5. live' \subseteq Users /\ post' \in [Ids -> Post \cup {None}] /\ UNCHANGED <<req, mem>>
  BY DEF SaveLike, TypeInv, TypeOK
<1> QED
  BY <1>1, <1>3, <1>4, <1>5, AnswerTyped
LEMMA LockAccountTyped ==
    ASSUME TypeInv, NEW r \in Requests, LockAccount(r)
    PROVE  TypeInv'
<1>1. pc[r] = "account" /\ req[r].kind = "withdraw" /\ req[r].user \in Users
  BY RequestFields DEF LockAccount, KindsAt, Complete
<1>2. "remove" \in Steps /\ req[r].kind \in KindsAt("remove") /\ req[r].user \in Rows
  BY <1>1 DEF Steps, KindsAt, Rows
<1>3. \/ \E a \in Answers : Respond(r, a)
      \/ Lock(r, req[r].user) /\ GoTo(r, "remove") /\ UNCHANGED answer
  BY AnswersNamed DEF LockAccount
<1> QED
  BY <1>1, <1>2, <1>3, QuietStep DEF LockAccount

LEMMA DoomedRows ==
    ASSUME TypeInv, NEW r \in Requests, pc[r] = "remove"
    PROVE  Doomed(r) \subseteq Rows
<1>1. req[r].kind \in {"delete", "deleteReply", "withdraw"} /\ req[r].user \in Users
  BY RequestFields DEF KindsAt, Complete
<1>2. /\ req[r].kind = "delete" => req[r].comment \in Ids
      /\ req[r].kind = "deleteReply" => req[r].reply \in Ids
  BY RequestFields DEF Complete, OnComment, OnReply
<1>3. \A c \in Ids : Children(c) \subseteq Rows
  BY DEF Children, Rows, TypeInv, TypeOK
<1>4. CASE req[r].kind = "delete"
  BY <1>2, <1>3, <1>4 DEF Doomed, Rows
<1>5. CASE req[r].kind = "deleteReply"
  BY <1>2, <1>5 DEF Doomed, Rows
<1>6. CASE req[r].kind = "withdraw"
  <2>1. CommentsBy(req[r].user) \subseteq Ids
    BY DEF CommentsBy
  <2>2. UNION {Children(c) : c \in CommentsBy(req[r].user)} \subseteq Rows
    BY <1>3, <2>1
  <2>3. RepliesBy(req[r].user) \cup LikesBy(req[r].user) \subseteq Rows
    BY DEF RepliesBy, LikesBy, Rows, TypeInv, TypeOK
  <2> QED
    BY <1>1, <1>6, <2>1, <2>2, <2>3 DEF Doomed, Rows
<1> QED
  BY <1>1, <1>4, <1>5, <1>6

LEMMA LockDoomedTyped ==
    ASSUME TypeInv, NEW r \in Requests, LockDoomed(r)
    PROVE  TypeInv'
<1>1. PICK x \in NextDoomed(r) : Lock(r, x)
  BY DEF LockDoomed
<1>2. x \in Rows
  BY DoomedRows DEF LockDoomed, NextDoomed
<1> QED
  BY <1>1, <1>2, LockTyped DEF LockDoomed, Unchanged, TypeInv, TypeOK, HandlerOK

LEMMA CommitRemovalTyped ==
    ASSUME TypeInv, NEW r \in Requests, CommitRemoval(r)
    PROVE  TypeInv'
<1>1. live' \subseteq Users /\ likes' \subseteq Like /\ post' \in [Ids -> Post \cup {None}]
  BY DEF CommitRemoval, TypeInv, TypeOK
<1> QED
  BY <1>1, AnswersNamed, AnswerTyped DEF CommitRemoval

LEMMA AuthorsTyped == \A S : AuthorsOf(S) \in SUBSET Users
BY DEF AuthorsOf

\* The steps of a listing only fill local variables.
LEMMA ListingTyped ==
    ASSUME TypeInv, NEW r \in Requests,
           ListComments(r) \/ LoadAuthors(r) \/ ListReplies(r) \/ LoadReplyAuthors(r)
    PROVE  TypeInv'
<1>1. pc[r] \in {"list", "authors", "replies", "replyAuthors"}
  BY DEF ListComments, LoadAuthors, ListReplies, LoadReplyAuthors
<1>2. \A step \in {"authors", "replies", "replyAuthors"} : step \in Steps /\ req[r].kind \in KindsAt(step)
  BY <1>1, RequestFields DEF Steps, KindsAt
<1>3. CASE LoadReplyAuthors(r)
  BY <1>1, <1>3, AnswersNamed, QuietStep DEF LoadReplyAuthors
<1>4. CASE ListComments(r) \/ LoadAuthors(r) \/ ListReplies(r)
  <2>1. PICK step \in {"authors", "replies", "replyAuthors"} : GoTo(r, step)
    BY <1>4 DEF ListComments, LoadAuthors, ListReplies
  <2>2. UNCHANGED <<locks, req, answer>> /\ Unchanged
    BY <1>4 DEF ListComments, LoadAuthors, ListReplies
  <2>3. CommentsOn(req[r].question) \in SUBSET Ids
    BY DEF CommentsOn
  <2>4. mem' \in [Requests -> Memory]
    <3>1. CASE ListComments(r)
      BY <2>3, <3>1, AuthorsTyped, ShownSet DEF ListComments, TypeInv
    <3>2. CASE LoadAuthors(r)
      <4>1. (mem[r].authors \subseteq live) \in BOOLEAN
        OBVIOUS
      <4> QED
        BY <3>2, <4>1, WholeSet DEF LoadAuthors, TypeInv
    <3>3. CASE ListReplies(r)
      BY <3>3, AuthorsTyped, AuthorsSet DEF ListReplies, TypeInv
    <3> QED
      BY <1>4, <3>1, <3>2, <3>3
  <2>5. HandlerOK'
    BY <1>1, <1>2, <2>1, <2>2, StepKeepsHandler
  <2> QED
    BY <1>2, <2>1, <2>2, <2>4, <2>5, StepTyped DEF Unchanged, TypeInv, TypeOK
<1> QED
  BY <1>3, <1>4

LEMMA RaiseTyped ==
    ASSUME TypeInv, NEW r \in Requests, pc[r] # "idle", Raise(r)
    PROVE  TypeInv'
BY AnswersNamed, QuietStep DEF Raise

\* A transaction in a cycle of waits is at a step that waits.
LEMMA VictimIsServed ==
    ASSUME NEW r \in Requests, BreakDeadlock(r)
    PROVE  pc[r] # "idle" /\ Raise(r)
<1>1. WaitsFor(r) # {} /\ Raise(r)
  BY DEF BreakDeadlock
<1>2. pc[r] = "idle" => Wanted(r) = {}
  BY DEF Wanted
<1> QED
  BY <1>1, <1>2 DEF WaitsFor
----------------------------------------------------------------------------
(* Claims *)

\* A post that a claim about it survives.
Kept(i) ==
    post[i] # None =>
        /\ post'[i] # None
        /\ post'[i].parent = post[i].parent /\ post'[i].author = post[i].author

LEMMA OthersKeep ==
    ASSUME IntegrityInv, NEW o \in Requests,
           pc'[o] = pc[o], req'[o] = req[o], locks'[o] = locks[o],
           \A i \in Ids \cap locks[o] : Kept(i)
    PROVE  Claims(o)'
<1>1. pc[o] # "idle" /\ req[o].kind \in OnComment => req[o].comment \in Ids
  BY RequestFields DEF IntegrityInv, Complete
<1>2. pc[o] # "idle" /\ req[o].kind \in OnReply => req[o].reply \in Ids
  BY RequestFields DEF IntegrityInv, Complete
<1>3. Claims(o)
  BY DEF IntegrityInv, ClaimInv
<1>4. pc[o] \in {"reply", "insert", "write", "like", "save", "remove"} /\ req[o].kind \in OnComment
        => HasComment(o)'
  BY <1>1, <1>3 DEF Claims, HasComment, Kept, IsComment
<1>5. pc[o] \in {"write", "remove"} /\ req[o].kind \in OnReply => HasReply(o)'
  BY <1>2, <1>3 DEF Claims, HasReply, Kept, IsReply
<1> QED
  BY <1>4, <1>5 DEF Claims

\* An answered request has no claims and no locks.
LEMMA AnswerKeepsClaims ==
    ASSUME IntegrityInv, NEW r \in Requests, NEW a \in Answers, Respond(r, a),
           \A o \in Requests \ {r} : req'[o] = req[o] /\ (post[o] = None => post'[o] = None),
           \A o \in Requests \ {r} : \A i \in Ids \cap locks[o] : Kept(i)
    PROVE  ClaimInv'
<1>1. /\ pc'[r] = "done" /\ locks'[r] = {}
      /\ \A o \in Requests \ {r} : pc'[o] = pc[o] /\ answer'[o] = answer[o] /\ locks'[o] = locks[o]
  BY DEF Respond, IntegrityInv, TypeInv, TypeOK
<1>2. Exclusive'
  BY <1>1 DEF IntegrityInv, ClaimInv, Exclusive
<1>3. \A o \in Requests \ {r} : Claims(o)'
  BY <1>1, OthersKeep
<1>4. Claims(r)' /\ Fresh(r)'
  BY <1>1 DEF Claims, Fresh
<1>5. \A o \in Requests \ {r} : Fresh(o)'
  BY <1>1 DEF IntegrityInv, ClaimInv, Fresh
<1> QED
  BY <1>2, <1>3, <1>4, <1>5 DEF ClaimInv

\* A handler that goes on keeps the claims when it locks only free rows and
\* its own claims hold at its next step.
LEMMA MoveKeepsClaims ==
    ASSUME IntegrityInv, NEW r \in Requests, pc[r] # "done", UNCHANGED <<post, answer>>,
           \A o \in Requests \ {r} : pc'[o] = pc[o] /\ req'[o] = req[o] /\ locks'[o] = locks[o],
           \A x \in locks'[r] \ locks[r] : Free(r, {x}),
           Claims(r)'
    PROVE  ClaimInv'
<1>1. Exclusive'
  <2>1. \A o \in Requests \ {r} : locks'[r] \cap locks'[o] = {}
    BY DEF IntegrityInv, ClaimInv, Exclusive, Free, Holders
  <2> QED
    BY <2>1 DEF IntegrityInv, ClaimInv, Exclusive
<1>2. \A i \in Ids : Kept(i)
  BY DEF Kept
<1>3. \A o \in Requests \ {r} : Claims(o)'
  BY <1>2, OthersKeep
<1>4. \A o \in Requests : Fresh(o)'
  BY DEF IntegrityInv, ClaimInv, Fresh
<1> QED
  BY <1>1, <1>3, <1>4 DEF ClaimInv

LEMMA LockEffect ==
    ASSUME TypeOK, NEW r \in Requests, NEW x, Lock(r, x)
    PROVE  locks'[r] = locks[r] \cup {x} /\ \A o \in Requests \ {r} : locks'[o] = locks[o]
BY DEF TypeOK, Lock

LEMMA StepEffect ==
    ASSUME TypeOK, NEW r \in Requests, NEW step, GoTo(r, step)
    PROVE  pc'[r] = step /\ \A o \in Requests \ {r} : pc'[o] = pc[o]
BY DEF TypeOK, GoTo

\* An answer that leaves the tables alone.
LEMMA QuietAnswerKeeps ==
    ASSUME IntegrityInv, NEW r \in Requests, NEW a \in Answers, Respond(r, a), Unchanged,
           \A o \in Requests \ {r} : req'[o] = req[o]
    PROVE  ClaimInv' /\ NoOrphans'
<1>1. ClaimInv'
  BY AnswerKeepsClaims DEF Unchanged, Kept
<1>2. NoOrphans'
  BY DEF Unchanged, IntegrityInv, NoOrphans, Referenced, IsReply, IsComment
<1> QED
  BY <1>1, <1>2

LEMMA QuietNoOrphans == ASSUME NoOrphans, Unchanged PROVE NoOrphans'
BY DEF Unchanged, NoOrphans, Referenced, IsReply, IsComment

LEMMA ArriveKeeps ==
    ASSUME IntegrityInv, NEW r \in Requests, Arrive(r)
    PROVE  ClaimInv' /\ NoOrphans'
<1>1. PICK x \in Sends[r] :
         /\ req' = [req EXCEPT ![r] = x]
         /\ \/ \E a \in {"unauthorized", "notFound"} : Respond(r, a)
            \/ GoTo(r, First(x.kind)) /\ UNCHANGED <<locks, answer>>
  BY DEF Arrive
<1>2. x.kind \in Kinds /\ pc[r] = "idle"
  BY ClientsAssumption DEF Arrive, Request
<1>3. req'[r] = x /\ \A o \in Requests \ {r} : req'[o] = req[o]
  BY <1>1 DEF IntegrityInv, TypeInv, TypeOK
<1>4. CASE \E a \in {"unauthorized", "notFound"} : Respond(r, a)
  BY <1>3, <1>4, AnswersNamed, QuietAnswerKeeps DEF Arrive
<1>5. CASE GoTo(r, First(x.kind)) /\ UNCHANGED <<locks, answer>>
  <2>1. pc'[r] = First(x.kind) /\ \A o \in Requests \ {r} : pc'[o] = pc[o]
    BY <1>5, StepEffect DEF IntegrityInv, TypeInv
  <2>2. Claims(r)'
    BY <1>2, <1>3, <2>1 DEF Claims, First, OnComment, OnReply, Kinds
  <2>3. ClaimInv'
    BY <1>2, <1>3, <1>5, <2>1, <2>2, MoveKeepsClaims DEF Arrive, Unchanged
  <2> QED
    BY <2>3, QuietNoOrphans DEF Arrive, IntegrityInv
<1> QED
  BY <1>1, <1>4, <1>5
LEMMA LockCommentKeeps ==
    ASSUME IntegrityInv, NEW r \in Requests, LockComment(r)
    PROVE  ClaimInv' /\ NoOrphans'
<1> DEFINE c == req[r].comment
           next == AfterComment(req[r].kind)
<1>1. UNCHANGED <<req, mem>> /\ Unchanged /\ pc[r] = "comment"
  BY DEF LockComment
<1>2. CASE \E a \in Answers : Respond(r, a)
  BY <1>1, <1>2, QuietAnswerKeeps
<1>3. CASE /\ IsComment(post, c) /\ Free(r, {c}) /\ (req[r].kind \in {"edit", "delete"} => MayChange(r, c))
           /\ Lock(r, c) /\ GoTo(r, next) /\ UNCHANGED answer
  <2>1. locks'[r] = locks[r] \cup {c} /\ \A o \in Requests \ {r} : locks'[o] = locks[o]
    BY <1>3, LockEffect DEF IntegrityInv, TypeInv
  <2>2. pc'[r] = next /\ \A o \in Requests \ {r} : pc'[o] = pc[o]
    BY <1>3, StepEffect DEF IntegrityInv, TypeInv
  <2>3. HasComment(r)'
    BY <1>1, <1>3, <2>1 DEF HasComment, MayChange, IsComment, Unchanged
  <2>4. pc'[r] \in {"write", "remove"} => req[r].kind \in {"edit", "delete"}
    BY <2>2 DEF AfterComment
  <2>5. Claims(r)'
    BY <1>1, <2>3, <2>4 DEF Claims, OnReply
  <2>6. ClaimInv'
    BY <1>1, <1>3, <2>1, <2>2, <2>5, MoveKeepsClaims DEF Unchanged
  <2> QED
    BY <1>1, <2>6, QuietNoOrphans DEF IntegrityInv
<1> QED
  BY <1>2, <1>3, AnswersNamed DEF LockComment, CommentFound

LEMMA LockReplyKeeps ==
    ASSUME IntegrityInv, NEW r \in Requests, LockReply(r)
    PROVE  ClaimInv' /\ NoOrphans'
<1> DEFINE i == req[r].reply
           next == IF req[r].kind = "editReply" THEN "write" ELSE "remove"
<1>1. UNCHANGED <<req, mem>> /\ Unchanged /\ pc[r] = "reply"
  BY DEF LockReply
<1>2. CASE \E a \in Answers : Respond(r, a)
  BY <1>1, <1>2, QuietAnswerKeeps
<1>3. CASE IsReply(post, i) /\ Free(r, {i}) /\ MayChange(r, i) /\ Lock(r, i) /\ GoTo(r, next) /\ UNCHANGED answer
  <2>1. locks'[r] = locks[r] \cup {i} /\ \A o \in Requests \ {r} : locks'[o] = locks[o]
    BY <1>3, LockEffect DEF IntegrityInv, TypeInv
  <2>2. pc'[r] = next /\ \A o \in Requests \ {r} : pc'[o] = pc[o]
    BY <1>3, StepEffect DEF IntegrityInv, TypeInv
  <2>3. req[r].kind \in OnReply
    BY <1>1, RequestFields DEF IntegrityInv, KindsAt
  <2>4. HasComment(r)
    BY <1>1, <2>3 DEF IntegrityInv, ClaimInv, Claims, OnComment
  <2>5. HasComment(r)' /\ HasReply(r)'
    BY <1>1, <1>3, <2>1, <2>4 DEF HasComment, HasReply, MayChange, IsComment, IsReply, Unchanged
  <2>6. ClaimInv'
    BY <1>1, <1>3, <2>1, <2>2, <2>5, MoveKeepsClaims DEF Claims, Unchanged
  <2> QED
    BY <1>1, <2>6, QuietNoOrphans DEF IntegrityInv
<1> QED
  BY <1>2, <1>3, AnswersNamed DEF LockReply, ReplyFound

LEMMA ReadLikeKeeps ==
    ASSUME IntegrityInv, NEW r \in Requests, ReadLike(r)
    PROVE  ClaimInv' /\ NoOrphans'
<1>1. UNCHANGED <<locks, req, answer>> /\ Unchanged /\ pc[r] = "like" /\ GoTo(r, "save")
  BY DEF ReadLike
<1>2. pc'[r] = "save" /\ \A o \in Requests \ {r} : pc'[o] = pc[o]
  BY <1>1, StepEffect DEF IntegrityInv, TypeInv
<1>3. Claims(r)'
  BY <1>1, <1>2 DEF IntegrityInv, ClaimInv, Claims, HasComment, IsComment, Unchanged
<1>4. ClaimInv'
  BY <1>1, <1>2, <1>3, MoveKeepsClaims DEF Unchanged
<1> QED
  BY <1>1, <1>4, QuietNoOrphans DEF IntegrityInv

LEMMA LockAccountKeeps ==
    ASSUME IntegrityInv, NEW r \in Requests, LockAccount(r)
    PROVE  ClaimInv' /\ NoOrphans'
<1> DEFINE u == req[r].user
<1>1. UNCHANGED <<req, mem>> /\ Unchanged /\ pc[r] = "account" /\ Free(r, {u})
  BY DEF LockAccount
<1>2. CASE \E a \in Answers : Respond(r, a)
  BY <1>1, <1>2, QuietAnswerKeeps
<1>3. CASE Lock(r, u) /\ GoTo(r, "remove") /\ UNCHANGED answer
  <2>1. locks'[r] = locks[r] \cup {u} /\ \A o \in Requests \ {r} : locks'[o] = locks[o]
    BY <1>3, LockEffect DEF IntegrityInv, TypeInv
  <2>2. \A o \in Requests \ {r} : pc'[o] = pc[o]
    BY <1>3, StepEffect DEF IntegrityInv, TypeInv
  <2>3. Claims(r)'
    BY <1>1, RequestFields DEF IntegrityInv, KindsAt, Claims, OnComment, OnReply
  <2>4. ClaimInv'
    BY <1>1, <1>3, <2>1, <2>2, <2>3, MoveKeepsClaims DEF Unchanged
  <2> QED
    BY <1>1, <2>4, QuietNoOrphans DEF IntegrityInv
<1> QED
  BY <1>2, <1>3, AnswersNamed DEF LockAccount

LEMMA LockDoomedKeeps ==
    ASSUME IntegrityInv, NEW r \in Requests, LockDoomed(r)
    PROVE  ClaimInv' /\ NoOrphans'
<1>1. PICK x \in NextDoomed(r) : Free(r, {x}) /\ Lock(r, x)
  BY DEF LockDoomed
<1>2. UNCHANGED <<pc, req, mem, answer>> /\ Unchanged /\ pc[r] = "remove"
  BY DEF LockDoomed
<1>3. locks'[r] = locks[r] \cup {x} /\ \A o \in Requests \ {r} : locks'[o] = locks[o]
  BY <1>1, LockEffect DEF IntegrityInv, TypeInv
<1>4. Claims(r)'
  BY <1>2, <1>3 DEF IntegrityInv, ClaimInv, Claims, HasComment, HasReply, IsComment, IsReply, Unchanged
<1>5. ClaimInv'
  BY <1>1, <1>2, <1>3, <1>4, MoveKeepsClaims DEF Unchanged
<1> QED
  BY <1>2, <1>5, QuietNoOrphans DEF IntegrityInv

LEMMA ListingKeeps ==
    ASSUME IntegrityInv, NEW r \in Requests,
           ListComments(r) \/ LoadAuthors(r) \/ ListReplies(r) \/ LoadReplyAuthors(r)
    PROVE  ClaimInv' /\ NoOrphans'
<1>1. CASE LoadReplyAuthors(r)
  BY <1>1, AnswersNamed, QuietAnswerKeeps DEF LoadReplyAuthors
<1>2. CASE ListComments(r) \/ LoadAuthors(r) \/ ListReplies(r)
  <2>1. PICK step \in {"authors", "replies", "replyAuthors"} : GoTo(r, step)
    BY <1>2 DEF ListComments, LoadAuthors, ListReplies
  <2>2. UNCHANGED <<locks, req, answer>> /\ Unchanged /\ pc[r] # "done"
    BY <1>2 DEF ListComments, LoadAuthors, ListReplies
  <2>3. pc'[r] = step /\ \A o \in Requests \ {r} : pc'[o] = pc[o]
    BY <2>1, StepEffect DEF IntegrityInv, TypeInv
  <2>4. Claims(r)'
    BY <2>3 DEF Claims
  <2>5. ClaimInv'
    BY <2>2, <2>3, <2>4, MoveKeepsClaims DEF Unchanged
  <2> QED
    BY <2>2, <2>5, QuietNoOrphans DEF IntegrityInv
<1> QED
  BY <1>1, <1>2

LEMMA RaiseKeeps ==
    ASSUME IntegrityInv, NEW r \in Requests, Raise(r)
    PROVE  ClaimInv' /\ NoOrphans'
BY AnswersNamed, QuietAnswerKeeps DEF Raise
----------------------------------------------------------------------------
(* Writes *)

\* Existing replies and likes refer to ids.
LEMMA ReferencesTyped ==
    ASSUME TypeInv
    PROVE  /\ \A i \in Ids : IsReply(post, i) => post[i].parent \in Ids
           /\ \A i \in Ids : post[i] # None => post[i].author \in Users
           /\ \A x \in likes : x \in Like /\ x[1] \in Ids /\ x[2] \in Users
<1>1. \A i \in Ids : post[i] # None => post[i].parent \in Ids \cup {None} /\ post[i].author \in Users
  BY DEF TypeInv, TypeOK, Post
<1>2. \A x \in likes : x \in Like /\ x[1] \in Ids /\ x[2] \in Users
  BY DEF TypeInv, TypeOK, Like
<1> QED
  BY <1>1, <1>2 DEF IsReply

\* An insert adds the request's own post, whose references exist.
LEMMA InsertEffect ==
    ASSUME IntegrityInv, NEW r \in Requests, Insert(r)
    PROVE  /\ r \in Ids /\ post[r] = None /\ \A i \in Ids \ {r} : post'[i] = post[i]
           /\ \/ post'[r] = None
              \/ /\ post'[r].author \in live
                 /\ post'[r].parent # None => post'[r].parent \in Ids /\ IsComment(post, post'[r].parent)
<1>1. pc[r] = "insert" /\ req[r].kind \in {"create", "reply"} /\ req[r].user \in Users
  BY RequestFields DEF Insert, KindsAt, IntegrityInv, Complete
<1>2. post[r] = None /\ r \in Ids
  BY <1>1 DEF IntegrityInv, ClaimInv, Fresh, Ids
<1>3. req[r].kind = "reply" => req[r].comment \in Ids /\ IsComment(post, req[r].comment)
  BY <1>1, RequestFields DEF IntegrityInv, ClaimInv, Claims, HasComment, OnComment, Complete
<1>4. Admits(r) => req[r].user \in live
  BY <1>1, NamesAssumption DEF Admits, References, Exists
<1>5. post \in [Ids -> Post \cup {None}]
  BY DEF IntegrityInv, TypeInv, TypeOK
<1>6. CASE UNCHANGED post
  BY <1>2, <1>6
<1>7. CASE ~UNCHANGED post
  <2> DEFINE row == [question |-> req[r].question, author |-> req[r].user, content |-> req[r].content,
                     parent |-> IF req[r].kind = "reply" THEN req[r].comment ELSE None]
  <2>1. Admits(r) /\ post' = [post EXCEPT ![r] = row]
    BY <1>7 DEF Insert
  <2>2. row.author = req[r].user /\ (row.parent # None => req[r].kind = "reply" /\ row.parent = req[r].comment)
    OBVIOUS
  <2> HIDE DEF row
  <2>3. post'[r] = row /\ \A i \in Ids \ {r} : post'[i] = post[i]
    BY <1>2, <1>5, <2>1
  <2> QED
    BY <1>2, <1>3, <1>4, <2>1, <2>2, <2>3
<1> QED
  BY <1>6, <1>7

LEMMA InsertKeeps ==
    ASSUME IntegrityInv, NEW r \in Requests, Insert(r)
    PROVE  ClaimInv' /\ NoOrphans'
<1>1. /\ r \in Ids /\ post[r] = None /\ \A i \in Ids \ {r} : post'[i] = post[i]
      /\ \/ post'[r] = None
         \/ /\ post'[r].author \in live
            /\ post'[r].parent # None => post'[r].parent \in Ids /\ IsComment(post, post'[r].parent)
  BY InsertEffect
<1>2. UNCHANGED <<live, likes, req, mem>> /\ (\E a \in Answers : Respond(r, a)) /\ Requests \subseteq Ids
  BY AnswersNamed DEF Insert, Ids
<1>3. \A i \in Ids : Kept(i)
  BY <1>1 DEF Kept
<1>4. ClaimInv'
  BY <1>1, <1>2, <1>3, AnswerKeepsClaims
<1>5. NoOrphans /\ TypeInv
  BY DEF IntegrityInv
<1>6. \A i \in Ids : IsComment(post, i) => IsComment(post, i)'
  BY <1>1 DEF IsComment
<1>7. \A i \in Ids : post'[i] # None => post'[i].author \in live
  BY <1>1, <1>5 DEF NoOrphans, Referenced
<1>8. \A i \in Ids : IsReply(post, i)' => post'[i].parent \in Ids /\ IsComment(post, post'[i].parent)
  BY <1>1, <1>5, ReferencesTyped DEF NoOrphans, Referenced, IsReply
<1>9. \A x \in likes : x[1] \in Ids /\ IsComment(post, x[1]) /\ x[2] \in live
  BY <1>5, ReferencesTyped DEF NoOrphans, Referenced
<1>10. NoOrphans'
  <2>1. \A i \in Ids : IsReply(post, i)' => IsComment(post, post[i].parent)'
    BY <1>6, <1>8 DEF IsComment
  <2>2. \A x \in likes' : IsComment(post, x[1])' /\ x[2] \in live'
    BY <1>2, <1>6, <1>9
  <2> QED
    BY <1>2, <1>7, <2>1, <2>2 DEF NoOrphans, Referenced, IsReply, IsComment
<1> QED
  BY <1>4, <1>10

LEMMA WriteKeeps ==
    ASSUME IntegrityInv, NEW r \in Requests, Write(r)
    PROVE  ClaimInv' /\ NoOrphans'
<1>1. UNCHANGED <<live, likes, req, mem>> /\ Respond(r, "ok") /\ Requests \subseteq Ids
  BY DEF Write, Ids
<1>2. None \notin Post
  BY NamesAssumption
<1>3. \A i \in Ids : Kept(i)
  BY <1>2, WriteEffect DEF Kept
<1>4. \A i \in Ids : post[i] = None => post'[i] = None
  BY <1>2, WriteEffect
<1>5. ClaimInv'
  BY <1>1, <1>3, <1>4, AnswersNamed, AnswerKeepsClaims
<1>6. NoOrphans /\ TypeInv
  BY DEF IntegrityInv
<1>7. \A i \in Ids : (IsComment(post, i) => IsComment(post, i)') /\ (IsReply(post, i)' => IsReply(post, i))
  BY <1>3, <1>4 DEF IsComment, IsReply, Kept
<1>8. \A i \in Ids : post'[i] # None => post'[i].author \in live
  BY <1>3, <1>4, <1>6 DEF NoOrphans, Referenced, Kept
<1>9. \A i \in Ids : IsReply(post, i)' => IsComment(post, post[i].parent)'
  <2> SUFFICES ASSUME NEW i \in Ids, IsReply(post, i)' PROVE IsComment(post, post[i].parent)'
    OBVIOUS
  <2>1. IsReply(post, i) /\ post[i].parent \in Ids /\ IsComment(post, post[i].parent)
    BY <1>6, <1>7, ReferencesTyped DEF NoOrphans, Referenced
  <2>2. post'[i].parent = post[i].parent
    BY <1>3, <2>1 DEF Kept, IsReply
  <2> QED
    BY <1>7, <2>1, <2>2 DEF IsComment
<1>10. \A x \in likes' : IsComment(post, x[1])' /\ x[2] \in live'
  BY <1>1, <1>6, <1>7, ReferencesTyped DEF NoOrphans, Referenced
<1>11. NoOrphans'
  BY <1>1, <1>8, <1>9, <1>10 DEF NoOrphans, Referenced, IsReply, IsComment
<1> QED
  BY <1>5, <1>11

LEMMA SaveLikeKeeps ==
    ASSUME IntegrityInv, NEW r \in Requests, SaveLike(r)
    PROVE  ClaimInv' /\ NoOrphans'
<1>1. UNCHANGED <<live, post, req, mem>> /\ (\E a \in Answers : Respond(r, a)) /\ pc[r] = "save"
  BY AnswersNamed DEF SaveLike
<1>2. ClaimInv'
  BY <1>1, AnswerKeepsClaims DEF Kept
<1>3. req[r].kind \in {"like", "unlike"} /\ req[r].user \in Users
  BY <1>1, RequestFields DEF IntegrityInv, KindsAt, Complete
<1>4. IsComment(post, req[r].comment)
  BY <1>1, <1>3 DEF IntegrityInv, ClaimInv, Claims, HasComment, OnComment
<1>5. Admits(r) => req[r].user \in live
  BY <1>3, NamesAssumption DEF Admits, References, Exists
<1>6. \A x \in likes' : x \in likes \/ (x = LikeOf(r) /\ Admits(r))
  BY DEF SaveLike
<1>7. NoOrphans'
  BY <1>1, <1>4, <1>5, <1>6 DEF IntegrityInv, NoOrphans, Referenced, LikeOf, IsComment, IsReply
<1> QED
  BY <1>2, <1>7
----------------------------------------------------------------------------
(* Removals *)

LEMMA ChildrenSplit ==
    ASSUME TypeInv, NEW c, NEW x \in Children(c)
    PROVE  \/ x \in Ids /\ IsReply(post, x) /\ post[x].parent = c
           \/ x \in Like /\ x \in likes /\ x[1] = c
BY DEF Children, TypeInv, TypeOK

\* What a removal takes: its root, rows of its user, and children of a comment
\* of its user.
LEMMA DoomedSplit ==
    ASSUME IntegrityInv, NEW r \in Requests, pc[r] = "remove", NEW x \in Doomed(r)
    PROVE  \/ x \in Users /\ x = req[r].user /\ req[r].kind = "withdraw"
           \/ /\ x \in Ids /\ post[x] # None /\ post[x].author = req[r].user
              /\ IsReply(post, x) \/ req[r].kind \in {"delete", "withdraw"}
           \/ x \in Like /\ x \in likes /\ x[2] = req[r].user /\ req[r].kind = "withdraw"
           \/ /\ req[r].kind \in {"delete", "withdraw"}
              /\ \E c \in Ids : /\ IsComment(post, c) /\ post[c].author = req[r].user
                               /\ x \in Children(c)
<1>1. TypeInv /\ req[r].kind \in {"delete", "deleteReply", "withdraw"} /\ req[r].user \in Users
  BY RequestFields DEF IntegrityInv, KindsAt, Complete
<1>2. CASE req[r].kind = "delete"
  <2>1. req[r].comment \in Ids /\ HasComment(r)
    BY <1>1, <1>2, RequestFields DEF IntegrityInv, ClaimInv, Claims, OnComment, Complete
  <2> QED
    BY <1>2, <2>1 DEF Doomed, HasComment, IsComment
<1>3. CASE req[r].kind = "deleteReply"
  <2>1. req[r].reply \in Ids /\ HasReply(r)
    BY <1>1, <1>3, RequestFields DEF IntegrityInv, ClaimInv, Claims, OnReply, Complete
  <2> QED
    BY <1>3, <2>1 DEF Doomed, HasReply, IsReply
<1>4. CASE req[r].kind = "withdraw"
  <2>1. CASE x \in UNION {Children(c) : c \in CommentsBy(req[r].user)}
    BY <1>4, <2>1 DEF CommentsBy
  <2>2. CASE x \in {req[r].user} \cup CommentsBy(req[r].user) \cup RepliesBy(req[r].user) \cup LikesBy(req[r].user)
    BY <1>1, <1>4, <2>2 DEF CommentsBy, RepliesBy, LikesBy, IsComment, IsReply, TypeInv, TypeOK
  <2> QED
    BY <1>4, <2>1, <2>2 DEF Doomed
<1> QED
  BY <1>1, <1>2, <1>3, <1>4

\* A doomed comment is of its user, and takes its children along.
LEMMA DoomedComment ==
    ASSUME IntegrityInv, NEW r \in Requests, pc[r] = "remove",
           NEW c \in Ids, IsComment(post, c), c \in Doomed(r)
    PROVE  Children(c) \subseteq Doomed(r)
<1>1. TypeInv /\ req[r].kind \in {"delete", "deleteReply", "withdraw"}
  BY RequestFields DEF IntegrityInv, KindsAt
<1>2. ~IsReply(post, c) /\ c \notin Like /\ c \notin Users
  BY NamesAssumption DEF IsReply, IsComment
<1>3. \A k : c \notin Children(k)
  BY <1>1, <1>2, ChildrenSplit
<1>4. CASE req[r].kind = "delete"
  BY <1>3, <1>4 DEF Doomed
<1>5. CASE req[r].kind = "deleteReply"
  BY <1>1, <1>2, <1>5 DEF Doomed, IntegrityInv, ClaimInv, Claims, HasReply, OnReply
<1>6. CASE req[r].kind = "withdraw"
  <2>1. req[r].user \in Users /\ likes \subseteq Like
    BY <1>1, <1>6, RequestFields DEF Complete, TypeInv, TypeOK
  <2>2. c \in CommentsBy(req[r].user)
    BY <1>2, <1>3, <1>6, <2>1 DEF Doomed, RepliesBy, LikesBy
  <2> QED
    BY <1>6, <2>2 DEF Doomed
<1> QED
  BY <1>1, <1>4, <1>5, <1>6

\* A doomed account takes all its rows along.
LEMMA DoomedAccount ==
    ASSUME IntegrityInv, NEW r \in Requests, pc[r] = "remove", NEW u \in Users, u \in Doomed(r)
    PROVE  CommentsBy(u) \cup RepliesBy(u) \cup LikesBy(u) \subseteq Doomed(r)
<1>1. u \notin Ids /\ u \notin Like
  BY NamesAssumption
<1>2. \A k : u \notin Children(k)
  BY <1>1, ChildrenSplit DEF IntegrityInv
<1>3. u = req[r].user /\ req[r].kind = "withdraw"
  BY <1>1, <1>2, DoomedSplit
<1> QED
  BY <1>3 DEF Doomed

LEMMA CommitRemovalKeeps ==
    ASSUME IntegrityInv, NEW r \in Requests, CommitRemoval(r)
    PROVE  ClaimInv' /\ NoOrphans'
<1> DEFINE D == Doomed(r)
<1>1. /\ pc[r] = "remove" /\ D \subseteq locks[r]
      /\ live' = live \ D /\ likes' = likes \ D
      /\ \A i \in Ids : post'[i] = IF i \in D THEN None ELSE post[i]
      /\ Respond(r, "ok") /\ UNCHANGED <<req, mem>>
  BY DEF CommitRemoval
<1>2. TypeInv /\ NoOrphans /\ Exclusive
  BY DEF IntegrityInv, ClaimInv
<1> HIDE DEF D
<1>3. \A o \in Requests \ {r} : \A i \in Ids \cap locks[o] : Kept(i)
  BY <1>1, <1>2 DEF Exclusive, Kept
<1>4. ClaimInv'
  BY <1>1, <1>3, AnswersNamed, AnswerKeepsClaims DEF Ids
<1>5. \A i \in Ids : /\ IsComment(post, i) /\ i \notin D => IsComment(post, i)'
                     /\ post'[i] # None => i \notin D /\ post[i] # None /\ post'[i] = post[i]
  BY <1>1 DEF IsComment
<1>6. \A i \in Ids : post'[i] # None => post'[i].author \in live'
  <2> SUFFICES ASSUME NEW i \in Ids, post'[i] # None PROVE post'[i].author \in live'
    OBVIOUS
  <2>1. i \notin D /\ post[i] # None /\ post'[i] = post[i]
    BY <1>5
  <2>2. post[i].author \in live /\ post[i].author \in Users
    BY <1>2, <2>1, ReferencesTyped DEF NoOrphans, Referenced
  <2>3. i \in CommentsBy(post[i].author) \cup RepliesBy(post[i].author)
    BY <2>1 DEF CommentsBy, RepliesBy, IsComment, IsReply
  <2>4. post[i].author \notin D
    BY <1>1, <2>1, <2>2, <2>3, DoomedAccount DEF D
  <2> QED
    BY <1>1, <2>1, <2>2, <2>4
<1>7. \A i \in Ids : IsReply(post, i)' => IsComment(post, post[i].parent)'
  <2> SUFFICES ASSUME NEW i \in Ids, IsReply(post, i)' PROVE IsComment(post, post[i].parent)'
    OBVIOUS
  <2>1. i \notin D /\ post'[i] = post[i] /\ IsReply(post, i)
    BY <1>5 DEF IsReply
  <2>2. post[i].parent \in Ids /\ IsComment(post, post[i].parent)
    BY <1>2, <2>1, ReferencesTyped DEF NoOrphans, Referenced
  <2>3. i \in Children(post[i].parent)
    BY <2>1 DEF Children
  <2>4. post[i].parent \notin D
    BY <1>1, <2>1, <2>2, <2>3, DoomedComment DEF D
  <2> QED
    BY <1>5, <2>1, <2>2, <2>4 DEF IsComment
<1>8. \A x \in likes' : IsComment(post, x[1])' /\ x[2] \in live'
  <2> SUFFICES ASSUME NEW x \in likes' PROVE IsComment(post, x[1])' /\ x[2] \in live'
    OBVIOUS
  <2>1. x \in likes /\ x \notin D
    BY <1>1
  <2>2. x[1] \in Ids /\ x[2] \in Users /\ IsComment(post, x[1]) /\ x[2] \in live
    BY <1>2, <2>1, ReferencesTyped DEF NoOrphans, Referenced
  <2>3. x \in Children(x[1]) /\ x \in LikesBy(x[2])
    BY <2>1 DEF Children, LikesBy
  <2>4. x[1] \notin D /\ x[2] \notin D
    BY <1>1, <2>1, <2>2, <2>3, DoomedComment, DoomedAccount DEF D
  <2> QED
    BY <1>1, <1>5, <2>2, <2>4
<1>9. NoOrphans'
  BY <1>6, <1>7, <1>8 DEF NoOrphans, Referenced, IsReply, IsComment
<1> QED
  BY <1>4, <1>9
----------------------------------------------------------------------------
(* The invariant *)

LEMMA InitKeeps == Init => IntegrityInv
<1> SUFFICES ASSUME Init PROVE IntegrityInv
  OBVIOUS
<1>1. PICK h \in Histories : post = h.post /\ likes = h.likes
  BY DEF Init
<1>2. NoOrphans /\ \A r \in Requests : post[r] = None
  BY <1>1, HistoriesAssumption DEF Init, NoOrphans
<1>3. ClaimInv
  BY <1>2 DEF Init, ClaimInv, Exclusive, Claims, Fresh
<1> QED
  BY <1>2, <1>3, InitTyped DEF IntegrityInv

LEMMA RequestKeeps ==
    ASSUME IntegrityInv, NEW r \in Requests, Arrive(r) \/ Serve(r) \/ Die(r)
    PROVE  IntegrityInv'
<1>1. CASE Arrive(r)
  BY <1>1, ArriveTyped, ArriveKeeps DEF IntegrityInv
<1>2. CASE LockComment(r)
  BY <1>2, LockCommentTyped, LockCommentKeeps DEF IntegrityInv
<1>3. CASE LockReply(r)
  BY <1>3, LockReplyTyped, LockReplyKeeps DEF IntegrityInv
<1>4. CASE Insert(r)
  BY <1>4, InsertTyped, InsertKeeps DEF IntegrityInv
<1>5. CASE Write(r)
  BY <1>5, WriteTyped, WriteKeeps DEF IntegrityInv
<1>6. CASE ReadLike(r)
  BY <1>6, ReadLikeTyped, ReadLikeKeeps DEF IntegrityInv
<1>7. CASE SaveLike(r)
  BY <1>7, SaveLikeTyped, SaveLikeKeeps DEF IntegrityInv
<1>8. CASE LockAccount(r)
  BY <1>8, LockAccountTyped, LockAccountKeeps DEF IntegrityInv
<1>9. CASE LockDoomed(r)
  BY <1>9, LockDoomedTyped, LockDoomedKeeps DEF IntegrityInv
<1>10. CASE CommitRemoval(r)
  BY <1>10, CommitRemovalTyped, CommitRemovalKeeps DEF IntegrityInv, CommitRemoval
<1>11. CASE ListComments(r) \/ LoadAuthors(r) \/ ListReplies(r) \/ LoadReplyAuthors(r)
  BY <1>11, ListingTyped, ListingKeeps DEF IntegrityInv
<1>12. CASE BreakDeadlock(r)
  BY <1>12, VictimIsServed, RaiseTyped, RaiseKeeps DEF IntegrityInv
<1>13. CASE Die(r)
  BY <1>13, RaiseTyped, RaiseKeeps DEF IntegrityInv, Die
<1> QED
  BY <1>1, <1>2, <1>3, <1>4, <1>5, <1>6, <1>7, <1>8, <1>9, <1>10, <1>11, <1>12, <1>13 DEF Serve

LEMMA StutterKeeps == ASSUME IntegrityInv, UNCHANGED vars PROVE IntegrityInv'
<1>1. TypeInv'
  BY DEF vars, IntegrityInv, TypeInv, TypeOK, HandlerOK
<1>2. \A o \in Requests : Claims(o)'
  BY OthersKeep DEF vars, Kept
<1>3. ClaimInv'
  BY <1>2 DEF vars, IntegrityInv, ClaimInv, Exclusive, Fresh
<1>4. NoOrphans'
  BY QuietNoOrphans DEF vars, Unchanged, IntegrityInv
<1> QED
  BY <1>1, <1>3, <1>4 DEF IntegrityInv

\* Every step keeps types, claims and foreign keys.
THEOREM Integrity == Spec => []IntegrityInv
<1>1. IntegrityInv /\ [Next]_vars => IntegrityInv'
  BY RequestKeeps, StutterKeeps DEF Next, Terminating
<1> QED
  BY <1>1, InitKeeps, PTL DEF Spec

\* Tables, locks and handler variables keep their types.
THEOREM TypeCorrect == Spec => []TypeOK
<1>1. IntegrityInv => TypeOK
  BY DEF IntegrityInv, TypeInv
<1> QED
  BY <1>1, Integrity, PTL

\* No post, reply or like outlives the comment or the account it belongs to.
THEOREM NeverOrphaned == Spec => []NoOrphans
<1>1. IntegrityInv => NoOrphans
  BY DEF IntegrityInv
<1> QED
  BY <1>1, Integrity, PTL

----------------------------------------------------------------------------
(* Ownership *)

LEMMA EndsWell ==
    ASSUME IntegrityInv, NEW r \in Requests, pc[r] # "done", Respond(r, "ok"),
           NEW kinds, req[r].kind \in kinds
    PROVE  EndsFor(r, kinds, req[r].user)
BY DEF IntegrityInv, ClaimInv, Fresh, TypeInv, TypeOK, Respond, EndsFor

LEMMA WriteByOwner == ASSUME IntegrityInv, NEW r \in Requests, Write(r) PROVE OwnersStep
<1>1. pc[r] = "write" /\ req[r].kind \in {"edit", "editReply"} /\ Respond(r, "ok") /\ likes' = likes
  BY RequestFields DEF Write, IntegrityInv, KindsAt
<1>2. EndsFor(r, {"edit", "editReply", "delete", "deleteReply", "withdraw"}, req[r].user)
  BY <1>1, EndsWell
<1>3. \A i \in Ids : post'[i] # post[i] => post[i].author = req[r].user
  BY WriteEffect
<1> QED
  BY <1>1, <1>2, <1>3 DEF OwnersStep

LEMMA SaveLikeByOwner == ASSUME IntegrityInv, NEW r \in Requests, SaveLike(r) PROVE OwnersStep
<1>1. pc[r] = "save" /\ UNCHANGED post
  BY DEF SaveLike
<1>2. \A x \in likes \ likes' : x = LikeOf(r) /\ Removes(r) /\ Respond(r, "ok")
  BY DEF SaveLike
<1>3. \A x \in likes \ likes' : EndsFor(r, {"unlike", "withdraw"}, req[r].user) /\ x[2] = req[r].user
  BY <1>1, <1>2, EndsWell DEF Removes, LikeOf
<1> QED
  BY <1>1, <1>3 DEF OwnersStep

LEMMA RemovalByOwner == ASSUME IntegrityInv, NEW r \in Requests, CommitRemoval(r) PROVE OwnersStep
<1>1. /\ pc[r] = "remove" /\ Respond(r, "ok") /\ likes' = likes \ Doomed(r)
      /\ \A i \in Ids : post'[i] # post[i] => i \in Doomed(r)
  BY DEF CommitRemoval, IntegrityInv, TypeInv, TypeOK
<1>2. TypeInv /\ req[r].kind \in {"delete", "deleteReply", "withdraw"}
  BY <1>1, RequestFields DEF IntegrityInv, KindsAt
<1>3. EndsFor(r, {"edit", "editReply", "delete", "deleteReply", "withdraw"}, req[r].user)
  BY <1>1, <1>2, EndsWell
<1>4. req[r].kind \in {"delete", "withdraw"} => EndsFor(r, {"delete", "withdraw"}, req[r].user)
  BY <1>1, EndsWell
<1>5. req[r].kind = "withdraw" => EndsFor(r, {"unlike", "withdraw"}, req[r].user)
  BY <1>1, EndsWell
<1>6. \A i \in Ids : i \notin Users /\ i \notin Like
  BY NamesAssumption
<1>7. \A x \in Like : x \notin Users /\ x \notin Ids
  BY NamesAssumption
<1>8. ASSUME NEW i \in Ids, post[i] # None, post'[i] # post[i]
      PROVE  \/ EndsFor(r, {"edit", "editReply", "delete", "deleteReply", "withdraw"}, post[i].author)
             \/ IsReply(post, i) /\ EndsFor(r, {"delete", "withdraw"}, post[post[i].parent].author)
  <2>1. i \in Doomed(r)
    BY <1>1, <1>8
  <2>2. \/ post[i].author = req[r].user
        \/ /\ req[r].kind \in {"delete", "withdraw"}
           /\ \E c \in Ids : post[c].author = req[r].user /\ i \in Children(c)
    BY <1>1, <1>6, <2>1, DoomedSplit
  <2>3. \A c : i \in Children(c) => IsReply(post, i) /\ post[i].parent = c
    BY <1>2, <1>6, ChildrenSplit
  <2> QED
    BY <1>3, <1>4, <2>2, <2>3
<1>9. ASSUME NEW x \in likes \ likes'
      PROVE  \/ EndsFor(r, {"unlike", "withdraw"}, x[2])
             \/ EndsFor(r, {"delete", "withdraw"}, post[x[1]].author)
  <2>1. x \in Doomed(r) /\ x \in Like
    BY <1>1, <1>2, ReferencesTyped
  <2>2. \/ x[2] = req[r].user /\ req[r].kind = "withdraw"
        \/ /\ req[r].kind \in {"delete", "withdraw"}
           /\ \E c \in Ids : post[c].author = req[r].user /\ x \in Children(c)
    BY <1>1, <1>7, <2>1, DoomedSplit
  <2>3. \A c : x \in Children(c) => x[1] = c
    BY <1>2, <1>7, <2>1, ChildrenSplit
  <2> QED
    BY <1>4, <1>5, <2>2, <2>3
<1> QED
  BY <1>8, <1>9 DEF OwnersStep

LEMMA InsertByOwner == ASSUME IntegrityInv, NEW r \in Requests, Insert(r) PROVE OwnersStep
<1>1. likes' = likes
  BY DEF Insert
<1> QED
  BY <1>1, InsertEffect DEF OwnersStep

LEMMA EveryStepByOwner == ASSUME IntegrityInv, [Next]_vars PROVE OwnersStep
<1>1. CASE UNCHANGED <<post, likes>>
  BY <1>1 DEF OwnersStep
<1>2. CASE \E r \in Requests : Insert(r) \/ Write(r) \/ SaveLike(r) \/ CommitRemoval(r)
  BY <1>2, InsertByOwner, WriteByOwner, SaveLikeByOwner, RemovalByOwner
<1>3. CASE \E r \in Requests :
             \/ Arrive(r) \/ LockComment(r) \/ LockReply(r) \/ ReadLike(r)
             \/ LockAccount(r) \/ LockDoomed(r) \/ ListComments(r) \/ LoadAuthors(r)
             \/ ListReplies(r) \/ LoadReplyAuthors(r) \/ Die(r) \/ BreakDeadlock(r)
  <2>1. UNCHANGED <<post, likes>>
    BY <1>3 DEF Arrive, LockComment, LockReply, ReadLike, LockAccount, LockDoomed, ListComments,
                LoadAuthors, ListReplies, LoadReplyAuthors, Die, BreakDeadlock, Raise, Unchanged
  <2> QED
    BY <1>1, <2>1
<1> QED
  BY <1>1, <1>2, <1>3 DEF Next, Serve, Terminating, vars

\* Only owners change or remove posts and likes.
THEOREM OwnersOnly == Spec => OnlyOwnersChange
<1>1. IntegrityInv /\ [Next]_vars => [OwnersStep]_vars
  BY EveryStepByOwner
<1>2. Spec => [][OwnersStep]_vars
  BY <1>1, Integrity, PTL DEF Spec
<1> QED
  BY <1>2 DEF OnlyOwnersChange

----------------------------------------------------------------------------
(* Likes *)

\* A like or unlike that ended well.
LikeAnswered(r) == req[r].kind \in {"like", "unlike"} /\ answer[r] = "ok"

\* What set_like found is still so at the commit, unless the user is gone.
LikeKnown(r) ==
    pc[r] = "save" /\ req[r].user \in live => (mem[r].liked <=> LikeOf(r) \in likes)

\* A comment is liked after the request that inserted it.
LikedExists(r) ==
    LikeAnswered(r) => /\ req[r].comment \in Ids /\ req[r].user \in Users
                       /\ \A o \in Requests : req[r].comment = o => pc[o] = "done"

LikeInv == (\A r \in Requests : LikeKnown(r) /\ LikedExists(r)) /\ LikesAsAsked

\* A step of r concerns no other request.
OnlyOf(r) ==
    /\ pc[r] # "done"
    /\ \A o \in Requests \ {r} :
         pc'[o] = pc[o] /\ req'[o] = req[o] /\ mem'[o] = mem[o] /\ answer'[o] = answer[o]

LEMMA RespondEffect ==
    ASSUME TypeInv, NEW r \in Requests, NEW a, Respond(r, a)
    PROVE  /\ pc'[r] = "done" /\ answer'[r] = a /\ locks'[r] = {}
           /\ \A o \in Requests \ {r} :
                pc'[o] = pc[o] /\ answer'[o] = answer[o] /\ locks'[o] = locks[o]
BY DEF TypeInv, TypeOK, Respond

LEMMA ArriveOnlyOf == ASSUME IntegrityInv, NEW r \in Requests, Arrive(r) PROVE OnlyOf(r)
<1>1. PICK x \in Sends[r] :
         /\ req' = [req EXCEPT ![r] = x]
         /\ \/ \E a \in {"unauthorized", "notFound"} : Respond(r, a)
            \/ GoTo(r, First(x.kind)) /\ UNCHANGED <<locks, answer>>
  BY DEF Arrive
<1>2. \A o \in Requests \ {r} : pc'[o] = pc[o] /\ answer'[o] = answer[o]
  BY <1>1, RespondEffect, StepEffect DEF IntegrityInv, TypeInv
<1>3. \A o \in Requests \ {r} : req'[o] = req[o]
  BY <1>1 DEF IntegrityInv, TypeInv, TypeOK
<1>4. pc[r] # "done" /\ UNCHANGED mem
  BY DEF Arrive
<1> QED
  BY <1>2, <1>3, <1>4 DEF OnlyOf

\* Every other step moves on or answers, and leaves the requests alone.
LEMMA MoveOnlyOf ==
    ASSUME IntegrityInv, NEW r \in Requests, pc[r] # "done", UNCHANGED req,
           \A o \in Requests \ {r} : mem'[o] = mem[o],
           \/ \E a \in Answers : Respond(r, a)
           \/ (\E step \in Steps : GoTo(r, step)) /\ UNCHANGED answer
           \/ UNCHANGED <<pc, answer>>
    PROVE  OnlyOf(r)
BY RespondEffect, StepEffect DEF IntegrityInv, TypeInv, OnlyOf

LEMMA ServeOnlyOf == ASSUME IntegrityInv, NEW r \in Requests, Serve(r) PROVE OnlyOf(r)
<1> DEFINE others == \A o \in Requests \ {r} : mem'[o] = mem[o]
           moves == \/ \E a \in Answers : Respond(r, a)
                    \/ (\E step \in Steps : GoTo(r, step)) /\ UNCHANGED answer
                    \/ UNCHANGED <<pc, answer>>
<1>1. mem \in [Requests -> Memory]
  BY DEF IntegrityInv, TypeInv, TypeOK
<1>2. CASE Insert(r) \/ Write(r) \/ SaveLike(r) \/ CommitRemoval(r) \/ LoadReplyAuthors(r)
  <2>1. pc[r] # "done" /\ UNCHANGED <<req, mem>> /\ moves
    BY <1>2, AnswersNamed DEF Insert, Write, SaveLike, CommitRemoval, LoadReplyAuthors
  <2> QED
    BY <2>1, MoveOnlyOf
<1>3. CASE LockComment(r)
  <2>1. AfterComment(req[r].kind) \in Steps
    BY DEF AfterComment, Steps
  <2>2. pc[r] # "done" /\ UNCHANGED <<req, mem>> /\ moves
    BY <1>3, <2>1, AnswersNamed DEF LockComment
  <2> QED
    BY <2>2, MoveOnlyOf
<1>4. CASE LockReply(r) \/ LockAccount(r) \/ LockDoomed(r)
  <2>1. {"write", "remove"} \subseteq Steps
    BY DEF Steps
  <2>2. pc[r] # "done" /\ UNCHANGED <<req, mem>> /\ moves
    BY <1>4, <2>1, AnswersNamed DEF LockReply, LockAccount, LockDoomed
  <2> QED
    BY <2>2, MoveOnlyOf
<1>5. CASE ReadLike(r) \/ ListComments(r) \/ LoadAuthors(r) \/ ListReplies(r)
  <2>1. {"save", "authors", "replies", "replyAuthors"} \subseteq Steps
    BY DEF Steps
  <2>2. pc[r] # "done" /\ UNCHANGED req /\ moves
    BY <1>5, <2>1 DEF ReadLike, ListComments, LoadAuthors, ListReplies
  <2>3. others
    BY <1>1, <1>5 DEF ReadLike, ListComments, LoadAuthors, ListReplies
  <2> QED
    BY <2>2, <2>3, MoveOnlyOf
<1>6. CASE BreakDeadlock(r)
  <2>1. WaitsFor(r) # {} /\ Raise(r)
    BY <1>6 DEF BreakDeadlock
  <2>2. pc[r] # "done"
    BY <2>1 DEF WaitsFor, Wanted
  <2> QED
    BY <2>1, <2>2, AnswersNamed, MoveOnlyOf DEF Raise
<1> QED
  BY <1>2, <1>3, <1>4, <1>5, <1>6 DEF Serve

LEMMA StepOnlyOf ==
    ASSUME IntegrityInv, NEW r \in Requests, Arrive(r) \/ Serve(r) \/ Die(r)
    PROVE  OnlyOf(r)
<1>1. CASE Die(r)
  BY <1>1, AnswersNamed, MoveOnlyOf DEF Die, Raise
<1> QED
  BY <1>1, ArriveOnlyOf, ServeOnlyOf

\* A like may only be asked for once it is answered: a step that ends no like
\* or unlike, and changes no like of a comment and a user that are still there,
\* leaves every request to like answered as it was.
LEMMA LikesStay ==
    ASSUME IntegrityInv, LikeInv, NEW r \in Requests, OnlyOf(r), TypeInv', ~LikeAnswered(r)',
           \A x \in Like : IsComment(post, x[1])' /\ x[2] \in live' =>
               \/ x[1] = r
               \/ IsComment(post, x[1]) /\ x[2] \in live /\ (x \in likes' <=> x \in likes)
    PROVE  LikesAsAsked' /\ \A o \in Requests : LikedExists(o)'
<1>1. answer[r] = "none" /\ pc[r] # "done"
  BY DEF IntegrityInv, ClaimInv, Fresh, OnlyOf
<1>2. \A o \in Requests : LikeAnswered(o)' => o # r /\ LikeAnswered(o) /\ LikeOf(o)' = LikeOf(o)
                                              /\ req'[o] = req[o] /\ answer'[o] = answer[o]
  BY DEF OnlyOf, LikeAnswered, LikeOf
<1>3. \A o \in Requests : LikedExists(o)'
  <2> SUFFICES ASSUME NEW o \in Requests, LikeAnswered(o)'
               PROVE  /\ req'[o].comment \in Ids /\ req'[o].user \in Users
                      /\ \A p \in Requests : req'[o].comment = p => pc'[p] = "done"
    BY DEF LikedExists
  <2>1. LikeAnswered(o) /\ req'[o] = req[o] /\ LikedExists(o)
    BY <1>2 DEF LikeInv
  <2> QED
    BY <1>1, <2>1 DEF LikedExists, OnlyOf
<1>4. \A x, kind : kind \in {"like", "unlike"} => (Answered(kind, x)' <=> Answered(kind, x))
  <2> SUFFICES ASSUME NEW x, NEW kind \in {"like", "unlike"}
               PROVE  Answered(kind, x)' <=> Answered(kind, x)
    OBVIOUS
  <2>1. ASSUME NEW o \in Requests, req'[o].kind = kind, LikeOf(o)' = x, answer'[o] = "ok"
        PROVE  Answered(kind, x)
    <3>1. LikeAnswered(o)'
      BY <2>1 DEF LikeAnswered
    <3> QED
      BY <1>2, <2>1, <3>1 DEF Answered, LikeAnswered
  <2>2. ASSUME NEW o \in Requests, req[o].kind = kind, LikeOf(o) = x, answer[o] = "ok"
        PROVE  Answered(kind, x)'
    <3>1. o # r
      BY <1>1, <2>2
    <3>2. req'[o] = req[o] /\ answer'[o] = answer[o]
      BY <3>1 DEF OnlyOf
    <3> QED
      BY <2>2, <3>2 DEF Answered, LikeOf
  <2> QED
    BY <2>1, <2>2 DEF Answered
<1>5. \A x, kind : kind \in {"like", "unlike"} /\ x[1] = r => ~Answered(kind, x)
  <2> SUFFICES ASSUME NEW x, NEW kind \in {"like", "unlike"}, x[1] = r, Answered(kind, x) PROVE FALSE
    OBVIOUS
  <2>1. PICK o \in Requests : req[o].kind = kind /\ LikeOf(o) = x /\ answer[o] = "ok"
    BY DEF Answered
  <2>2. req[o].comment = r
    BY <2>1 DEF LikeOf
  <2> QED
    BY <1>1, <2>1, <2>2 DEF LikeInv, LikedExists, LikeAnswered
<1>6. LikesAsAsked'
  <2> SUFFICES ASSUME NEW x \in Like, IsComment(post, x[1])', x[2] \in live'
               PROVE  /\ Answered("like", x)' /\ ~Answered("unlike", x)' => x \in likes'
                      /\ Answered("unlike", x)' /\ ~Answered("like", x)' => x \notin likes'
    BY DEF LikesAsAsked
  <2>1. CASE x[1] = r
    BY <1>4, <1>5, <2>1
  <2>2. CASE x[1] # r
    <3>1. IsComment(post, x[1]) /\ x[2] \in live /\ (x \in likes' <=> x \in likes)
      BY <2>2
    <3>2. /\ Answered("like", x)' <=> Answered("like", x)
          /\ Answered("unlike", x)' <=> Answered("unlike", x)
      BY <1>4
    <3>3. /\ Answered("like", x) /\ ~Answered("unlike", x) => x \in likes
          /\ Answered("unlike", x) /\ ~Answered("like", x) => x \notin likes
      BY <3>1 DEF LikeInv, LikesAsAsked
    <3> QED
      BY <3>1, <3>2, <3>3
  <2> QED
    BY <2>1, <2>2
<1> QED
  BY <1>3, <1>6

\* Others' findings stand when their likes do.
LEMMA FindingsStand ==
    ASSUME LikeInv, NEW r \in Requests, OnlyOf(r), live' \subseteq live,
           \A o \in Requests \ {r} :
               pc[o] = "save" /\ req[o].user \in live' => (LikeOf(o) \in likes' <=> LikeOf(o) \in likes)
    PROVE  \A o \in Requests \ {r} : LikeKnown(o)'
BY DEF LikeInv, LikeKnown, OnlyOf, LikeOf

\* A step that leaves posts of others and likes alone and does not end a like.
LEMMA QuietKeepsLikes ==
    ASSUME IntegrityInv, LikeInv, NEW r \in Requests, OnlyOf(r), TypeInv', ~LikeAnswered(r)',
           UNCHANGED <<live, likes>>, \A i \in Ids \ {r} : post'[i] = post[i], LikeKnown(r)'
    PROVE  LikeInv'
<1>1. \A o \in Requests : LikeKnown(o)'
  BY FindingsStand
<1>2. \A x \in Like : x[1] \in Ids
  BY DEF Like
<1>3. \A x \in Like : IsComment(post, x[1])' /\ x[2] \in live' =>
               \/ x[1] = r
               \/ IsComment(post, x[1]) /\ x[2] \in live /\ (x \in likes' <=> x \in likes)
  BY <1>2 DEF IsComment
<1>4. LikesAsAsked' /\ \A o \in Requests : LikedExists(o)'
  BY <1>3, LikesStay
<1> QED
  BY <1>1, <1>4 DEF LikeInv

LEMMA ReadLikeFinds ==
    ASSUME IntegrityInv, NEW r \in Requests, ReadLike(r)
    PROVE  LikeKnown(r)' /\ answer'[r] # "ok"
<1>1. pc[r] = "like" /\ answer[r] = "none" /\ answer' = answer
  BY DEF ReadLike, IntegrityInv, ClaimInv, Fresh
<1>2. mem'[r].liked <=> LikeOf(r) \in likes
  <2> DEFINE m == [mem[r] EXCEPT !.liked = LikeOf(r) \in likes]
  <2>1. mem[r] \in Memory
    BY DEF IntegrityInv, TypeInv, TypeOK
  <2>2. m.liked = (LikeOf(r) \in likes)
    BY <2>1 DEF Memory
  <2>3. mem' = [mem EXCEPT ![r] = m]
    BY DEF ReadLike
  <2> HIDE DEF m
  <2>4. mem'[r] = m
    BY <2>3 DEF IntegrityInv, TypeInv, TypeOK
  <2> QED
    BY <2>2, <2>4
<1> QED
  BY <1>1, <1>2 DEF ReadLike, Unchanged, LikeKnown, LikeOf

\* Only set_like's commit ends a like or an unlike well.
LEMMA EndsNoLike ==
    ASSUME IntegrityInv, NEW r \in Requests, Arrive(r) \/ Serve(r) \/ Die(r), ~SaveLike(r)
    PROVE  ~LikeAnswered(r)'
<1>1. answer[r] = "none" \/ pc[r] = "done"
  BY DEF IntegrityInv, ClaimInv, Fresh
<1>2. CASE Arrive(r) \/ LockComment(r) \/ LockReply(r) \/ Die(r) \/ BreakDeadlock(r)
  <2>1. pc[r] # "done"
    BY <1>2, StepOnlyOf DEF OnlyOf, Serve
  <2>2. answer' = answer \/ \E a \in Answers \ {"ok"} : Respond(r, a)
    BY <1>2 DEF Arrive, LockComment, LockReply, Die, BreakDeadlock, Raise, Answers
  <2> QED
    BY <1>1, <2>1, <2>2, RespondEffect DEF LikeAnswered, IntegrityInv
<1>3. CASE \/ ReadLike(r) \/ LockDoomed(r) \/ ListComments(r) \/ LoadAuthors(r) \/ ListReplies(r)
  BY <1>1, <1>3 DEF ReadLike, LockDoomed, ListComments, LoadAuthors, ListReplies, LikeAnswered
<1>4. CASE Insert(r) \/ Write(r) \/ LockAccount(r) \/ CommitRemoval(r) \/ LoadReplyAuthors(r)
  <2>1. pc[r] \in {"insert", "write", "account", "remove", "replyAuthors"} /\ req' = req
    BY <1>4 DEF Insert, Write, LockAccount, CommitRemoval, LoadReplyAuthors
  <2>2. req[r].kind \notin {"like", "unlike"}
    BY <2>1, RequestFields DEF IntegrityInv, KindsAt
  <2> QED
    BY <2>1, <2>2 DEF LikeAnswered
<1> QED
  BY <1>2, <1>3, <1>4 DEF Serve

\* A request that was not at set_like's commit knows nothing there.
LEMMA NoFinding ==
    ASSUME IntegrityInv, NEW r \in Requests, Arrive(r) \/ Serve(r) \/ Die(r), ~ReadLike(r)
    PROVE  LikeKnown(r)'
<1>1. CASE \E a \in Answers : Respond(r, a)
  BY <1>1, RespondEffect DEF LikeKnown, IntegrityInv
<1>2. CASE \E step \in Steps \ {"save"} : GoTo(r, step)
  BY <1>2, StepEffect DEF LikeKnown, IntegrityInv, TypeInv
<1>3. CASE LockDoomed(r)
  BY <1>3 DEF LockDoomed, LikeKnown
<1>4. CASE Arrive(r)
  <2>1. PICK x \in Sends[r] : (\E a \in {"unauthorized", "notFound"} : Respond(r, a)) \/ GoTo(r, First(x.kind))
    BY <1>4 DEF Arrive
  <2>2. First(x.kind) \in Steps \ {"save"}
    BY DEF First, Steps
  <2> QED
    BY <1>1, <1>2, <2>1, <2>2, AnswersNamed
<1>5. CASE LockComment(r)
  <2>1. AfterComment(req[r].kind) \in Steps \ {"save"}
    BY DEF AfterComment, Steps
  <2> QED
    BY <1>1, <1>2, <1>5, <2>1, AnswersNamed DEF LockComment
<1>6. CASE LockReply(r) \/ LockAccount(r) \/ ListComments(r) \/ LoadAuthors(r) \/ ListReplies(r)
  <2>1. {"write", "remove", "authors", "replies", "replyAuthors"} \subseteq Steps \ {"save"}
    BY DEF Steps
  <2> QED
    BY <1>1, <1>2, <1>6, <2>1, AnswersNamed
       DEF LockReply, LockAccount, ListComments, LoadAuthors, ListReplies
<1>7. CASE Insert(r) \/ Write(r) \/ SaveLike(r) \/ CommitRemoval(r) \/ LoadReplyAuthors(r)
  BY <1>1, <1>7, AnswersNamed DEF Insert, Write, SaveLike, CommitRemoval, LoadReplyAuthors
<1>8. CASE BreakDeadlock(r) \/ Die(r)
  BY <1>1, <1>8, AnswersNamed DEF BreakDeadlock, Die, Raise
<1> QED
  BY <1>3, <1>4, <1>5, <1>6, <1>7, <1>8 DEF Serve

\* What a removal takes of the likes goes with its user or its comment.
LEMMA DoomedLike ==
    ASSUME IntegrityInv, NEW r \in Requests, pc[r] = "remove", NEW x \in Like, x \in Doomed(r)
    PROVE  x[2] \in Doomed(r) \/ x[1] \in Doomed(r)
<1>1. TypeInv /\ req[r].kind \in {"delete", "deleteReply", "withdraw"}
  BY RequestFields DEF IntegrityInv, KindsAt
<1>2. x \notin Users /\ x \notin Ids
  BY NamesAssumption
<1>3. \A c : x \in Children(c) => x[1] = c
  BY <1>1, <1>2, ChildrenSplit
<1>4. req[r].comment \in Ids \/ req[r].kind # "delete"
  BY <1>1, RequestFields DEF Complete, OnComment
<1>5. req[r].reply \in Ids \/ req[r].kind # "deleteReply"
  BY <1>1, RequestFields DEF Complete, OnReply
<1>6. CASE req[r].kind = "delete"
  BY <1>2, <1>3, <1>4, <1>6 DEF Doomed
<1>7. CASE req[r].kind = "deleteReply"
  BY <1>2, <1>5, <1>7 DEF Doomed
<1>8. CASE req[r].kind = "withdraw"
  <2> DEFINE u == req[r].user
  <2>1. u \in Users
    BY <1>1, <1>8, RequestFields DEF Complete
  <2>2. x \in UNION {Children(c) : c \in CommentsBy(u)} \/ x \in LikesBy(u)
    BY <1>2, <1>8, <2>1 DEF Doomed, CommentsBy, RepliesBy
  <2>3. CASE x \in LikesBy(u)
    BY <1>8, <2>3 DEF Doomed, LikesBy
  <2>4. CASE x \in UNION {Children(c) : c \in CommentsBy(u)}
    BY <1>3, <1>8, <2>4 DEF Doomed
  <2> QED
    BY <2>2, <2>3, <2>4
<1> QED
  BY <1>1, <1>6, <1>7, <1>8

LEMMA RemovalKeepsLikes ==
    ASSUME IntegrityInv, LikeInv, NEW r \in Requests, CommitRemoval(r), TypeInv', OnlyOf(r),
           ~LikeAnswered(r)', LikeKnown(r)'
    PROVE  LikeInv'
<1> DEFINE D == Doomed(r)
<1>1. /\ pc[r] = "remove" /\ D \subseteq locks[r] /\ live' = live \ D /\ likes' = likes \ D
      /\ \A i \in Ids : post'[i] = IF i \in D THEN None ELSE post[i]
  BY DEF CommitRemoval
<1>2. \A x \in Like : x \in D => x[2] \in D \/ x[1] \in D
  BY <1>1, DoomedLike
<1> HIDE DEF D
<1>3. \A x \in Like : x[1] \in Ids
  BY DEF Like
<1>4. \A x \in Like : IsComment(post, x[1])' /\ x[2] \in live' =>
               \/ x[1] = r
               \/ IsComment(post, x[1]) /\ x[2] \in live /\ (x \in likes' <=> x \in likes)
  BY <1>1, <1>2, <1>3 DEF IsComment
<1>5. LikesAsAsked' /\ \A o \in Requests : LikedExists(o)'
  BY <1>4, LikesStay
<1>6. ASSUME NEW o \in Requests \ {r}, pc[o] = "save", req[o].user \in live'
      PROVE  LikeOf(o) \in likes' <=> LikeOf(o) \in likes
  <2>1. req[o].kind \in {"like", "unlike"}
    BY <1>6, RequestFields DEF IntegrityInv, KindsAt
  <2>2. req[o].comment \in Ids /\ req[o].user \in Users /\ req[o].comment \in locks[o]
    BY <1>6, <2>1, RequestFields DEF IntegrityInv, ClaimInv, Claims, HasComment, OnComment, Complete
  <2>3. req[o].comment \notin D
    BY <1>1, <2>2 DEF IntegrityInv, ClaimInv, Exclusive
  <2>4. LikeOf(o) \in Like /\ LikeOf(o)[1] = req[o].comment /\ LikeOf(o)[2] = req[o].user
    BY <2>2 DEF LikeOf, Like
  <2> QED
    BY <1>1, <1>2, <1>6, <2>3, <2>4
<1>7. \A o \in Requests : LikeKnown(o)'
  <2>1. live' \subseteq live
    BY <1>1
  <2> QED
    BY <1>6, <2>1, FindingsStand
<1> QED
  BY <1>5, <1>7 DEF LikeInv

\* The commit of set_like leaves the like as it was asked for, unless the user
\* has gone, and touches no other like.
LEMMA SaveLikeEffect ==
    ASSUME IntegrityInv, LikeInv, NEW r \in Requests, SaveLike(r)
    PROVE  /\ req[r].kind \in {"like", "unlike"} /\ LikeOf(r) \in Like
           /\ req[r].comment \in Ids \cap locks[r] /\ req[r].user \in Users
           /\ IsComment(post, req[r].comment)
           /\ UNCHANGED <<live, post, req>>
           /\ \A x : x # LikeOf(r) => (x \in likes' <=> x \in likes)
           /\ answer'[r] = "ok" /\ req[r].user \in live =>
                (LikeOf(r) \in likes' <=> req[r].kind = "like")
<1>1. pc[r] = "save" /\ UNCHANGED <<live, post, req>>
  BY DEF SaveLike
<1>2. req[r].kind \in {"like", "unlike"}
  BY <1>1, RequestFields DEF IntegrityInv, KindsAt
<1>3. req[r].comment \in Ids /\ req[r].user \in Users
  BY <1>1, <1>2, RequestFields DEF IntegrityInv, Complete, OnComment
<1>4. req[r].comment \in locks[r] /\ IsComment(post, req[r].comment)
  BY <1>1, <1>2 DEF IntegrityInv, ClaimInv, Claims, HasComment, OnComment
<1>5. LikeOf(r) \in Like
  BY <1>3 DEF LikeOf, Like
<1>6. \A x : x # LikeOf(r) => (x \in likes' <=> x \in likes)
  BY DEF SaveLike
<1>7. ASSUME answer'[r] = "ok", req[r].user \in live
      PROVE  LikeOf(r) \in likes' <=> req[r].kind = "like"
  <2>1. mem[r].liked <=> LikeOf(r) \in likes
    BY <1>1, <1>7 DEF LikeInv, LikeKnown
  <2>2. CASE Adds(r) /\ likes' = likes \cup {LikeOf(r)}
    BY <2>2 DEF Adds
  <2>3. CASE Adds(r) /\ Respond(r, "error")
    BY <1>7, <2>3, RespondEffect DEF IntegrityInv
  <2>4. CASE Removes(r) /\ likes' = likes \ {LikeOf(r)}
    BY <2>4 DEF Removes
  <2>5. CASE ~Adds(r) /\ ~Removes(r) /\ UNCHANGED likes
    BY <1>2, <2>1, <2>5 DEF Adds, Removes
  <2> QED
    BY <2>2, <2>3, <2>4, <2>5 DEF SaveLike
<1> QED
  BY <1>1, <1>2, <1>3, <1>4, <1>5, <1>6, <1>7

LEMMA SaveLikeKeepsLikes ==
    ASSUME IntegrityInv, LikeInv, NEW r \in Requests, SaveLike(r), OnlyOf(r), LikeKnown(r)'
    PROVE  LikeInv'
<1>1. /\ req[r].kind \in {"like", "unlike"} /\ LikeOf(r) \in Like
      /\ req[r].comment \in Ids \cap locks[r] /\ req[r].user \in Users
      /\ IsComment(post, req[r].comment)
      /\ UNCHANGED <<live, post, req>>
      /\ \A x : x # LikeOf(r) => (x \in likes' <=> x \in likes)
      /\ answer'[r] = "ok" /\ req[r].user \in live =>
           (LikeOf(r) \in likes' <=> req[r].kind = "like")
  BY SaveLikeEffect
<1>2. answer[r] = "none"
  BY DEF IntegrityInv, ClaimInv, Fresh, OnlyOf
<1>3. ASSUME NEW o \in Requests \ {r}, pc[o] = "save", req[o].user \in live'
      PROVE  LikeOf(o) \in likes' <=> LikeOf(o) \in likes
  <2>1. req[o].kind \in {"like", "unlike"}
    BY <1>3, RequestFields DEF IntegrityInv, KindsAt
  <2>2. req[o].comment \in locks[o]
    BY <1>3, <2>1 DEF IntegrityInv, ClaimInv, Claims, HasComment, OnComment
  <2>3. req[o].comment # req[r].comment
    BY <1>1, <2>2 DEF IntegrityInv, ClaimInv, Exclusive
  <2>4. LikeOf(o) # LikeOf(r)
    BY <2>3 DEF LikeOf
  <2> QED
    BY <1>1, <2>4
<1>4. \A o \in Requests : LikeKnown(o)'
  BY <1>1, <1>3, FindingsStand
<1>5. \A o \in Requests : LikedExists(o)'
  <2>1. \A o \in Requests : pc[o] = "done" => pc'[o] = "done"
    BY DEF OnlyOf
  <2>2. \A o \in Requests \ {r} : LikedExists(o)'
    <3>1. \A o \in Requests \ {r} : LikedExists(o) /\ (LikeAnswered(o)' => LikeAnswered(o)) /\ req'[o] = req[o]
      BY DEF LikeInv, LikeAnswered, OnlyOf
    <3> QED
      BY <2>1, <3>1 DEF LikedExists
  <2>3. \A o \in Requests : req[r].comment = o => pc[o] = "done"
    BY <1>1 DEF IsComment, IntegrityInv, ClaimInv, Fresh
  <2>4. LikedExists(r)'
    BY <1>1, <2>1, <2>3 DEF LikedExists
  <2> QED
    BY <2>2, <2>4
<1>6. ASSUME NEW x \in Like, IsComment(post, x[1])', x[2] \in live'
      PROVE  /\ Answered("like", x)' /\ ~Answered("unlike", x)' => x \in likes'
             /\ Answered("unlike", x)' /\ ~Answered("like", x)' => x \notin likes'
  <2>1. IsComment(post, x[1]) /\ x[2] \in live
    BY <1>1, <1>6 DEF IsComment
  <2>2. /\ Answered("like", x) /\ ~Answered("unlike", x) => x \in likes
        /\ Answered("unlike", x) /\ ~Answered("like", x) => x \notin likes
    BY <2>1 DEF LikeInv, LikesAsAsked
  <2>3. \A kind : Answered(kind, x) => Answered(kind, x)'
    <3> SUFFICES ASSUME NEW kind, NEW o \in Requests, req[o].kind = kind, LikeOf(o) = x, answer[o] = "ok"
                 PROVE  Answered(kind, x)'
      BY DEF Answered
    <3>1. o # r
      BY <1>2
    <3>2. req'[o] = req[o] /\ answer'[o] = answer[o]
      BY <3>1 DEF OnlyOf
    <3> QED
      BY <3>2 DEF Answered, LikeOf
  <2>4. \A kind : Answered(kind, x)' =>
           Answered(kind, x) \/ (x = LikeOf(r) /\ kind = req[r].kind /\ answer'[r] = "ok")
    <3> SUFFICES ASSUME NEW kind, NEW o \in Requests, req'[o].kind = kind, LikeOf(o)' = x, answer'[o] = "ok",
                        ~(x = LikeOf(r) /\ kind = req[r].kind /\ answer'[r] = "ok")
                 PROVE  Answered(kind, x)
      BY DEF Answered
    <3>1. LikeOf(o)' = LikeOf(o) /\ req'[o] = req[o]
      BY <1>1 DEF LikeOf
    <3>2. o # r
      BY <3>1
    <3>3. answer'[o] = answer[o]
      BY <3>2 DEF OnlyOf
    <3> QED
      BY <3>1, <3>3 DEF Answered
  <2>5. CASE x # LikeOf(r) \/ answer'[r] # "ok"
    <3>1. \A kind : Answered(kind, x)' <=> Answered(kind, x)
      BY <2>3, <2>4, <2>5
    <3>2. x \in likes' <=> x \in likes
      <4>1. CASE x # LikeOf(r)
        BY <1>1, <4>1
      <4>2. CASE answer'[r] # "ok"
        BY <4>2, RespondEffect DEF SaveLike, IntegrityInv
      <4> QED
        BY <2>5, <4>1, <4>2
    <3> QED
      BY <2>2, <3>1, <3>2
  <2>6. CASE x = LikeOf(r) /\ answer'[r] = "ok"
    <3>1. x \in likes' <=> req[r].kind = "like"
      <4>1. x[2] = req[r].user
        BY <2>6 DEF LikeOf
      <4> QED
        BY <1>1, <2>1, <2>6, <4>1
    <3>2. Answered(req[r].kind, x)'
      BY <1>1, <2>6 DEF Answered, LikeOf
    <3> QED
      BY <1>1, <3>1, <3>2
  <2> QED
    BY <2>5, <2>6
<1>7. LikesAsAsked'
  BY <1>6 DEF LikesAsAsked
<1> QED
  BY <1>4, <1>5, <1>7 DEF LikeInv

LEMMA StepKeepsLikes ==
    ASSUME IntegrityInv, LikeInv, NEW r \in Requests, Arrive(r) \/ Serve(r) \/ Die(r)
    PROVE  LikeInv'
<1>1. OnlyOf(r) /\ IntegrityInv' /\ TypeInv'
  BY StepOnlyOf, RequestKeeps DEF IntegrityInv
<1>2. LikeKnown(r)'
  BY NoFinding, ReadLikeFinds
<1>3. CASE SaveLike(r)
  BY <1>1, <1>2, <1>3, SaveLikeKeepsLikes
<1>4. ~SaveLike(r) => ~LikeAnswered(r)'
  BY EndsNoLike
<1>5. CASE CommitRemoval(r)
  <2>1. ~SaveLike(r)
    BY <1>5 DEF CommitRemoval, SaveLike
  <2> QED
    BY <1>1, <1>2, <1>4, <1>5, <2>1, RemovalKeepsLikes
<1>6. CASE Insert(r)
  <2>1. ~SaveLike(r) /\ UNCHANGED <<live, likes>>
    BY <1>6 DEF Insert, SaveLike
  <2> QED
    BY <1>1, <1>2, <1>4, <1>6, <2>1, InsertEffect, QuietKeepsLikes
<1>7. CASE Write(r)
  <2>1. ~SaveLike(r) /\ UNCHANGED <<live, likes>>
    BY <1>7 DEF Write, SaveLike
  <2>2. \A i \in Ids : IsComment(post, i)' <=> IsComment(post, i)
    <3>1. None \notin Post
      BY NamesAssumption
    <3> QED
      BY <1>7, <3>1, WriteEffect DEF IsComment
  <2>3. LikesAsAsked' /\ \A o \in Requests : LikedExists(o)'
    <3>1. \A x \in Like : x[1] \in Ids
      BY DEF Like
    <3> QED
      BY <1>1, <1>4, <2>1, <2>2, <3>1, LikesStay
  <2>4. \A o \in Requests : LikeKnown(o)'
    BY <1>1, <1>2, <2>1, FindingsStand
  <2> QED
    BY <2>3, <2>4 DEF LikeInv
<1>8. CASE ~SaveLike(r) /\ Unchanged
  BY <1>1, <1>2, <1>4, <1>8, QuietKeepsLikes DEF Unchanged
<1>9. CASE \/ Arrive(r) \/ LockComment(r) \/ LockReply(r) \/ ReadLike(r) \/ LockAccount(r) \/ LockDoomed(r)
           \/ ListComments(r) \/ LoadAuthors(r) \/ ListReplies(r) \/ LoadReplyAuthors(r)
           \/ BreakDeadlock(r) \/ Die(r)
  <2>1. Unchanged
    BY <1>9 DEF Arrive, LockComment, LockReply, ReadLike, LockAccount, LockDoomed, ListComments,
                LoadAuthors, ListReplies, LoadReplyAuthors, BreakDeadlock, Die, Raise
  <2> QED
    BY <1>3, <1>8, <2>1
<1> QED
  BY <1>3, <1>5, <1>6, <1>7, <1>9 DEF Serve

\* What a like has found and answered, at every step.
THEOREM LikesKnown == Spec => []LikeInv
<1>1. Init => LikeInv
  BY DEF Init, LikeInv, LikeKnown, LikedExists, LikeAnswered, LikesAsAsked, Answered
<1>2. IntegrityInv /\ LikeInv /\ [Next]_vars => LikeInv'
  <2> SUFFICES ASSUME IntegrityInv, LikeInv, [Next]_vars PROVE LikeInv'
    OBVIOUS
  <2>1. CASE UNCHANGED vars
    BY <2>1 DEF vars, LikeInv, LikeKnown, LikedExists, LikeAnswered, LikesAsAsked, Answered, LikeOf, IsComment
  <2> QED
    BY <2>1, StepKeepsLikes DEF Next, Terminating
<1> QED
  BY <1>1, <1>2, Integrity, PTL DEF Spec

\* Likes are as their users asked: between set_like's SELECT and its commit the
\* comment's row lock keeps every other request from changing the same like.
THEOREM LikesIdempotent == Spec => []LikesAsAsked
<1>1. LikeInv => LikesAsAsked
  BY DEF LikeInv
<1> QED
  BY <1>1, LikesKnown, PTL

----------------------------------------------------------------------------
(* Requests about comments do not fail one another *)

\* A request that holds a row is about a comment: it holds that comment, and
\* only rows below it.
Below(r) == {req[r].comment} \cup Children(req[r].comment)
Holding(r) ==
    locks[r] # {} =>
        /\ pc[r] \in {"reply", "insert", "write", "like", "save", "remove"}
        /\ req[r].kind \in OnComment
        /\ locks[r] \subseteq Below(r)

Unsent(r) == pc[r] = "idle" => req[r] = NoRequest

\* Unless somebody withdraws, accounts stay, listings find every author, and
\* requests lock below their comment.
Calm == ~Withdrawing => live = Users /\ \A r \in Requests : mem[r].whole /\ Holding(r)
CalmInv == (\A r \in Requests : Unsent(r)) /\ Calm /\ OnlyWithdrawalsFail

\* The other requests' rows stay below their comments in a step that takes no
\* row they hold.
LEMMA OthersHold ==
    ASSUME IntegrityInv, NEW r \in Requests, OnlyOf(r), NEW o \in Requests \ {r}, Holding(o),
           locks'[o] = locks[o],
           \A i \in Ids \cap locks[o] : Kept(i),
           \A x \in likes \cap locks[o] : x \in likes'
    PROVE  Holding(o)'
<1> SUFFICES ASSUME locks[o] # {}
             PROVE  /\ pc[o] \in {"reply", "insert", "write", "like", "save", "remove"}
                    /\ req[o].kind \in OnComment
                    /\ locks[o] \subseteq Below(o)'
  BY DEF Holding, OnlyOf
<1>1. /\ pc[o] \in {"reply", "insert", "write", "like", "save", "remove"}
      /\ req[o].kind \in OnComment
      /\ locks[o] \subseteq Below(o) /\ req'[o] = req[o]
  BY DEF Holding, OnlyOf
<1>2. ASSUME NEW x \in locks[o], x # req[o].comment
      PROVE  x \in Children(req[o].comment)'
  <2>1. x \in Children(req[o].comment)
    BY <1>1, <1>2 DEF Below
  <2>2. CASE x \in Ids /\ IsReply(post, x) /\ post[x].parent = req[o].comment
    <3>1. IsReply(post, x)' /\ post'[x].parent = req[o].comment
      BY <1>2, <2>2 DEF Kept, IsReply
    <3> QED
      BY <1>1, <2>2, <3>1 DEF Children
  <2>3. CASE x \in likes /\ x[1] = req[o].comment
    BY <1>1, <1>2, <2>3 DEF Children
  <2> QED
    BY <2>1, <2>2, <2>3, ChildrenSplit DEF IntegrityInv
<1> QED
  BY <1>1, <1>2 DEF Below

\* A request that holds a row waits for nobody: what it still needs is below
\* the comment it has locked, and so is all that another request could hold.
LEMMA HolderDoesNotWait ==
    ASSUME IntegrityInv, \A r \in Requests : Holding(r),
           NEW r \in Requests, locks[r] # {}
    PROVE  WaitsFor(r) = {}
<1> DEFINE c == req[r].comment
<1>1. /\ pc[r] \in {"reply", "insert", "write", "like", "save", "remove"}
      /\ req[r].kind \in OnComment /\ TypeInv
  BY DEF Holding, IntegrityInv
<1>2. c \in Ids /\ c \in locks[r] /\ IsComment(post, c) /\ req[r].user \in Users
  <2>1. Complete(req[r]) /\ req[r].kind # "list"
    BY <1>1, RequestFields DEF OnComment, OnReply
  <2> QED
    BY <1>1, <2>1 DEF IntegrityInv, ClaimInv, Claims, HasComment, Complete
<1>3. ASSUME NEW o \in Requests \ {r}, NEW x \in locks[o]
      PROVE  x \notin Users /\ x \notin Below(r)
  <2>1. /\ pc[o] \in {"reply", "insert", "write", "like", "save", "remove"}
        /\ req[o].kind \in OnComment /\ locks[o] \subseteq Below(o)
    BY <1>3 DEF Holding
  <2>2. req[o].comment \in Ids /\ req[o].comment \in locks[o] /\ IsComment(post, req[o].comment)
    BY <2>1, RequestFields DEF IntegrityInv, ClaimInv, Claims, HasComment, Complete
  <2>3. req[o].comment # c
    BY <1>2, <2>2 DEF IntegrityInv, ClaimInv, Exclusive
  <2>4. Ids \cap Users = {} /\ \A y \in Like : y \notin Users /\ y \notin Ids
    BY NamesAssumption
  <2>5. \A k, y : y \in Children(k) => \/ y \in Ids /\ IsReply(post, y) /\ post[y].parent = k
                                       \/ y \in Like /\ y[1] = k
    BY <1>1, ChildrenSplit
  <2>6. x = req[o].comment \/ x \in Children(req[o].comment)
    BY <2>1 DEF Below
  <2>7. x \notin Users
    BY <2>2, <2>4, <2>5, <2>6
  <2>8. x # c
    BY <1>2, <1>3 DEF IntegrityInv, ClaimInv, Exclusive
  <2>9. x \notin Children(c)
    <3>1. CASE x = req[o].comment
      BY <2>2, <2>4, <2>5, <3>1 DEF IsReply, IsComment
    <3>2. CASE x \in Children(req[o].comment)
      BY <2>3, <2>4, <2>5, <3>2
    <3> QED
      BY <2>6, <3>1, <3>2
  <2> QED
    BY <2>7, <2>8, <2>9 DEF Below
<1>4. \A x \in Users \cup Below(r) : Holders(r, x) = {}
  BY <1>3 DEF Holders
<1>5. ASSUME pc[r] = "save"
      PROVE  Holders(r, LikeOf(r)) = {}
  <2> SUFFICES ASSUME NEW o \in Requests \ {r}, LikeOf(r) \in locks[o] PROVE FALSE
    BY DEF Holders
  <2>1. LikeOf(r) \in Like /\ LikeOf(r)[1] = c
    BY <1>2 DEF LikeOf, Like
  <2>2. LikeOf(r) \in Below(o) /\ req[o].kind \in OnComment
        /\ pc[o] \in {"reply", "insert", "write", "like", "save", "remove"}
    BY DEF Holding
  <2>3. req[o].comment \in Ids /\ req[o].comment \in locks[o]
    BY <2>2, RequestFields DEF IntegrityInv, ClaimInv, Claims, HasComment, Complete
  <2>4. LikeOf(r) \notin Ids
    BY <2>1, NamesAssumption
  <2>5. LikeOf(r) \in Children(req[o].comment)
    BY <2>2, <2>3, <2>4 DEF Below
  <2>6. c = req[o].comment
    BY <1>1, <2>1, <2>4, <2>5, ChildrenSplit
  <2> QED
    BY <1>2, <2>3, <2>6 DEF IntegrityInv, ClaimInv, Exclusive
<1>6. Wanted(r) \subseteq Users \cup Below(r) \cup {LikeOf(r)} /\ (LikeOf(r) \in Wanted(r) => pc[r] = "save" \/ LikeOf(r) \in Users \cup Below(r))
  <2>1. References(r) \subseteq Users \cup Below(r)
    BY <1>2 DEF References, Below
  <2>2. CASE pc[r] = "reply"
    <3>1. req[r].reply \in Ids
      BY <1>1, <2>2, RequestFields DEF KindsAt, Complete
    <3>2. ReplyFound(r) => req[r].reply \in Below(r)
      BY <3>1 DEF ReplyFound, Below, Children
    <3> QED
      BY <2>2, <3>2 DEF Wanted
  <2>3. CASE pc[r] \in {"insert", "write", "like"}
    BY <2>1, <2>3 DEF Wanted
  <2>4. CASE pc[r] = "save"
    BY <2>1, <2>4 DEF Wanted
  <2>5. CASE pc[r] = "remove"
    <3>1. req[r].kind \in {"delete", "deleteReply"}
      BY <1>1, <2>5, RequestFields DEF KindsAt, OnComment, OnReply
    <3>2. req[r].kind = "delete" => Doomed(r) \subseteq Below(r)
      BY DEF Doomed, Below
    <3>3. req[r].kind = "deleteReply" => Doomed(r) \subseteq locks[r]
      BY <2>5 DEF Doomed, IntegrityInv, ClaimInv, Claims, HasReply, OnReply
    <3>4. Doomed(r) \subseteq Below(r)
      BY <3>1, <3>2, <3>3 DEF Holding
    <3> QED
      BY <2>5, <3>4 DEF Wanted, NextDoomed
  <2> QED
    BY <1>1, <2>2, <2>3, <2>4, <2>5
<1>7. \A x \in Wanted(r) : Holders(r, x) = {}
  BY <1>4, <1>5, <1>6
<1> QED
  BY <1>7 DEF WaitsFor

\* So nobody waits in a circle.
LEMMA NoCycle ==
    ASSUME IntegrityInv, \A r \in Requests : Holding(r), NEW r \in Requests
    PROVE  ~BreakDeadlock(r)
<1> SUFFICES ASSUME BreakDeadlock(r) PROVE FALSE
  OBVIOUS
<1>1. PICK cycle \in SUBSET {a \in Requests : WaitsFor(a) # {}} :
         /\ r \in cycle
         /\ \A a \in cycle : (\E b \in cycle : b \in WaitsFor(a)) /\ (\E b \in cycle : a \in WaitsFor(b))
  BY DEF BreakDeadlock
<1>2. WaitsFor(r) # {} /\ \E b \in cycle : r \in WaitsFor(b)
  BY <1>1
<1>3. \A b : WaitsFor(b) \subseteq {o \in Requests : locks[o] # {}}
  BY DEF WaitsFor, Holders
<1> QED
  BY <1>2, <1>3, HolderDoesNotWait

LEMMA StayingUser ==
    ASSUME IntegrityInv, ~Withdrawing, NEW r \in Requests, pc[r] # "idle"
    PROVE  req[r].kind # "withdraw"
<1>1. Complete(req[r]) /\ None \notin Users
  BY RequestFields, NamesAssumption DEF IntegrityInv, Rows
<1> QED
  BY <1>1 DEF Withdrawing, Complete

\* A withdrawal that was sent stays sent.
LEMMA StillCalm ==
    ASSUME \A o \in Requests : Unsent(o), NEW r \in Requests, OnlyOf(r),
           req' = req \/ pc[r] = "idle", ~Withdrawing'
    PROVE  ~Withdrawing
<1> SUFFICES ASSUME Withdrawing PROVE FALSE
  OBVIOUS
<1>1. PICK w \in Requests : req[w].kind = "withdraw" /\ req[w].user # None
  BY DEF Withdrawing
<1>2. CASE req'[w] = req[w]
  BY <1>1, <1>2 DEF Withdrawing
<1>3. CASE w = r /\ pc[r] = "idle"
  BY <1>1, <1>3 DEF Unsent, NoRequest
<1> QED
  BY <1>2, <1>3 DEF OnlyOf

\* A step keeps the calm when it keeps r's part of it, the accounts and what
\* others have locked, and does not end in an error.
LEMMA CalmKept ==
    ASSUME IntegrityInv, CalmInv, NEW r \in Requests, OnlyOf(r), pc'[r] # "idle",
           req' = req \/ pc[r] = "idle",
           ~Withdrawing =>
             /\ live' = live /\ mem'[r].whole /\ Holding(r)'
             /\ answer'[r] = "error" => r \in MayFail
             /\ \A o \in Requests \ {r} :
                  /\ locks'[o] = locks[o]
                  /\ \A i \in Ids \cap locks[o] : Kept(i)
                  /\ \A x \in likes \cap locks[o] : x \in likes'
    PROVE  CalmInv'
<1>1. \A o \in Requests : Unsent(o)'
  BY DEF CalmInv, Unsent, OnlyOf
<1>2. ~Withdrawing' => ~Withdrawing
  BY StillCalm DEF CalmInv
<1>3. Calm'
  <2> SUFFICES ASSUME ~Withdrawing
               PROVE  live' = Users /\ \A o \in Requests : mem'[o].whole /\ Holding(o)'
    BY <1>2 DEF Calm
  <2>1. live = Users /\ \A o \in Requests : mem[o].whole /\ Holding(o)
    BY DEF CalmInv, Calm
  <2>2. \A o \in Requests \ {r} : mem'[o].whole /\ Holding(o)'
    BY <2>1, OthersHold DEF OnlyOf
  <2> QED
    BY <2>1, <2>2
<1>4. OnlyWithdrawalsFail'
  <2> SUFFICES ASSUME NEW o \in Requests \ MayFail, answer'[o] = "error", ~Withdrawing'
               PROVE  FALSE
    BY DEF OnlyWithdrawalsFail
  <2>1. ~Withdrawing
    BY <1>2
  <2>2. CASE o = r
    BY <2>1, <2>2
  <2>3. CASE o # r
    BY <2>1, <2>3 DEF CalmInv, OnlyWithdrawalsFail, OnlyOf
  <2> QED
    BY <2>2, <2>3
<1> QED
  BY <1>1, <1>3, <1>4 DEF CalmInv

\* An answer other than an error, that takes no row another request holds.
LEMMA AnswerKeepsCalm ==
    ASSUME IntegrityInv, CalmInv, NEW r \in Requests, OnlyOf(r), UNCHANGED <<req, mem>>, NEW a,
           Respond(r, a),
           ~Withdrawing =>
             /\ live' = live /\ (a = "error" => r \in MayFail)
             /\ \A o \in Requests \ {r} :
                  /\ \A i \in Ids \cap locks[o] : Kept(i)
                  /\ \A x \in likes \cap locks[o] : x \in likes'
    PROVE  CalmInv'
<1>1. /\ pc'[r] = "done" /\ answer'[r] = a /\ locks'[r] = {}
      /\ \A o \in Requests \ {r} : locks'[o] = locks[o]
  BY RespondEffect DEF IntegrityInv
<1>2. Holding(r)'
  BY <1>1 DEF Holding
<1>3. ~Withdrawing => mem'[r].whole
  BY DEF CalmInv, Calm
<1> QED
  BY <1>1, <1>2, <1>3, CalmKept

\* A step on the way to an answer.
LEMMA MoveKeepsCalm ==
    ASSUME IntegrityInv, CalmInv, NEW r \in Requests, OnlyOf(r), Unchanged, UNCHANGED answer,
           req' = req \/ pc[r] = "idle", pc'[r] # "idle",
           \A o \in Requests \ {r} : locks'[o] = locks[o],
           ~Withdrawing => mem'[r].whole /\ Holding(r)'
    PROVE  CalmInv'
<1>1. answer'[r] = "none"
  BY DEF IntegrityInv, ClaimInv, Fresh, OnlyOf
<1>2. \A i \in Ids : Kept(i)
  BY DEF Kept, Unchanged
<1>3. live' = live /\ likes' = likes
  BY DEF Unchanged
<1> QED
  BY <1>1, <1>2, <1>3, CalmKept

LEMMA ArriveKeepsCalm == ASSUME IntegrityInv, CalmInv, NEW r \in Requests, Arrive(r) PROVE CalmInv'
<1>1. PICK x \in Sends[r] :
        \/ \E a \in {"unauthorized", "notFound"} : Respond(r, a)
        \/ GoTo(r, First(x.kind)) /\ UNCHANGED <<locks, answer>>
  BY DEF Arrive
<1>2. OnlyOf(r) /\ pc[r] = "idle" /\ UNCHANGED mem /\ Unchanged
  BY ArriveOnlyOf DEF Arrive
<1>3. ~Withdrawing => mem'[r].whole /\ locks[r] = {}
  BY <1>2 DEF CalmInv, Calm, Holding
<1>4. \A i \in Ids : Kept(i)
  BY <1>2 DEF Kept, Unchanged
<1>5. CASE \E a \in {"unauthorized", "notFound"} : Respond(r, a)
  <2>1. PICK a \in {"unauthorized", "notFound"} : Respond(r, a)
    BY <1>5
  <2>2. /\ pc'[r] = "done" /\ answer'[r] # "error" /\ locks'[r] = {}
        /\ \A o \in Requests \ {r} : locks'[o] = locks[o]
    BY <2>1, RespondEffect DEF IntegrityInv
  <2> QED
    BY <1>2, <1>3, <1>4, <2>2, CalmKept DEF Holding, Unchanged
<1>6. CASE GoTo(r, First(x.kind)) /\ UNCHANGED <<locks, answer>>
  <2>1. pc'[r] # "idle"
    BY <1>6, StepEffect DEF First, IntegrityInv, TypeInv
  <2>2. ~Withdrawing => Holding(r)'
    BY <1>3, <1>6 DEF Holding
  <2> QED
    BY <1>2, <1>3, <1>6, <2>1, <2>2, MoveKeepsCalm
<1> QED
  BY <1>1, <1>5, <1>6

LEMMA LockKeepsCalm ==
    ASSUME IntegrityInv, CalmInv, NEW r \in Requests,
           LockComment(r) \/ LockReply(r) \/ LockAccount(r)
    PROVE  CalmInv'
<1>1. OnlyOf(r) /\ UNCHANGED <<req, mem>> /\ Unchanged /\ TypeInv
  BY ServeOnlyOf DEF Serve, LockComment, LockReply, LockAccount, IntegrityInv
<1>2. ~Withdrawing => mem'[r].whole /\ Holding(r)
  BY <1>1 DEF CalmInv, Calm
<1>3. CASE \E a \in Answers \ {"error"} : Respond(r, a)
  <2>1. PICK a \in Answers \ {"error"} : Respond(r, a)
    BY <1>3
  <2>2. (\A i \in Ids : Kept(i)) /\ live' = live /\ likes' = likes
    BY <1>1 DEF Kept, Unchanged
  <2> QED
    BY <1>1, <2>1, <2>2, AnswerKeepsCalm
<1>4. CASE LockComment(r) /\ Lock(r, req[r].comment) /\ GoTo(r, AfterComment(req[r].kind)) /\ UNCHANGED answer
  <2>1. locks'[r] = locks[r] \cup {req[r].comment} /\ \A o \in Requests \ {r} : locks'[o] = locks[o]
    BY <1>1, <1>4, LockEffect DEF TypeInv
  <2>2. pc'[r] = AfterComment(req[r].kind)
    BY <1>1, <1>4, StepEffect DEF TypeInv
  <2>3. pc[r] = "comment" /\ req[r].kind \in OnComment
    BY <1>1, <1>4, RequestFields DEF LockComment, KindsAt
  <2>4. pc'[r] \in {"reply", "insert", "write", "like", "save", "remove"}
    BY <2>2 DEF AfterComment
  <2>5. ~Withdrawing => Holding(r)'
    BY <1>1, <1>2, <2>1, <2>3, <2>4 DEF Holding, Below
  <2> QED
    BY <1>1, <1>2, <1>4, <2>1, <2>4, <2>5, MoveKeepsCalm
<1>5. CASE /\ LockReply(r) /\ ReplyFound(r) /\ Lock(r, req[r].reply)
           /\ GoTo(r, IF req[r].kind = "editReply" THEN "write" ELSE "remove") /\ UNCHANGED answer
  <2>1. locks'[r] = locks[r] \cup {req[r].reply} /\ \A o \in Requests \ {r} : locks'[o] = locks[o]
    BY <1>1, <1>5, LockEffect DEF TypeInv
  <2>2. pc'[r] \in {"write", "remove"}
    BY <1>1, <1>5, StepEffect DEF TypeInv
  <2>3. pc[r] = "reply" /\ req[r].kind \in OnReply /\ req[r].kind \in OnComment /\ req[r].reply \in Ids
    BY <1>1, <1>5, RequestFields DEF LockReply, KindsAt, OnComment, Complete
  <2>4. req[r].reply \in Below(r) /\ Below(r)' = Below(r)
    BY <1>1, <1>5, <2>3 DEF ReplyFound, Below, Children, Unchanged, IsReply
  <2>5. ~Withdrawing => Holding(r)'
    BY <1>1, <1>2, <2>1, <2>2, <2>3, <2>4 DEF Holding
  <2> QED
    BY <1>1, <1>2, <1>5, <2>1, <2>2, <2>5, MoveKeepsCalm
<1>6. CASE LockAccount(r) /\ Lock(r, req[r].user) /\ GoTo(r, "remove") /\ UNCHANGED answer
  <2>1. \A o \in Requests \ {r} : locks'[o] = locks[o]
    BY <1>1, <1>6, LockEffect DEF TypeInv
  <2>2. pc'[r] = "remove"
    BY <1>1, <1>6, StepEffect DEF TypeInv
  <2>3. pc[r] = "account" /\ req[r].kind = "withdraw"
    BY <1>1, <1>6, RequestFields DEF LockAccount, KindsAt
  <2>4. Withdrawing
    BY <2>3, StayingUser
  <2> QED
    BY <1>1, <1>6, <2>1, <2>2, <2>4, MoveKeepsCalm
<1> QED
  BY <1>3, <1>4, <1>5, <1>6 DEF LockComment, LockReply, LockAccount, Answers

LEMMA LockDoomedKeepsCalm ==
    ASSUME IntegrityInv, CalmInv, NEW r \in Requests, LockDoomed(r)
    PROVE  CalmInv'
<1>1. PICK x \in NextDoomed(r) : Lock(r, x)
  BY DEF LockDoomed
<1>2. OnlyOf(r) /\ UNCHANGED <<pc, req, mem, answer>> /\ Unchanged /\ pc[r] = "remove" /\ TypeInv
  BY ServeOnlyOf DEF Serve, LockDoomed, IntegrityInv
<1>3. locks'[r] = locks[r] \cup {x} /\ \A o \in Requests \ {r} : locks'[o] = locks[o]
  BY <1>1, <1>2, LockEffect DEF TypeInv
<1>4. ASSUME ~Withdrawing
      PROVE  mem'[r].whole /\ Holding(r)'
  <2>1. mem[r].whole /\ Holding(r)
    BY <1>4 DEF CalmInv, Calm
  <2>2. req[r].kind \in {"delete", "deleteReply"}
    BY <1>2, <1>4, RequestFields, StayingUser DEF KindsAt
  <2>3. req[r].kind \in OnComment
    BY <2>2 DEF OnComment, OnReply
  <2>4. x \in Below(r)
    <3>1. CASE req[r].kind = "delete"
      BY <3>1 DEF NextDoomed, Doomed, Below
    <3>2. CASE req[r].kind = "deleteReply"
      BY <1>2, <3>2 DEF NextDoomed, Doomed, IntegrityInv, ClaimInv, Claims, HasReply, OnReply
    <3> QED
      BY <2>2, <3>1, <3>2
  <2>5. locks[r] \subseteq Below(r)
    BY <2>1 DEF Holding
  <2>6. Below(r)' = Below(r)
    BY <1>2 DEF Below, Children, Unchanged, IsReply
  <2> QED
    BY <1>2, <1>3, <2>1, <2>3, <2>4, <2>5, <2>6 DEF Holding
<1> QED
  BY <1>2, <1>3, <1>4, MoveKeepsCalm

\* The rows a post or a like of a request refers to exist while nobody withdraws.
LEMMA AdmitsWhenCalm ==
    ASSUME IntegrityInv, CalmInv, ~Withdrawing, NEW r \in Requests, pc[r] \in {"insert", "save"}
    PROVE  Admits(r) /\ live = Users
<1>1. live = Users
  BY DEF CalmInv, Calm
<1>2. req[r].kind \in {"create", "reply", "like", "unlike"}
  BY RequestFields DEF IntegrityInv, KindsAt
<1>3. req[r].user \in Users
  BY <1>2, RequestFields DEF IntegrityInv, Complete
<1>4. req[r].kind # "create" => req[r].comment \in Ids /\ post[req[r].comment] # None
  BY <1>2, RequestFields DEF IntegrityInv, ClaimInv, Claims, HasComment, IsComment, OnComment, Complete
<1> QED
  BY <1>1, <1>3, <1>4 DEF Admits, References, Exists

LEMMA InsertKeepsCalm == ASSUME IntegrityInv, CalmInv, NEW r \in Requests, Insert(r) PROVE CalmInv'
<1>1. OnlyOf(r) /\ UNCHANGED <<live, likes, req, mem>> /\ pc[r] = "insert"
  BY ServeOnlyOf DEF Serve, Insert
<1>2. \A i \in Ids : Kept(i)
  BY InsertEffect DEF Kept
<1>3. \/ Respond(r, "ok")
      \/ ~Admits(r) /\ Respond(r, "error")
  BY DEF Insert
<1>4. ~Withdrawing => Admits(r)
  BY <1>1, AdmitsWhenCalm
<1>5. CASE Respond(r, "ok")
  BY <1>1, <1>2, <1>5, AnswerKeepsCalm
<1>6. CASE ~Admits(r) /\ Respond(r, "error")
  BY <1>1, <1>4, <1>6, AnswerKeepsCalm
<1> QED
  BY <1>3, <1>5, <1>6

LEMMA WriteKeepsCalm == ASSUME IntegrityInv, CalmInv, NEW r \in Requests, Write(r) PROVE CalmInv'
<1>1. OnlyOf(r) /\ UNCHANGED <<live, likes, req, mem>> /\ Respond(r, "ok")
  BY ServeOnlyOf DEF Serve, Write
<1>2. None \notin Post
  BY NamesAssumption
<1>3. \A i \in Ids : Kept(i)
  BY <1>2, WriteEffect DEF Kept
<1> QED
  BY <1>1, <1>3, AnswerKeepsCalm

LEMMA SaveLikeKeepsCalm ==
    ASSUME IntegrityInv, LikeInv, CalmInv, NEW r \in Requests, SaveLike(r)
    PROVE  CalmInv'
<1>1. OnlyOf(r) /\ UNCHANGED <<live, post, req, mem>> /\ pc[r] = "save"
  BY ServeOnlyOf DEF Serve, SaveLike
<1>2. \A i \in Ids : Kept(i)
  BY <1>1 DEF Kept
<1>3. \A o \in Requests \ {r} : \A x \in likes \cap locks[o] : x \in likes'
  <2>1. CASE Free(r, {LikeOf(r)})
    BY <2>1, SaveLikeEffect DEF Free, Holders
  <2>2. CASE likes \subseteq likes'
    BY <2>2
  <2> QED
    BY <2>1, <2>2 DEF SaveLike
<1>4. CASE Respond(r, "ok")
  BY <1>1, <1>2, <1>3, <1>4, AnswerKeepsCalm
<1>5. CASE Adds(r) /\ ~(Admits(r) /\ LikeOf(r) \notin likes) /\ Respond(r, "error")
  <2>1. Withdrawing
    <3> SUFFICES ASSUME ~Withdrawing PROVE FALSE
      OBVIOUS
    <3>1. Admits(r) /\ live = Users
      BY <1>1, AdmitsWhenCalm
    <3>2. req[r].user \in Users
      BY SaveLikeEffect
    <3>3. mem[r].liked <=> LikeOf(r) \in likes
      BY <1>1, <3>1, <3>2 DEF LikeInv, LikeKnown
    <3> QED
      BY <1>5, <3>1, <3>3 DEF Adds
  <2> QED
    BY <1>1, <1>5, <2>1, AnswerKeepsCalm
<1> QED
  BY <1>4, <1>5 DEF SaveLike

LEMMA RemovalKeepsCalm ==
    ASSUME IntegrityInv, CalmInv, NEW r \in Requests, CommitRemoval(r)
    PROVE  CalmInv'
<1> DEFINE D == Doomed(r)
<1>1. /\ pc[r] = "remove" /\ D \subseteq locks[r] /\ live' = live \ D /\ likes' = likes \ D
      /\ \A i \in Ids : post'[i] = IF i \in D THEN None ELSE post[i]
      /\ Respond(r, "ok") /\ UNCHANGED <<req, mem>>
  BY DEF CommitRemoval
<1>2. OnlyOf(r)
  BY ServeOnlyOf DEF Serve
<1>3. ~Withdrawing => D \cap Users = {}
  <2> SUFFICES ASSUME ~Withdrawing, NEW u \in Users, u \in Doomed(r) PROVE FALSE
    OBVIOUS
  <2>1. req[r].kind \in {"delete", "deleteReply"}
    BY <1>1, RequestFields, StayingUser DEF IntegrityInv, KindsAt
  <2>2. u \notin Ids /\ u \notin Like
    BY NamesAssumption
  <2>3. \A k : u \notin Children(k)
    BY <2>2, ChildrenSplit DEF IntegrityInv
  <2> QED
    BY <1>1, <2>1, <2>2, <2>3, DoomedSplit
<1> HIDE DEF D
<1>4. ~Withdrawing => live' = live
  BY <1>1, <1>3 DEF IntegrityInv, TypeInv, TypeOK
<1>5. \A o \in Requests \ {r} : \A i \in Ids \cap locks[o] : Kept(i)
  BY <1>1 DEF IntegrityInv, ClaimInv, Exclusive, Kept
<1>6. \A o \in Requests \ {r} : \A x \in likes \cap locks[o] : x \in likes'
  BY <1>1 DEF IntegrityInv, ClaimInv, Exclusive
<1> QED
  BY <1>1, <1>2, <1>4, <1>5, <1>6, AnswerKeepsCalm

LEMMA ListingKeepsCalm ==
    ASSUME IntegrityInv, CalmInv, NEW r \in Requests,
           ListComments(r) \/ LoadAuthors(r) \/ ListReplies(r) \/ LoadReplyAuthors(r)
    PROVE  CalmInv'
<1>1. OnlyOf(r) /\ UNCHANGED req /\ Unchanged /\ TypeInv
  BY ServeOnlyOf DEF Serve, ListComments, LoadAuthors, ListReplies, LoadReplyAuthors, IntegrityInv
<1>2. mem[r] \in Memory /\ mem \in [Requests -> Memory]
  BY <1>1 DEF TypeInv, TypeOK
<1>3. mem[r].authors \subseteq Users
  BY <1>2 DEF Memory
<1>4. ~Withdrawing => live = Users /\ mem[r].whole /\ Holding(r)
  BY DEF CalmInv, Calm
<1>5. CASE LoadReplyAuthors(r)
  <2> DEFINE a == IF mem[r].whole /\ mem[r].authors \subseteq live THEN "ok" ELSE "error"
  <2>1. ~Withdrawing => a # "error"
    BY <1>3, <1>4
  <2>2. Respond(r, a) /\ UNCHANGED mem
    BY <1>5 DEF LoadReplyAuthors
  <2>3. (\A i \in Ids : Kept(i)) /\ live' = live /\ likes' = likes
    BY <1>1 DEF Kept, Unchanged
  <2> HIDE DEF a
  <2> QED
    BY <1>1, <2>1, <2>2, <2>3, AnswerKeepsCalm
<1>6. CASE ListComments(r) \/ LoadAuthors(r) \/ ListReplies(r)
  <2>1. pc[r] \notin {"reply", "insert", "write", "like", "save", "remove"} /\ UNCHANGED <<locks, answer>>
    BY <1>6 DEF ListComments, LoadAuthors, ListReplies
  <2>2. pc'[r] # "idle"
    BY <1>1, <1>6, StepEffect DEF ListComments, LoadAuthors, ListReplies, TypeInv
  <2>3. ~Withdrawing => Holding(r)'
    BY <1>4, <2>1 DEF Holding
  <2>4. ~Withdrawing => mem'[r].whole
    <3>1. CASE ListComments(r)
      <4> DEFINE m == [mem[r] EXCEPT !.shown = CommentsOn(req[r].question),
                                     !.authors = AuthorsOf(CommentsOn(req[r].question))]
      <4>1. m.whole = mem[r].whole
        BY <1>2 DEF Memory
      <4>2. mem' = [mem EXCEPT ![r] = m]
        BY <1>2, <3>1 DEF ListComments, Memory
      <4> HIDE DEF m
      <4>3. mem'[r] = m
        BY <1>2, <4>2
      <4> QED
        BY <1>4, <4>1, <4>3
    <3>2. CASE LoadAuthors(r)
      <4> DEFINE m == [mem[r] EXCEPT !.whole = mem[r].authors \subseteq live]
      <4>1. m.whole = (mem[r].authors \subseteq live)
        BY <1>2 DEF Memory
      <4>2. mem' = [mem EXCEPT ![r] = m]
        BY <3>2 DEF LoadAuthors
      <4> HIDE DEF m
      <4>3. mem'[r] = m
        BY <1>2, <4>2
      <4> QED
        BY <1>3, <1>4, <4>1, <4>3
    <3>3. CASE ListReplies(r)
      <4> DEFINE m == [mem[r] EXCEPT !.authors = AuthorsOf(RepliesTo(mem[r].shown))]
      <4>1. m.whole = mem[r].whole
        BY <1>2 DEF Memory
      <4>2. mem' = [mem EXCEPT ![r] = m]
        BY <3>3 DEF ListReplies
      <4> HIDE DEF m
      <4>3. mem'[r] = m
        BY <1>2, <4>2
      <4> QED
        BY <1>4, <4>1, <4>3
    <3> QED
      BY <1>6, <3>1, <3>2, <3>3
  <2> QED
    BY <1>1, <2>1, <2>2, <2>3, <2>4, MoveKeepsCalm
<1> QED
  BY <1>5, <1>6

LEMMA FailureKeepsCalm ==
    ASSUME IntegrityInv, CalmInv, NEW r \in Requests, BreakDeadlock(r) \/ Die(r)
    PROVE  CalmInv'
<1>1. OnlyOf(r) /\ UNCHANGED <<req, mem>> /\ Unchanged /\ Respond(r, "error")
  BY StepOnlyOf DEF Serve, BreakDeadlock, Die, Raise
<1>2. (\A i \in Ids : Kept(i)) /\ live' = live /\ likes' = likes
  BY <1>1 DEF Kept, Unchanged
<1>3. ~Withdrawing => r \in MayFail
  <2>1. CASE Die(r)
    BY <2>1 DEF Die
  <2>2. CASE BreakDeadlock(r)
    BY <2>2, NoCycle DEF CalmInv, Calm
  <2> QED
    BY <2>1, <2>2
<1> QED
  BY <1>1, <1>2, <1>3, AnswerKeepsCalm

LEMMA StepKeepsCalm ==
    ASSUME IntegrityInv, LikeInv, CalmInv, NEW r \in Requests, Arrive(r) \/ Serve(r) \/ Die(r)
    PROVE  CalmInv'
<1>1. CASE Arrive(r)
  BY <1>1, ArriveKeepsCalm
<1>2. CASE LockComment(r) \/ LockReply(r) \/ LockAccount(r)
  BY <1>2, LockKeepsCalm
<1>3. CASE Insert(r)
  BY <1>3, InsertKeepsCalm
<1>4. CASE Write(r)
  BY <1>4, WriteKeepsCalm
<1>5. CASE ReadLike(r)
  <2>1. OnlyOf(r) /\ UNCHANGED <<locks, req, answer>> /\ Unchanged /\ pc[r] = "like" /\ pc'[r] = "save"
    BY <1>5, ServeOnlyOf, StepEffect DEF Serve, ReadLike, IntegrityInv, TypeInv
  <2>2. mem'[r].whole = mem[r].whole
    <3> DEFINE m == [mem[r] EXCEPT !.liked = LikeOf(r) \in likes]
    <3>1. mem \in [Requests -> Memory] /\ mem[r] \in Memory
      BY DEF IntegrityInv, TypeInv, TypeOK
    <3>2. m.whole = mem[r].whole
      BY <3>1 DEF Memory
    <3>3. mem' = [mem EXCEPT ![r] = m]
      BY <1>5 DEF ReadLike
    <3> HIDE DEF m
    <3>4. mem'[r] = m
      BY <3>1, <3>3
    <3> QED
      BY <3>2, <3>4
  <2>3. ~Withdrawing => mem[r].whole /\ Holding(r)
    BY DEF CalmInv, Calm
  <2>4. ~Withdrawing => Holding(r)'
    BY <2>1, <2>3 DEF Holding, Below, Children, Unchanged, IsReply
  <2> QED
    BY <2>1, <2>2, <2>3, <2>4, MoveKeepsCalm
<1>6. CASE SaveLike(r)
  BY <1>6, SaveLikeKeepsCalm
<1>7. CASE LockDoomed(r)
  BY <1>7, LockDoomedKeepsCalm
<1>8. CASE CommitRemoval(r)
  BY <1>8, RemovalKeepsCalm
<1>9. CASE ListComments(r) \/ LoadAuthors(r) \/ ListReplies(r) \/ LoadReplyAuthors(r)
  BY <1>9, ListingKeepsCalm
<1>10. CASE BreakDeadlock(r) \/ Die(r)
  BY <1>10, FailureKeepsCalm
<1> QED
  BY <1>1, <1>2, <1>3, <1>4, <1>5, <1>6, <1>7, <1>8, <1>9, <1>10 DEF Serve

\* Without a withdrawal or a process that dies no request about comments ends
\* in an error: no listing misses an author, no insert a row it refers to, no
\* two likes collide on the unique key, and no two transactions deadlock.
THEOREM OnlyWithdrawalsBreak == Spec => []OnlyWithdrawalsFail
<1>1. Init => CalmInv
  <2>1. NoMemory.whole
    BY DEF NoMemory
  <2> QED
    BY <2>1 DEF Init, CalmInv, Calm, Unsent, Holding, OnlyWithdrawalsFail
<1>2. IntegrityInv /\ LikeInv /\ CalmInv /\ [Next]_vars => CalmInv'
  <2> SUFFICES ASSUME IntegrityInv, LikeInv, CalmInv, [Next]_vars PROVE CalmInv'
    OBVIOUS
  <2>1. CASE UNCHANGED vars
    BY <2>1 DEF vars, CalmInv, Calm, Unsent, Holding, Below, Children, IsReply, OnlyWithdrawalsFail, Withdrawing
  <2> QED
    BY <2>1, StepKeepsCalm DEF Next, Terminating
<1>3. Spec => []CalmInv
  BY <1>1, <1>2, Integrity, LikesKnown, PTL DEF Spec
<1>4. CalmInv => OnlyWithdrawalsFail
  BY DEF CalmInv
<1> QED
  BY <1>3, <1>4, PTL
=============================================================================
