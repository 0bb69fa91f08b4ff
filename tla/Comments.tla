------------------------------ MODULE Comments ------------------------------
(***************************************************************************)
(* Comments on questions, replies, comment likes and withdrawal, as        *)
(* concurrent HTTP requests over PostgreSQL at READ COMMITTED.             *)
(*                                                                         *)
(* A request is one transaction.  A handler locks the comment it is about, *)
(* and then the reply (SELECT ... FOR UPDATE), before it writes; what it   *)
(* writes is flushed right before its commit, so a write and the commit    *)
(* are one step.  Deleting a comment or an account cascades: the rows that *)
(* go are locked one by one and disappear together at the commit.          *)
(*                                                                         *)
(* A post is a comment or, when it has a parent, a reply to that comment.  *)
(* The row a request inserts has the request's own name as its id.  A like *)
(* is the pair of a comment and a user.                                    *)
(***************************************************************************)
CONSTANTS
    Users, Questions,
    Active,                 \* the questions with is_active
    Contents,               \* texts
    Requests,               \* the HTTP requests of a behaviour
    Sends,                  \* request -> what its client may send
    MayFail,                \* requests whose connection or process may die
    StoredIds, Histories,   \* posts and likes of earlier requests: the initial tables
    None                    \* null, no row, nobody

VARIABLES
    live,      \* users: the accounts that exist
    post,      \* choice_comments and choice_replies
    likes,     \* choice_comment_likes
    locks,     \* request -> the rows its transaction has locked
    pc,        \* request -> where its handler is
    req,       \* request -> what the client sent
    mem,       \* request -> the handler's local variables
    answer     \* request -> the kind of response it got

vars == <<live, post, likes, locks, pc, req, mem, answer>>

Ids == Requests \cup StoredIds
Like == Ids \X Users
Rows == Users \cup Ids \cup Like

Post == [question : Questions, parent : Ids \cup {None}, author : Users, content : Contents]
Kinds == {"create", "edit", "delete", "like", "unlike", "reply", "editReply", "deleteReply",
          "list", "withdraw"}
Request == [kind : Kinds, user : Users \cup {None}, question : Questions \cup {None},
            comment : Ids \cup {None}, reply : Ids \cup {None}, content : Contents \cup {None}]
OnReply == {"editReply", "deleteReply"}
OnComment == {"edit", "delete", "like", "unlike", "reply"} \cup OnReply
WithContent == {"create", "edit", "reply", "editReply"}
\* What the path and the body of a request of its kind hold.
Complete(x) ==
    /\ x.kind # "list" => x.user \in Users
    /\ x.kind # "withdraw" => x.question \in Questions
    /\ x.kind \in OnComment => x.comment \in Ids
    /\ x.kind \in OnReply => x.reply \in Ids
    /\ x.kind \in WithContent => x.content \in Contents
NoRequest == [kind |-> "list", user |-> None, question |-> None,
              comment |-> None, reply |-> None, content |-> None]
Steps == {"idle", "comment", "reply", "insert", "write", "like", "save", "account", "remove",
          "list", "authors", "replies", "replyAuthors", "done"}
Answers == {"none", "ok", "unauthorized", "notFound", "forbidden", "error"}

\* liked: set_like found a like.  A listing: the comments shown, the authors
\* to load for the rows of the last statement, and whether all were found.
Memory == [liked : BOOLEAN, shown : SUBSET Ids, authors : SUBSET Users, whole : BOOLEAN]
NoMemory == [liked |-> FALSE, shown |-> {}, authors |-> {}, whole |-> TRUE]

IsReply(t, i) == t[i] # None /\ t[i].parent # None
IsComment(t, i) == t[i] # None /\ t[i].parent = None

\* Foreign keys: a post's author and a reply's comment exist, and so do a
\* like's comment and user.
Referenced(users, t, l) ==
    /\ \A i \in Ids : t[i] # None => t[i].author \in users
    /\ \A i \in Ids : IsReply(t, i) => IsComment(t, t[i].parent)
    /\ \A x \in l : IsComment(t, x[1]) /\ x[2] \in users

ASSUME NamesAssumption ==
    /\ Users \cap Ids = {} /\ (Users \cup Ids) \cap Like = {}
    /\ Requests \cap StoredIds = {}
    /\ None \notin Rows \cup Post \cup Questions
ASSUME ClientsAssumption ==
    /\ Active \subseteq Questions
    /\ Sends \in [Requests -> SUBSET Request]
    /\ \A r \in Requests : \A x \in Sends[r] : Complete(x)
    /\ MayFail \subseteq Requests
\* A history is a pair of tables that satisfy the constraints.
ASSUME HistoriesAssumption ==
    \A h \in Histories :
        /\ h.post \in [Ids -> Post \cup {None}] /\ h.likes \subseteq Like
        /\ \A r \in Requests : h.post[r] = None
        /\ Referenced(Users, h.post, h.likes)

----------------------------------------------------------------------------
(* Row locks and transactions *)

\* The other transactions that have locked row x.
Holders(r, x) == {o \in Requests \ {r} : x \in locks[o]}

Free(r, rows) == \A x \in rows : Holders(r, x) = {}

\* Mutant: SELECT without FOR UPDATE.
ReadOnly(r, x) == UNCHANGED locks

Lock(r, x) == locks' = [locks EXCEPT ![r] = @ \cup {x}]

GoTo(r, step) == pc' = [pc EXCEPT ![r] = step]

\* A response ends the transaction, by commit or by rollback.
Respond(r, a) ==
    /\ pc' = [pc EXCEPT ![r] = "done"]
    /\ answer' = [answer EXCEPT ![r] = a]
    /\ locks' = [locks EXCEPT ![r] = {}]

Unchanged == UNCHANGED <<live, post, likes>>

----------------------------------------------------------------------------
Init ==
    /\ live = Users
    /\ \E h \in Histories : post = h.post /\ likes = h.likes
    /\ locks = [r \in Requests |-> {}]
    /\ pc = [r \in Requests |-> "idle"]
    /\ req = [r \in Requests |-> NoRequest]
    /\ mem = [r \in Requests |-> NoMemory]
    /\ answer = [r \in Requests |-> "none"]

First(kind) == CASE kind = "create" -> "insert"
                 [] kind = "list" -> "list"
                 [] kind = "withdraw" -> "account"
                 [] OTHER -> "comment"

\* Only listings are public.  require_question comes first in every handler
\* of a comment and reads what no request changes.
Arrive(r) ==
    /\ pc[r] = "idle"
    /\ \E x \in Sends[r] :
         LET known == x.kind = "list" \/ x.user \in live
             open == x.kind = "withdraw" \/ x.question \in Active
         IN /\ req' = [req EXCEPT ![r] = x]
            /\ \/ ~known /\ Respond(r, "unauthorized")
               \/ known /\ ~open /\ Respond(r, "notFound")
               \/ known /\ open /\ GoTo(r, First(x.kind)) /\ UNCHANGED <<locks, answer>>
    /\ UNCHANGED mem /\ Unchanged

----------------------------------------------------------------------------
(* Comments *)

AfterComment(kind) == CASE kind = "reply" -> "insert"
                        [] kind = "edit" -> "write"
                        [] kind = "delete" -> "remove"
                        [] kind \in {"like", "unlike"} -> "like"
                        [] OTHER -> "reply"

\* Mutant: nobody's comment is protected.
MayChangeAny(r, i) == TRUE

\* Whether the request's user wrote post i.
MayChange(r, i) == post[i].author = req[r].user

CommentFound(r) == IsComment(post, req[r].comment) /\ post[req[r].comment].question = req[r].question
ReplyFound(r) == IsReply(post, req[r].reply) /\ post[req[r].reply].parent = req[r].comment

\* get_comment: waits for a transaction that has locked the comment, and sees
\* what that one left.  A row that does not match the query is not waited for.
LockComment(r) ==
    /\ pc[r] = "comment"
    /\ LET c == req[r].comment
           allowed == req[r].kind \in {"edit", "delete"} => MayChange(r, c)
       IN \/ ~CommentFound(r) /\ Respond(r, "notFound")
          \/ CommentFound(r) /\ Free(r, {c}) /\ ~allowed /\ Respond(r, "forbidden")
          \/ /\ CommentFound(r) /\ Free(r, {c}) /\ allowed /\ Lock(r, c)
             /\ GoTo(r, AfterComment(req[r].kind)) /\ UNCHANGED answer
    /\ UNCHANGED <<req, mem>> /\ Unchanged

\* get_reply, with the comment locked.
LockReply(r) ==
    /\ pc[r] = "reply"
    /\ LET i == req[r].reply
       IN \/ ~ReplyFound(r) /\ Respond(r, "notFound")
          \/ ReplyFound(r) /\ Free(r, {i}) /\ ~MayChange(r, i) /\ Respond(r, "forbidden")
          \/ /\ ReplyFound(r) /\ Free(r, {i}) /\ MayChange(r, i) /\ Lock(r, i)
             /\ GoTo(r, IF req[r].kind = "editReply" THEN "write" ELSE "remove")
             /\ UNCHANGED answer
    /\ UNCHANGED <<req, mem>> /\ Unchanged

\* The rows an inserted row refers to: the check of its foreign keys waits for
\* a transaction that deletes one and fails when one is gone.
References(r) == {req[r].user} \cup IF req[r].kind = "create" THEN {} ELSE {req[r].comment}
Exists(x) == x \in live \/ x \in {i \in Ids : post[i] # None}

\* Mutant: no foreign keys.
AdmitsAny(r) == TRUE

Admits(r) == \A x \in References(r) : Exists(x)

\* create and create_reply: INSERT and COMMIT.
Insert(r) ==
    /\ pc[r] = "insert" /\ Free(r, References(r))
    /\ \/ /\ Admits(r)
          /\ post' = [post EXCEPT ![r] =
                [question |-> req[r].question, author |-> req[r].user, content |-> req[r].content,
                 parent |-> IF req[r].kind = "reply" THEN req[r].comment ELSE None]]
          /\ Respond(r, "ok")
       \/ ~Admits(r) /\ Respond(r, "error") /\ UNCHANGED post
    /\ UNCHANGED <<live, likes, req, mem>>

Edited(r) == IF req[r].kind = "edit" THEN req[r].comment ELSE req[r].reply

\* update and update_reply, of a row the transaction has locked.
Write(r) ==
    /\ pc[r] = "write"
    /\ post' = [post EXCEPT ![Edited(r)].content = req[r].content]
    /\ Respond(r, "ok")
    /\ UNCHANGED <<live, likes, req, mem>>

----------------------------------------------------------------------------
(* Likes *)

\* Mutant: set_like's arguments are swapped.
Swapped(r) == <<req[r].user, req[r].comment>>

LikeOf(r) == <<req[r].comment, req[r].user>>

\* set_like looks for the user's like,
ReadLike(r) ==
    /\ pc[r] = "like"
    /\ mem' = [mem EXCEPT ![r].liked = LikeOf(r) \in likes]
    /\ GoTo(r, "save")
    /\ UNCHANGED <<locks, req, answer>> /\ Unchanged

\* Mutant: a request flips the like whichever way it asks.
AddsWhenMissing(r) == ~mem[r].liked
Adds(r) == req[r].kind = "like" /\ ~mem[r].liked
Removes(r) == req[r].kind = "unlike" /\ mem[r].liked

\* and the commit inserts or deletes one, or has nothing to write.  A like
\* that is already gone is deleted without an error.
SaveLike(r) ==
    /\ pc[r] = "save"
    /\ \/ /\ Adds(r) /\ Free(r, References(r) \cup {LikeOf(r)})
          /\ \/ /\ Admits(r) /\ LikeOf(r) \notin likes
                /\ likes' = likes \cup {LikeOf(r)} /\ Respond(r, "ok")
             \/ ~(Admits(r) /\ LikeOf(r) \notin likes) /\ Respond(r, "error") /\ UNCHANGED likes
       \/ /\ Removes(r) /\ Free(r, {LikeOf(r)})
          /\ likes' = likes \ {LikeOf(r)} /\ Respond(r, "ok")
       \/ ~Adds(r) /\ ~Removes(r) /\ Respond(r, "ok") /\ UNCHANGED likes
    /\ UNCHANGED <<live, post, req, mem>>

----------------------------------------------------------------------------
(* Deletion *)

Children(c) == {i \in Ids : IsReply(post, i) /\ post[i].parent = c} \cup {x \in likes : x[1] = c}

CommentsBy(u) == {i \in Ids : IsComment(post, i) /\ post[i].author = u}
RepliesBy(u) == {i \in Ids : IsReply(post, i) /\ post[i].author = u}
LikesBy(u) == {x \in likes : x[2] = u}

\* The rows a deletion removes: the one it is about and, by cascade, those
\* that refer to it.
Doomed(r) ==
    LET u == req[r].user IN
    CASE req[r].kind = "delete" -> {req[r].comment} \cup Children(req[r].comment)
      [] req[r].kind = "deleteReply" -> {req[r].reply}
      [] OTHER -> {u} \cup CommentsBy(u) \cup (UNION {Children(c) : c \in CommentsBy(u)})
                      \cup RepliesBy(u) \cup LikesBy(u)

\* The ones to lock next: an account's comments before the rest.
NextDoomed(r) ==
    LET left == Doomed(r) \ locks[r]
        comments == {x \in left : x \in CommentsBy(req[r].user)}
    IN IF comments # {} THEN comments ELSE left

\* withdraw: DELETE of the account's row, or of none when it is already gone.
LockAccount(r) ==
    /\ pc[r] = "account" /\ Free(r, {req[r].user})
    /\ \/ req[r].user \notin live /\ Respond(r, "ok")
       \/ req[r].user \in live /\ Lock(r, req[r].user) /\ GoTo(r, "remove") /\ UNCHANGED answer
    /\ UNCHANGED <<req, mem>> /\ Unchanged

LockDoomed(r) ==
    /\ pc[r] = "remove"
    /\ \E x \in NextDoomed(r) : Free(r, {x}) /\ Lock(r, x)
    /\ UNCHANGED <<pc, req, mem, answer>> /\ Unchanged

CommitRemoval(r) ==
    /\ pc[r] = "remove" /\ Doomed(r) \subseteq locks[r]
    /\ live' = live \ Doomed(r)
    /\ post' = [i \in Ids |-> IF i \in Doomed(r) THEN None ELSE post[i]]
    /\ likes' = likes \ Doomed(r)
    /\ Respond(r, "ok")
    /\ UNCHANGED <<req, mem>>

----------------------------------------------------------------------------
(* Listing *)

AuthorsOf(ids) == {u \in Users : \E i \in ids : post[i].author = u}

CommentsOn(q) == {i \in Ids : IsComment(post, i) /\ post[i].question = q}
RepliesTo(ids) == {i \in Ids : IsReply(post, i) /\ post[i].parent \in ids}

\* A listing is four statements: the comments, their authors, the replies to
\* them, and the replies' authors.
ListComments(r) ==
    /\ pc[r] = "list"
    /\ LET shown == CommentsOn(req[r].question)
       IN mem' = [mem EXCEPT ![r].shown = shown, ![r].authors = AuthorsOf(shown)]
    /\ GoTo(r, "authors")
    /\ UNCHANGED <<locks, req, answer>> /\ Unchanged

LoadAuthors(r) ==
    /\ pc[r] = "authors"
    /\ mem' = [mem EXCEPT ![r].whole = mem[r].authors \subseteq live]
    /\ GoTo(r, "replies")
    /\ UNCHANGED <<locks, req, answer>> /\ Unchanged

ListReplies(r) ==
    /\ pc[r] = "replies"
    /\ mem' = [mem EXCEPT ![r].authors = AuthorsOf(RepliesTo(mem[r].shown))]
    /\ GoTo(r, "replyAuthors")
    /\ UNCHANGED <<locks, req, answer>> /\ Unchanged

\* The page shows every author's nickname: a missing author is an exception.
LoadReplyAuthors(r) ==
    /\ pc[r] = "replyAuthors"
    /\ Respond(r, IF mem[r].whole /\ mem[r].authors \subseteq live THEN "ok" ELSE "error")
    /\ UNCHANGED <<req, mem>> /\ Unchanged

----------------------------------------------------------------------------
(* Failures *)

Raise(r) == Respond(r, "error") /\ UNCHANGED <<req, mem>> /\ Unchanged

\* The connection or the process dies before the response.
Die(r) == r \in MayFail /\ pc[r] \notin {"idle", "done"} /\ Raise(r)

\* The rows a request has to wait for; a removal goes on with any that is free.
Wanted(r) == CASE pc[r] = "comment" /\ CommentFound(r) -> {req[r].comment}
               [] pc[r] = "reply" /\ ReplyFound(r) -> {req[r].reply}
               [] pc[r] = "insert" -> References(r)
               [] pc[r] = "save" /\ Adds(r) -> References(r) \cup {LikeOf(r)}
               [] pc[r] = "save" /\ Removes(r) -> {LikeOf(r)}
               [] pc[r] = "account" -> {req[r].user}
               [] pc[r] = "remove" -> NextDoomed(r)
               [] OTHER -> {}
WaitsFor(r) ==
    IF pc[r] = "remove" /\ \E x \in Wanted(r) : Free(r, {x}) THEN {}
    ELSE UNION {Holders(r, x) : x \in Wanted(r)}

\* Mutant: nobody detects the cycle.
WaitForever(r) == FALSE

\* PostgreSQL breaks a cycle of waits by failing one of the transactions.
BreakDeadlock(r) ==
    /\ \E cycle \in SUBSET {a \in Requests : WaitsFor(a) # {}} :
         /\ r \in cycle
         /\ \A a \in cycle : (\E b \in cycle : b \in WaitsFor(a)) /\ (\E b \in cycle : a \in WaitsFor(b))
    /\ Raise(r)

----------------------------------------------------------------------------
Serve(r) ==
    \/ LockComment(r) \/ LockReply(r) \/ Insert(r) \/ Write(r)
    \/ ReadLike(r) \/ SaveLike(r)
    \/ LockAccount(r) \/ LockDoomed(r) \/ CommitRemoval(r)
    \/ ListComments(r) \/ LoadAuthors(r) \/ ListReplies(r) \/ LoadReplyAuthors(r)
    \/ BreakDeadlock(r)

\* Every request has been answered or was never sent: the system may rest.
Terminating == (\A r \in Requests : pc[r] \in {"idle", "done"}) /\ UNCHANGED vars

Next ==
    \/ \E r \in Requests : Arrive(r) \/ Serve(r) \/ Die(r)
    \/ Terminating

\* A handler that can go on does; clients send what and when they like.
Spec == Init /\ [][Next]_vars /\ \A r \in Requests : WF_vars(Serve(r))

----------------------------------------------------------------------------
(* Properties *)

TypeOK ==
    /\ live \subseteq Users
    /\ post \in [Ids -> Post \cup {None}]
    /\ likes \subseteq Like
    /\ locks \in [Requests -> SUBSET Rows]
    /\ pc \in [Requests -> Steps]
    /\ req \in [Requests -> Request]
    /\ mem \in [Requests -> Memory]
    /\ answer \in [Requests -> Answers]

\* A reply, a like and a post outlive neither the comment nor the account
\* they belong to, whatever is written while these are deleted.
NoOrphans == Referenced(live, post, likes)

\* Requests about comments never fail one another: none ends in an exception
\* or a deadlock unless an account is being withdrawn or a process died.
Withdrawing == \E w \in Requests : req[w].kind = "withdraw" /\ req[w].user # None
OnlyWithdrawalsFail ==
    \A r \in Requests \ MayFail : answer[r] = "error" => Withdrawing

\* PUT and DELETE of a like are idempotent: a comment that answered "ok" only
\* to likes of a user is liked, and one that answered only to unlikes is not.
Answered(kind, x) ==
    \E r \in Requests : req[r].kind = kind /\ LikeOf(r) = x /\ answer[r] = "ok"
LikesAsAsked ==
    \A x \in Like : IsComment(post, x[1]) /\ x[2] \in live =>
        /\ Answered("like", x) /\ ~Answered("unlike", x) => x \in likes
        /\ Answered("unlike", x) /\ ~Answered("like", x) => x \notin likes

\* A step of r that ends well for user u.
EndsFor(r, kinds, u) == answer'[r] # answer[r] /\ answer'[r] = "ok" /\ req[r].kind \in kinds /\ req[r].user = u

OwnersStep ==
    /\ \A i \in Ids : post[i] # None /\ post'[i] # post[i] =>
         \E r \in Requests :
             \/ EndsFor(r, {"edit", "editReply", "delete", "deleteReply", "withdraw"}, post[i].author)
             \/ IsReply(post, i) /\ EndsFor(r, {"delete", "withdraw"}, post[post[i].parent].author)
    /\ \A x \in likes \ likes' :
         \E r \in Requests :
             \/ EndsFor(r, {"unlike", "withdraw"}, x[2])
             \/ EndsFor(r, {"delete", "withdraw"}, post[x[1]].author)

\* The author of a post, or of the comment it replies to, is the only one who
\* makes it change or go; a like goes with its comment or by its user's wish.
OnlyOwnersChange == [][OwnersStep]_vars

\* Every request is answered, although transactions wait for each other.
EveryRequestAnswered == \A r \in Requests : pc[r] # "idle" ~> pc[r] = "done"
=============================================================================
