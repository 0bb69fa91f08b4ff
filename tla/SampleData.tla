----------------------------- MODULE SampleData -----------------------------
(***************************************************************************)
(* The scripts that fill a database with sample activity and refresh it,   *)
(* each in one transaction at READ COMMITTED, while the accounts write.    *)
(*                                                                         *)
(* For every catalogue question the refresh reads the comments, the        *)
(* replies and the likes in three statements, decides which comments of    *)
(* its demo accounts it may replace, deletes them and writes new ones.  A  *)
(* text is the option a template mentions, or Own when somebody wrote it.  *)
(* Ids are handed out in order and never again, a rolled back row's        *)
(* included.                                                               *)
(***************************************************************************)
EXTENDS Naturals, FiniteSets

CONSTANTS
    Demo, Users,       \* the generated accounts, and everybody else
    Questions,         \* the catalogue's questions
    Options,
    Clients,           \* the accounts that use the API
    MaxId,             \* bound: comments and replies ever written
    MaxAdded,          \* bound: likes a run adds
    MaxRuns,           \* bound: runs of the scripts
    MaxRequests,       \* bound: requests of the clients
    Schemas,           \* the states of the schema before the first run
    Own, Stock, None   \* somebody's own words, a generated reply, nothing

VARIABLES
    schema,    \* "empty", "stamped", "behind", "differs" or "head"
    seeded,    \* whether the demo accounts and the catalogue exist
    post,      \* choice_comments and choice_replies as committed
    likes,     \* choice_comment_likes as committed
    vote,      \* the demo accounts' choice_votes as committed
    next,      \* the next id of a comment or reply
    requests,  \* how many requests were made
    runs,      \* how many runs have begun
    script,    \* the run: where it is, what it is for and what it has read
    work,      \* what its transaction has written
    known      \* what users had written before the run, and not removed since

vars == <<schema, seeded, post, likes, vote, next, requests, runs, script, work, known>>
data == <<post, likes, vote, next, requests>>

Accounts == Demo \cup Users
Ids == 1 .. MaxId
Texts == Options \cup {Own, Stock}
Post == [question : Questions, parent : Ids \cup {None}, author : Accounts, text : Texts]
Like == Ids \X Accounts
Votes == [Questions \X Demo -> Options \cup {None}]

\* managed: the question's comments the run may replace; generated: the
\* generated replies to them; protected: the managed comments it must keep.
Script == [pc : {"idle", "schema", "seed", "begin", "comments", "replies", "likes", "clear", "write", "commit"},
           bootstrap : BOOLEAN, apply : BOOLEAN, todo : SUBSET Questions, question : Questions \cup {None},
           all : SUBSET Ids, managed : SUBSET Ids, generated : SUBSET Ids, protected : SUBSET Ids]
Idle == [pc |-> "idle", bootstrap |-> FALSE, apply |-> FALSE, todo |-> {}, question |-> None,
         all |-> {}, managed |-> {}, generated |-> {}, protected |-> {}]

\* post: for the ids touched, the row written, or None when it is deleted.
Work == [schema : BOOLEAN, seeded : BOOLEAN, touched : SUBSET Ids, post : [Ids -> Post \cup {None}],
         cut : SUBSET Like, added : SUBSET Like, vote : Votes]
NoVotes == [x \in Questions \X Demo |-> None]
NoPosts == [i \in Ids |-> None]
NoWork == [schema |-> FALSE, seeded |-> FALSE, touched |-> {}, post |-> NoPosts, cut |-> {}, added |-> {},
           vote |-> NoVotes]

ASSUME SampleAssumption ==
    /\ Demo \cap Users = {} /\ Clients \subseteq Demo \cup Users
    /\ Own # Stock /\ {Own, Stock} \cap Options = {}
    /\ None \notin Questions \cup Ids \cup Texts \cup Post
    /\ Schemas \subseteq {"empty", "stamped", "behind", "differs", "head"}
    /\ MaxId \in Nat /\ MaxAdded \in Nat /\ MaxRuns \in Nat /\ MaxRequests \in Nat

IsComment(i) == post[i] # None /\ post[i].parent = None
IsReply(i) == post[i] # None /\ post[i].parent # None

\* generated_comment, and the same test of a reply: a template's text under a
\* demo account's name.
Generated(row) == row.author \in Demo /\ row.text # Own

\* What the accounts wrote themselves, and the likes of the users.
Written == {i \in Ids : post[i] # None /\ ~Generated(post[i])}
Theirs == {x \in likes : x[2] \in Users}

----------------------------------------------------------------------------
Init ==
    /\ schema \in Schemas /\ seeded = FALSE
    /\ post = NoPosts /\ likes = {} /\ vote = NoVotes /\ next = 1
    /\ requests = 0 /\ runs = 0 /\ script = Idle /\ work = NoWork /\ known = [posts |-> {}, likes |-> {}]

----------------------------------------------------------------------------
(* Accounts, through the API; a demo account too when it has a password.   *)
(* A comment is locked before it is replied to, liked or deleted: the      *)
(* request waits for a run that has written it.                            *)

\* Mutant: row locks that nobody waits for.
Anytime(i) == TRUE

Unlocked(i) == i \notin work.touched

Ask == requests < MaxRequests /\ requests' = requests + 1

Add(row) == next \in Ids /\ post' = [post EXCEPT ![next] = row] /\ next' = next + 1

Comment(u, q) ==
    /\ Ask /\ seeded
    /\ Add([question |-> q, parent |-> None, author |-> u, text |-> Own])
    /\ UNCHANGED <<schema, seeded, likes, vote, runs, script, work, known>>

Reply(u, c) ==
    /\ Ask /\ IsComment(c) /\ Unlocked(c)
    /\ Add([question |-> post[c].question, parent |-> c, author |-> u, text |-> Own])
    /\ UNCHANGED <<schema, seeded, likes, vote, runs, script, work, known>>

LikeComment(u, c) ==
    /\ Ask /\ IsComment(c) /\ Unlocked(c) /\ <<c, u>> \notin likes
    /\ likes' = likes \cup {<<c, u>>}
    /\ UNCHANGED <<schema, seeded, post, vote, next, runs, script, work, known>>

Unlike(u, c) ==
    /\ Ask /\ IsComment(c) /\ Unlocked(c) /\ <<c, u>> \in likes
    /\ likes' = likes \ {<<c, u>>}
    /\ known' = [known EXCEPT !.likes = @ \ {<<c, u>>}]
    /\ UNCHANGED <<schema, seeded, post, vote, next, runs, script, work>>

\* A comment goes with its replies and likes.
Family(i) == {i} \cup {j \in Ids : IsReply(j) /\ post[j].parent = i}
LikesOf(i) == {x \in likes : x[1] = i}

Delete(u, i) ==
    /\ Ask /\ post[i] # None /\ post[i].author = u /\ \A j \in Family(i) : Unlocked(j)
    /\ post' = [j \in Ids |-> IF j \in Family(i) THEN None ELSE post[j]]
    /\ likes' = likes \ LikesOf(i)
    /\ known' = [posts |-> known.posts \ Family(i), likes |-> known.likes \ LikesOf(i)]
    /\ UNCHANGED <<schema, seeded, vote, next, runs, script, work>>

----------------------------------------------------------------------------
(* The scripts' runs                                                       *)

GoTo(step) == script' = [script EXCEPT !.pc = step]

\* The advisory lock lets one run begin when no other goes on.
Begin(bootstrap, apply) ==
    /\ script.pc = "idle" /\ runs < MaxRuns
    /\ runs' = runs + 1
    /\ script' = [Idle EXCEPT !.pc = "schema", !.bootstrap = bootstrap, !.apply = apply]
    /\ known' = [posts |-> Written, likes |-> Theirs]
    /\ UNCHANGED <<schema, seeded, work>> /\ UNCHANGED data

\* An exception, or the end of a preview, rolls everything back.
RollBack == script' = Idle /\ work' = NoWork /\ UNCHANGED <<schema, seeded, runs, known>> /\ UNCHANGED data

\* A lost connection, a statement over its time limit, a name that is taken.
Abort == script.pc # "idle" /\ RollBack

\* prepare_schema: an existing schema must be the models' at the head revision;
\* an empty one is created, by bootstrap --apply only, which alone seeds data.
\* A refresh of an empty one goes on to fail where it reads the accounts.
PrepareSchema ==
    /\ script.pc = "schema"
    /\ LET create == schema = "empty" /\ script.bootstrap /\ script.apply
       IN \/ schema \in {"stamped", "behind", "differs"} /\ RollBack
          \/ schema \in {"head", "empty"} /\ script.bootstrap /\ ~script.apply /\ RollBack
          \/ /\ schema \in {"head", "empty"} /\ (script.bootstrap => script.apply)
             /\ work' = [work EXCEPT !.schema = create]
             /\ GoTo(IF script.bootstrap THEN "seed" ELSE "begin")
             /\ UNCHANGED <<schema, seeded, runs, known>> /\ UNCHANGED data

\* seed_data: the accounts, the questions and the reasons that are missing.
SeedData ==
    /\ script.pc = "seed"
    /\ work' = [work EXCEPT !.seeded = TRUE] /\ GoTo("begin")
    /\ UNCHANGED <<schema, seeded, runs, known>> /\ UNCHANGED data

\* refresh_activity: without the accounts and the catalogue it refuses to run.
BeginRefresh ==
    /\ script.pc = "begin"
    /\ \/ ~seeded /\ ~work.seeded /\ RollBack
       \/ /\ seeded \/ work.seeded
          /\ script' = [script EXCEPT !.pc = "comments", !.todo = Questions]
          /\ UNCHANGED <<schema, seeded, runs, work, known>> /\ UNCHANGED data

ReadOnly == UNCHANGED <<schema, seeded, runs, work, known>> /\ UNCHANGED data

\* The next question's comments: the managed ones are demo accounts' templates.
ReadComments ==
    /\ script.pc = "comments"
    /\ \E q \in script.todo :
         LET all == {i \in Ids : IsComment(i) /\ post[i].question = q}
         IN script' = [script EXCEPT !.pc = "replies", !.question = q, !.todo = @ \ {q}, !.all = all,
                                     !.managed = {i \in all : Generated(post[i])}]
    /\ ReadOnly

\* Mutant: a reply by a demo account counts as generated whatever it says.
ByDemo(i) == post[i].parent \in script.managed /\ post[i].author \in Demo

Replaceable(i) == post[i].parent \in script.managed /\ Generated(post[i])

\* The replies: a comment with one that is not generated is protected.
ReadReplies ==
    /\ script.pc = "replies"
    /\ LET replies == {i \in Ids : IsReply(i) /\ post[i].parent \in script.all}
           generated == {i \in replies : Replaceable(i)}
       IN script' = [script EXCEPT !.pc = "likes", !.generated = generated,
                                   !.protected = {post[i].parent : i \in replies \ generated}]
    /\ ReadOnly

\* The likes: one by somebody else protects a comment too.
ReadLikes ==
    /\ script.pc = "likes"
    /\ script' = [script EXCEPT !.pc = "clear",
                                !.protected = @ \cup {x[1] : x \in {y \in Theirs : y[1] \in script.managed}}]
    /\ ReadOnly

Retained == script.managed \cap script.protected

\* The generated replies, the demo accounts' likes and the comments that are not
\* protected are deleted, the comments with everything that refers to them by
\* now; accounts drawn at random, and the authors of the comments kept, vote.
\* A comment to keep that its author has removed fails the run when it is updated.
Clear ==
    /\ script.pc = "clear"
    /\ LET q == script.question
           doomed == script.managed \ Retained
           gone == script.generated \cup UNION {Family(i) : i \in doomed}
       IN \/ (\E i \in Retained : post[i] = None) /\ RollBack
          \/ /\ \A i \in Retained : post[i] # None
             /\ \E drawn \in (SUBSET Demo) \ {{}} :
                \E chosen \in [drawn \cup {post[i].author : i \in Retained} -> Options] :
                  work' = [work EXCEPT
                    !.touched = @ \cup gone,
                    !.post = [i \in Ids |-> IF i \in gone THEN None ELSE @[i]],
                    !.cut = @ \cup {x \in likes : x[1] \in doomed \/ (x[1] \in script.managed /\ x[2] \in Demo)},
                    !.vote = [x \in Questions \X Demo |->
                                IF x[1] # q THEN @[x]
                                ELSE IF x[2] \in DOMAIN chosen THEN chosen[x[2]] ELSE None]]
             /\ GoTo("write")
             /\ UNCHANGED <<schema, seeded, runs, known>> /\ UNCHANGED data

\* The comments the run has written to the question so far.
Active == {i \in work.touched : work.post[i] # None /\ work.post[i].parent = None
                                  /\ work.post[i].question = script.question}

\* Mutant: a comment that is kept keeps its text.
Reused(row, option) == IF row.text = Own THEN [row EXCEPT !.text = option] ELSE row

\* A comment is given a template that mentions its author's choice.
Rewritten(row, option) == [row EXCEPT !.text = option]

WriteRow(i, row) ==
    work' = [work EXCEPT !.touched = @ \cup {i},
                         !.post[i] = Rewritten(row, work.vote[<<script.question, row.author>>])]

\* A protected comment is updated in place, unless its author has removed it.
KeepComment(i) ==
    /\ script.pc = "write" /\ i \in Retained \ Active
    /\ \/ post[i] = None /\ RollBack
       \/ /\ post[i] # None /\ WriteRow(i, post[i])
          /\ UNCHANGED <<schema, seeded, runs, script, known>> /\ UNCHANGED data

\* Mutant: an account whose comment is kept is given another one.
Newcomers == {work.post[i].author : i \in Active \ Retained}

Taken == {work.post[i].author : i \in Active}

\* A new comment, of a voter who has none once all that are kept are rewritten.
AddComment(d) ==
    /\ script.pc = "write" /\ Retained \subseteq Active
    /\ next \in Ids /\ work.vote[<<script.question, d>>] # None /\ d \notin Taken
    /\ WriteRow(next, [question |-> script.question, parent |-> None, author |-> d, text |-> Own])
    /\ next' = next + 1
    /\ UNCHANGED <<schema, seeded, post, likes, vote, requests, runs, script, known>>

\* A generated reply to and a like of a comment, by another demo account.
AddReply(d, c) ==
    /\ script.pc = "write" /\ c \in Active /\ next \in Ids
    /\ d # work.post[c].author
    /\ work' = [work EXCEPT !.touched = @ \cup {next},
                            !.post[next] = [question |-> script.question, parent |-> c, author |-> d, text |-> Stock]]
    /\ next' = next + 1
    /\ UNCHANGED <<schema, seeded, post, likes, vote, requests, runs, script, known>>

AddLike(d, c) ==
    /\ script.pc = "write" /\ c \in Active /\ Cardinality(work.added) < MaxAdded
    /\ d # work.post[c].author /\ <<c, d>> \notin work.added
    /\ work' = [work EXCEPT !.added = @ \cup {<<c, d>>}]
    /\ UNCHANGED <<schema, seeded, runs, script, known>> /\ UNCHANGED data

NextQuestion ==
    /\ script.pc = "write" /\ Retained \subseteq Active
    /\ script' = [script EXCEPT !.pc = IF script.todo = {} THEN "commit" ELSE "comments",
                                !.question = None, !.all = {}, !.managed = {}, !.generated = {}, !.protected = {}]
    /\ ReadOnly

\* The end of the transaction; a preview rolls back.
Finish ==
    /\ script.pc = "commit"
    /\ \/ ~script.apply /\ RollBack
       \/ /\ script.apply
          /\ schema' = IF work.schema THEN "head" ELSE schema
          /\ seeded' = (seeded \/ work.seeded)
          /\ post' = [i \in Ids |-> IF i \in work.touched THEN work.post[i] ELSE post[i]]
          /\ likes' = (likes \ work.cut) \cup work.added
          /\ vote' = work.vote
          /\ script' = Idle /\ work' = NoWork
          /\ UNCHANGED <<next, requests, runs, known>>

----------------------------------------------------------------------------
Terminating == script.pc = "idle" /\ runs = MaxRuns /\ UNCHANGED vars

Requests ==
    \/ \E u \in Clients, q \in Questions : Comment(u, q)
    \/ \E u \in Clients, i \in Ids : Reply(u, i) \/ LikeComment(u, i) \/ Unlike(u, i) \/ Delete(u, i)

Run ==
    \/ \E bootstrap, apply \in BOOLEAN : Begin(bootstrap, apply)
    \/ PrepareSchema \/ SeedData \/ BeginRefresh \/ ReadComments \/ ReadReplies \/ ReadLikes \/ Clear
    \/ \E i \in Ids : KeepComment(i)
    \/ \E d \in Demo : AddComment(d)
    \/ \E d \in Demo, i \in Ids : AddReply(d, i) \/ AddLike(d, i)
    \/ NextQuestion \/ Finish \/ Abort

Next == Requests \/ Run \/ Terminating

Spec == Init /\ [][Next]_vars

----------------------------------------------------------------------------
(* Properties                                                              *)

\* The variables have their types, and a committed reply or like refers to a
\* committed comment: the run's cascades and the requests do not miss each other.
TypeOK ==
    /\ schema \in {"empty", "stamped", "behind", "differs", "head"} /\ seeded \in BOOLEAN
    /\ post \in [Ids -> Post \cup {None}] /\ likes \subseteq Like /\ vote \in Votes
    /\ next \in 1 .. MaxId + 1 /\ requests \in 0 .. MaxRequests /\ runs \in 0 .. MaxRuns
    /\ script \in Script /\ work \in Work
    /\ known \in [posts : SUBSET Ids, likes : SUBSET Like]
    /\ \A i \in Ids : IsReply(i) => IsComment(post[i].parent)
    /\ \A x \in likes : IsComment(x[1])

\* refresh_activity: however often it runs, a demo account has at most one
\* generated comment on a question, and that mentions the option the account
\* voted for, whether the run kept the comment or wrote it.
GeneratedMatchesVotes ==
    \A i \in Ids : IsComment(i) /\ Generated(post[i]) =>
        /\ vote[<<post[i].question, post[i].author>>] = post[i].text
        /\ \A j \in Ids : /\ IsComment(j) /\ Generated(post[j])
                         /\ post[i].author = post[j].author /\ post[i].question = post[j].question
                         => i = j

\* refresh_activity: what was written, and every user's like, before a run began
\* is there until its author or the author of its comment removes it.
SeenActivityKept == known.posts \subseteq Written /\ known.likes \subseteq Theirs
=============================================================================
