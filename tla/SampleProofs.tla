---------------------------- MODULE SampleProofs ----------------------------
(***************************************************************************)
(* Proofs about SampleData, for any number of accounts, questions, rows    *)
(* and runs: its types and the integrity of the tables, that generated     *)
(* comments match votes, and that nothing users wrote is lost.             *)
(*                                                                         *)
(* A run decides from three reads and writes later, while requests go on.  *)
(* What it relies on meanwhile: ids are not used again, a committed row    *)
(* keeps its text, what it has written is locked, and what was known       *)
(* before the run was already there when it read.                          *)
(***************************************************************************)
EXTENDS SampleData, TLAPS

Steps == {"idle", "schema", "seed", "begin", "comments", "replies", "likes", "clear", "write", "commit"}
Early == {"idle", "schema", "seed", "begin"}   \* nothing is written yet
Reading == {"replies", "likes", "clear"}       \* a question is read, not yet written
Turn == Reading \cup {"write"}

\* Questions of which the run has written nothing.
Pending == script.todo \cup (IF script.pc \in Reading THEN {script.question} ELSE {})

\* A row the run has written, not deleted.
Live(i) == i \in work.touched /\ work.post[i] # None

\* Committed rows have used their ids, and a reply is about its comment's question.
RowsInv ==
    \A i \in Ids : /\ post[i] # None => i < next
                   /\ IsReply(i) => post[post[i].parent].question = post[i].question

\* What the run has locked: rows of questions it has begun to write, none of
\* which a user had written before the run.
LockedInv ==
    /\ script.pc \in Early => work.touched = {} /\ work.cut = {} /\ work.added = {}
    /\ known.likes \cap work.cut = {}
    /\ \A i \in work.touched :
         /\ i < next /\ i \notin known.posts
         /\ post[i] # None => post[i].question \notin Pending

\* What it has written fits together and fits the row it replaces.
LiveRows ==
    \A i \in Ids : Live(i) =>
        /\ work.post[i].question \notin Pending
        /\ post[i] # None => /\ IsComment(i) /\ work.post[i].parent = None
                             /\ post[i].question = work.post[i].question
        /\ work.post[i].parent = None =>
             /\ work.post[i].author \in Demo /\ work.post[i].text \in Options
             /\ work.vote[<<work.post[i].question, work.post[i].author>>] = work.post[i].text
        /\ work.post[i].parent # None =>
             /\ Live(work.post[i].parent) /\ work.post[work.post[i].parent].parent = None
             /\ work.post[work.post[i].parent].question = work.post[i].question

\* It gives no account a second comment.
LiveOnce ==
    \A i, j \in Ids :
        /\ Live(i) /\ Live(j) /\ work.post[i].parent = None /\ work.post[j].parent = None
        /\ work.post[i].author = work.post[j].author /\ work.post[i].question = work.post[j].question
        => i = j

\* Replies and likes it leaves alone, and likes it adds, keep their comment.
LiveTargets ==
    /\ \A i \in Ids \ work.touched : IsReply(i) /\ post[i].parent \in work.touched => Live(post[i].parent)
    /\ \A x \in likes \ work.cut : x[1] \in work.touched => Live(x[1])
    /\ \A x \in work.added : Live(x[1]) /\ work.post[x[1]].parent = None

LiveInv == LiveRows /\ LiveOnce /\ LiveTargets

\* What the run knows of the question it is at.
PlanInv ==
    /\ script.pc \in Turn => script.question \in Questions /\ script.question \notin script.todo
    /\ script.pc \notin Turn => script.managed = {}
    /\ script.pc = "commit" => script.todo = {}
    /\ script.managed \subseteq script.all
    /\ script.pc \notin Early => \A i \in Ids \ work.touched :
         IsComment(i) /\ Generated(post[i]) => post[i].question \in script.todo \/ i \in script.managed
    /\ \A i \in script.managed :
         /\ i < next
         /\ post[i] # None => IsComment(i) /\ post[i].question = script.question /\ Generated(post[i])
    /\ script.pc \in Reading => script.managed \cap work.touched = {}

\* The generated replies it has found, and the comments it must keep.
FoundInv ==
    script.pc \in {"likes", "clear"} =>
        /\ \A i \in script.generated :
             /\ i < next /\ i \notin work.touched
             /\ post[i] # None => IsReply(i) /\ Generated(post[i]) /\ post[i].parent \in script.managed
        /\ \A j \in known.posts :
             IsReply(j) /\ post[j].parent \in script.managed => post[j].parent \in script.protected
        /\ script.pc = "clear" =>
             \A x \in known.likes : x[1] \in script.managed => x[1] \in script.protected

\* How far it has come with the comments it keeps.
KeepInv ==
    script.pc = "write" =>
        /\ script.managed \ Retained \subseteq work.touched
        /\ \A i \in Retained :
             /\ i \in work.touched => i \in Active /\ post[i] # None /\ work.post[i].author = post[i].author
             /\ post[i] # None => work.vote[<<script.question, post[i].author>>] \in Options
        /\ Active \subseteq Retained \/ Retained \subseteq Active

IInv == /\ TypeOK /\ RowsInv /\ GeneratedMatchesVotes /\ SeenActivityKept
        /\ LockedInv /\ LiveInv /\ PlanInv /\ FoundInv /\ KeepInv
----------------------------------------------------------------------------
(* Requests: a row, a like or a removal while a run goes on                *)

\* A row of an account's own words under a comment that is not locked.
LEMMA RowAdded ==
    ASSUME IInv, NEW row \in Post, next \in Ids, row.text = Own,
           row.parent # None => /\ IsComment(row.parent) /\ Unlocked(row.parent)
                                /\ post[row.parent].question = row.question,
           post' = [post EXCEPT ![next] = row], next' = next + 1, requests' \in 0 .. MaxRequests,
           UNCHANGED <<schema, seeded, likes, vote, runs, script, work, known>>
    PROVE  IInv'
<1> DEFINE n == next
<1>1. /\ post \in [Ids -> Post \cup {None}] /\ n \in Nat /\ n \in Ids /\ n' = n + 1 /\ Ids \subseteq Nat
      /\ likes \subseteq Like /\ script \in Script /\ work \in Work
      /\ known \in [posts : SUBSET Ids, likes : SUBSET Like]
  BY SampleAssumption DEF IInv, TypeOK, Ids
<1>2. /\ post[n] = None /\ n \notin work.touched /\ n \notin script.managed /\ n \notin known.posts
      /\ n \notin script.generated \/ script.pc \notin {"likes", "clear"}
  BY <1>1 DEF IInv, RowsInv, LockedInv, PlanInv, FoundInv, SeenActivityKept, Written
<1>3. /\ row # None /\ ~Generated(row) /\ post'[n] = row /\ \A i \in Ids : i # n => post'[i] = post[i]
  BY <1>1, SampleAssumption DEF Generated
<1>4. /\ \A i \in Ids : IsReply(i)' => /\ i = n \/ IsReply(i)
                                       /\ IsComment(post'[i].parent) /\ post'[i].parent # n
                                       /\ post'[i].parent \in Ids
                                       /\ post[post'[i].parent].question = post'[i].question
      /\ \A i \in Ids : IsComment(i) => IsComment(i)' /\ i # n
      /\ \A i \in Ids : (IsComment(i) /\ Generated(post[i]))' => IsComment(i) /\ Generated(post[i]) /\ i # n
  <2>1. \A i \in Ids : IsComment(i) => IsComment(i)' /\ i # n
    BY <1>2, <1>3 DEF IsComment
  <2>2. \A i \in Ids : (IsComment(i) /\ Generated(post[i]))' => IsComment(i) /\ Generated(post[i]) /\ i # n
    BY <1>2, <1>3 DEF IsComment, Generated
  <2>3. ASSUME NEW i \in Ids, IsReply(i)'
        PROVE  /\ i = n \/ IsReply(i)
               /\ IsComment(post'[i].parent) /\ post'[i].parent # n
               /\ post'[i].parent \in Ids
               /\ post[post'[i].parent].question = post'[i].question
    <3>1. CASE i = n
      BY <3>1, <2>3, <1>2, <1>3 DEF IsReply, IsComment, Post
    <3>2. CASE i # n
      <4>1. post'[i] = post[i] /\ IsReply(i) /\ post[i] \in Post
        BY <3>2, <2>3, <1>1, <1>3 DEF IsReply
      <4>2. IsComment(post[i].parent) /\ post[i].parent \in Ids /\ post[post[i].parent].question = post[i].question
        BY <4>1 DEF IInv, TypeOK, RowsInv, IsReply, Post
      <4>3. QED
        BY <4>1, <4>2, <1>2 DEF IsComment
    <3>3. QED
      BY <3>1, <3>2
  <2>4. QED
    BY <2>1, <2>2, <2>3
<1>5. TypeOK'
  <2>1. post' \in [Ids -> Post \cup {None}] /\ next' \in 1 .. MaxId + 1
    BY <1>1, SampleAssumption DEF Ids
  <2>2. (\A i \in Ids : IsReply(i) => IsComment(post[i].parent))'
    BY <1>4
  <2>3. (\A x \in likes : IsComment(x[1]))'
    BY <1>1, <1>4 DEF IInv, TypeOK, Like
  <2>4. /\ schema' \in {"empty", "stamped", "behind", "differs", "head"} /\ seeded' \in BOOLEAN
        /\ likes' \subseteq Like /\ vote' \in Votes /\ runs' \in 0 .. MaxRuns
        /\ script' \in Script /\ work' \in Work /\ known' \in [posts : SUBSET Ids, likes : SUBSET Like]
    BY DEF IInv, TypeOK
  <2>5. QED
    BY <2>1, <2>2, <2>3, <2>4 DEF TypeOK
<1>6. RowsInv'
  <2>1. ASSUME NEW i \in Ids, post'[i] # None
        PROVE  i < next'
    BY <2>1, <1>1, <1>3 DEF IInv, RowsInv
  <2>2. ASSUME NEW i \in Ids, IsReply(i)'
        PROVE  post'[post'[i].parent].question = post'[i].question
    BY <2>2, <1>3, <1>4
  <2>3. QED
    BY <2>1, <2>2 DEF RowsInv
<1>7. GeneratedMatchesVotes'
  <2>1. ASSUME NEW i \in Ids, IsComment(i)', Generated(post'[i])
        PROVE  IsComment(i) /\ Generated(post[i]) /\ post'[i] = post[i]
    BY <2>1, <1>3, <1>4
  <2>2. QED
    BY <2>1 DEF IInv, GeneratedMatchesVotes
<1>8. SeenActivityKept'
  BY <1>1, <1>2, <1>3 DEF IInv, SeenActivityKept, Written, Theirs, Generated
<1>9. LockedInv'
  BY <1>1, <1>2, <1>3 DEF IInv, LockedInv, Pending, Work
<1>10. LiveInv'
  <2>1. \A i \in Ids : Live(i)' = Live(i) /\ (Live(i) => i # n)
    BY <1>2 DEF Live
  <2>2. work.touched \subseteq Ids
    BY <1>1 DEF Work
  <2>3. Pending' = Pending
    BY DEF Pending
  <2>4. LiveRows'
    <3>1. ASSUME NEW i \in Ids, Live(i), post'[i] # None
          PROVE  IsComment(i)' /\ work.post[i].parent = None /\ post'[i].question = work.post[i].question
      <4>1. post'[i] = post[i] /\ post[i] # None
        BY <3>1, <2>1, <1>3
      <4>2. IsComment(i) /\ work.post[i].parent = None /\ post[i].question = work.post[i].question
        BY <4>1, <3>1 DEF IInv, LiveInv, LiveRows
      <4>3. QED
        BY <4>1, <4>2, <1>4
    <3>2. QED
      BY <3>1, <2>1, <2>3 DEF IInv, LiveInv, LiveRows, Live
  <2>5. LiveOnce'
    BY <2>1 DEF IInv, LiveInv, LiveOnce
  <2>6. LiveTargets'
    <3>1. \A i \in Ids \ work.touched : IsReply(i)' /\ post'[i].parent \in work.touched => Live(post'[i].parent)
      BY <1>3, <1>4 DEF IInv, LiveInv, LiveTargets, IsReply, Unlocked
    <3>2. QED
      BY <3>1, <2>1 DEF IInv, LiveInv, LiveTargets, Live
  <2>7. QED
    BY <2>4, <2>5, <2>6 DEF LiveInv
<1>11. PlanInv'
  BY <1>1, <1>2, <1>3 DEF IInv, PlanInv, IsComment, Generated, Script
<1>12. FoundInv'
  BY <1>1, <1>2, <1>3 DEF IInv, FoundInv, IsReply, Generated, Script
<1>13. KeepInv'
  <2>1. Retained \subseteq script.managed /\ script.managed \subseteq Ids /\ Retained' = Retained /\ Active' = Active
    BY <1>1 DEF Retained, Active, Script
  <2>2. \A i \in Retained : post'[i] = post[i]
    BY <2>1, <1>2, <1>3
  <2>3. QED
    BY <2>1, <2>2 DEF IInv, KeepInv
<1>14. QED
  BY <1>5, <1>6, <1>7, <1>8, <1>9, <1>10, <1>11, <1>12, <1>13 DEF IInv

\* A comment that is not locked gains a like, or loses one that is known no more.
LEMMA LikesChanged ==
    ASSUME IInv, likes' \subseteq Like,
           \A x \in likes' \ likes : IsComment(x[1]) /\ Unlocked(x[1]),
           known' \in [posts : SUBSET Ids, likes : SUBSET Like],
           known'.posts = known.posts, known'.likes \subseteq known.likes \cap likes',
           requests' \in 0 .. MaxRequests,
           UNCHANGED <<schema, seeded, post, vote, next, runs, script, work>>
    PROVE  IInv'
<1>1. TypeOK'
  BY DEF IInv, TypeOK, IsReply, IsComment
<1>2. RowsInv' /\ GeneratedMatchesVotes'
  BY DEF IInv, RowsInv, GeneratedMatchesVotes, IsReply, IsComment, Generated
<1>3. SeenActivityKept'
  BY DEF IInv, SeenActivityKept, Written, Theirs, Generated
<1>4. LockedInv'
  BY DEF IInv, LockedInv, Pending
<1>5. LiveInv'
  <2>1. LiveRows' /\ LiveOnce'
    BY DEF IInv, LiveInv, LiveRows, LiveOnce, Live, Pending, IsComment
  <2>2. LiveTargets'
    BY DEF IInv, LiveInv, LiveTargets, Live, IsReply, Unlocked
  <2>3. QED
    BY <2>1, <2>2 DEF LiveInv
<1>6. PlanInv'
  BY DEF IInv, PlanInv, IsComment, Generated
<1>7. FoundInv'
  BY DEF IInv, FoundInv, IsReply, Generated
<1>8. KeepInv'
  BY DEF IInv, KeepInv, Active, Retained
<1>9. QED
  BY <1>1, <1>2, <1>3, <1>4, <1>5, <1>6, <1>7, <1>8 DEF IInv

\* A reply, or a comment with its replies and likes, none of them locked.
LEMMA FamilyRemoved ==
    ASSUME IInv, NEW n \in Ids, \A j \in Family(n) : Unlocked(j),
           post' = [j \in Ids |-> IF j \in Family(n) THEN None ELSE post[j]],
           likes' = likes \ LikesOf(n),
           known' = [posts |-> known.posts \ Family(n), likes |-> known.likes \ LikesOf(n)],
           requests' \in 0 .. MaxRequests,
           UNCHANGED <<schema, seeded, vote, next, runs, script, work>>
    PROVE  IInv'
<1>1. /\ post \in [Ids -> Post \cup {None}] /\ likes \subseteq Like /\ script \in Script /\ work \in Work
      /\ known \in [posts : SUBSET Ids, likes : SUBSET Like]
  BY DEF IInv, TypeOK
<1>2. /\ \A i \in Ids : post'[i] # None => post'[i] = post[i] /\ post[i] # None /\ i \notin Family(n)
      /\ \A i \in Ids : i \notin Family(n) => post'[i] = post[i]
      /\ \A i \in work.touched : i \notin Family(n)
      /\ known'.posts = known.posts \ Family(n) /\ known'.likes = known.likes \ LikesOf(n)
  BY DEF Unlocked
<1>3. /\ \A i \in Ids : IsComment(i)' => IsComment(i) /\ post'[i] = post[i]
      /\ \A i \in Ids : IsReply(i)' => IsReply(i) /\ post'[i] = post[i]
  BY <1>2 DEF IsComment, IsReply
<1>4. ASSUME NEW i \in Ids, IsComment(i), i # n
      PROVE  IsComment(i)' /\ i \notin Family(n)
  BY <1>2, <1>4 DEF IsComment, IsReply, Family
<1>5. \A i \in Ids : IsReply(i)' => IsComment(post[i].parent)' /\ post'[post[i].parent] = post[post[i].parent]
                                    /\ post[i].parent \in Ids
  <2>1. ASSUME NEW i \in Ids, IsReply(i)'
        PROVE  IsComment(post[i].parent) /\ post[i].parent # n /\ post[i].parent \in Ids
    BY <2>1, <1>1, <1>2, <1>3 DEF IInv, TypeOK, IsReply, Family, Post
  <2>2. QED
    BY <2>1, <1>2, <1>3, <1>4
<1>6. TypeOK'
  <2>1. post' \in [Ids -> Post \cup {None}] /\ known' \in [posts : SUBSET Ids, likes : SUBSET Like]
    BY <1>1
  <2>2. (\A i \in Ids : IsReply(i) => IsComment(post[i].parent))'
    BY <1>3, <1>5
  <2>3. (\A x \in likes : IsComment(x[1]))'
    BY <1>1, <1>4 DEF IInv, TypeOK, Like, LikesOf
  <2>4. QED
    BY <2>1, <2>2, <2>3 DEF IInv, TypeOK
<1>7. RowsInv'
  BY <1>2, <1>3, <1>5 DEF IInv, RowsInv
<1>8. GeneratedMatchesVotes'
  BY <1>3 DEF IInv, GeneratedMatchesVotes
<1>9. SeenActivityKept'
  BY <1>2 DEF IInv, SeenActivityKept, Written, Theirs, Generated
<1>10. LockedInv'
  BY <1>1, <1>2 DEF IInv, LockedInv, Pending, Work
<1>11. LiveInv'
  <2>1. /\ \A i \in Ids : Live(i)' = Live(i)
        /\ Pending' = Pending
    BY DEF Live, Pending
  <2>2. LiveRows'
    <3>1. ASSUME NEW i \in Ids, Live(i), post'[i] # None
          PROVE  IsComment(i)' /\ work.post[i].parent = None /\ post'[i].question = work.post[i].question
      <4>1. post'[i] = post[i] /\ post[i] # None
        BY <3>1, <1>2
      <4>2. QED
        BY <4>1, <3>1 DEF IInv, LiveInv, LiveRows, IsComment
    <3>2. QED
      BY <3>1, <2>1 DEF IInv, LiveInv, LiveRows, Live
  <2>3. LiveOnce'
    BY <2>1 DEF IInv, LiveInv, LiveOnce
  <2>4. LiveTargets'
    BY <2>1, <1>3 DEF IInv, LiveInv, LiveTargets, Live
  <2>5. QED
    BY <2>2, <2>3, <2>4 DEF LiveInv
<1>12. PlanInv'
  <2>1. script.managed \subseteq Ids
    BY <1>1 DEF Script
  <2>2. \A i \in Ids : post'[i] # None => (IsComment(i)' <=> IsComment(i)) /\ (Generated(post'[i]) <=> Generated(post[i]))
    BY <1>2 DEF IsComment
  <2>3. QED
    BY <2>1, <2>2, <1>2, <1>3 DEF IInv, PlanInv
<1>13. FoundInv'
  <2>1. script.generated \subseteq Ids /\ known.posts \subseteq Ids
    BY <1>1 DEF Script
  <2>2. \A i \in Ids : post'[i] # None => (IsReply(i)' <=> IsReply(i)) /\ (Generated(post'[i]) <=> Generated(post[i]))
    BY <1>2 DEF IsReply
  <2>3. QED
    BY <2>1, <2>2, <1>2, <1>3 DEF IInv, FoundInv
<1>14. KeepInv'
  <2>1. Retained \subseteq Ids /\ Retained' = Retained /\ Active' = Active
    BY <1>1 DEF Retained, Active, Script
  <2>2. QED
    BY <2>1, <1>2 DEF IInv, KeepInv
<1>15. QED
  BY <1>6, <1>7, <1>8, <1>9, <1>10, <1>11, <1>12, <1>13, <1>14 DEF IInv

----------------------------------------------------------------------------
(* The run's own steps                                                     *)

\* However a transaction ends, the next run starts with nothing written.
LEMMA RolledBack == ASSUME IInv, RollBack PROVE IInv'
<1> USE DEF RollBack, data
<1>1. script' = Idle /\ work' = NoWork /\ Idle \in Script /\ NoWork \in Work
  BY SampleAssumption DEF RollBack, Idle, NoWork, NoPosts, NoVotes, Script, Work, Votes
<1>2. /\ script'.pc = "idle" /\ script'.managed = {} /\ work'.touched = {} /\ work'.cut = {} /\ work'.added = {}
      /\ script'.all = {}
  BY <1>1 DEF Idle, NoWork
<1>3. TypeOK'
  BY <1>1 DEF IInv, TypeOK, IsReply, IsComment
<1>4. RowsInv' /\ GeneratedMatchesVotes' /\ SeenActivityKept'
  BY DEF IInv, RowsInv, GeneratedMatchesVotes, SeenActivityKept, IsReply, IsComment, Generated, Written, Theirs
<1>5. LockedInv'
  BY <1>2 DEF LockedInv
<1>6. LiveInv'
  BY <1>2 DEF LiveInv, LiveRows, LiveOnce, LiveTargets, Live
<1>7. PlanInv' /\ FoundInv' /\ KeepInv'
  BY <1>2 DEF PlanInv, FoundInv, KeepInv, Turn, Reading, Early
<1>8. QED
  BY <1>3, <1>4, <1>5, <1>6, <1>7 DEF IInv

\* Steps before the first question: nothing is written, so nothing can be wrong.
LEMMA EarlySteps ==
    ASSUME IInv, script' \in Script, work' \in Work,
           script.pc \in Early, script'.managed = {},
           \/ script'.pc \in Early
           \/ script'.pc = "comments" /\ script'.todo = Questions,
           work'.touched = work.touched, work'.cut = work.cut, work'.added = work.added,
           schema' = schema, seeded' = seeded, runs' \in 0 .. MaxRuns, UNCHANGED data,
           \/ known' = known
           \/ known' = [posts |-> Written, likes |-> Theirs]
    PROVE  IInv'
<1> USE DEF data
<1>1. /\ work'.touched = {} /\ work'.cut = {} /\ work'.added = {}
      /\ post \in [Ids -> Post \cup {None}] /\ likes \subseteq Like
  BY DEF IInv, LockedInv, TypeOK
<1>2. /\ Written \subseteq Ids /\ Theirs \subseteq likes
      /\ known' \in [posts : SUBSET Ids, likes : SUBSET Like]
      /\ known'.posts \subseteq Written /\ known'.likes \subseteq Theirs
  BY <1>1 DEF Written, Theirs, IInv, TypeOK, SeenActivityKept
<1>3. TypeOK'
  BY <1>2 DEF IInv, TypeOK, IsReply, IsComment
<1>4. RowsInv' /\ GeneratedMatchesVotes'
  BY DEF IInv, RowsInv, GeneratedMatchesVotes, IsReply, IsComment, Generated
<1>5. SeenActivityKept'
  BY <1>2 DEF SeenActivityKept, Written, Theirs, Generated
<1>6. LockedInv'
  BY <1>1 DEF LockedInv
<1>7. LiveInv'
  BY <1>1 DEF LiveInv, LiveRows, LiveOnce, LiveTargets, Live
<1>8. PlanInv'
  <2>1. ASSUME NEW i \in Ids, post'[i] # None
        PROVE  post'[i].question \in Questions
    BY <2>1, <1>1 DEF Post
  <2>2. QED
    BY <2>1 DEF PlanInv, Turn, Reading, Early, IsComment
<1>9. FoundInv' /\ KeepInv'
  BY DEF FoundInv, KeepInv, Early
<1>10. QED
  BY <1>3, <1>4, <1>5, <1>6, <1>7, <1>8, <1>9 DEF IInv

\* A step that only reads changes what the run knows.
LEMMA OnlyRead ==
    ASSUME IInv, ReadOnly, script' \in Script, Pending' \subseteq Pending, script'.pc \notin Early,
           PlanInv', FoundInv', KeepInv'
    PROVE  IInv'
<1> USE DEF ReadOnly, data
<1>1. TypeOK'
  BY DEF IInv, TypeOK, IsReply, IsComment
<1>2. RowsInv' /\ GeneratedMatchesVotes' /\ SeenActivityKept'
  BY DEF IInv, RowsInv, GeneratedMatchesVotes, SeenActivityKept, IsReply, IsComment, Generated, Written, Theirs
<1>3. LockedInv'
  BY DEF IInv, LockedInv
<1>4. LiveInv'
  <2>1. LiveRows'
    BY DEF IInv, LiveInv, LiveRows, Live, IsComment
  <2>2. LiveOnce' /\ LiveTargets'
    BY DEF IInv, LiveInv, LiveOnce, LiveTargets, Live, IsReply
  <2>3. QED
    BY <2>1, <2>2 DEF LiveInv
<1>5. QED
  BY <1>1, <1>2, <1>3, <1>4 DEF IInv

\* The rows of a question that is begun are none the run has written.
LEMMA CommentsRead == ASSUME IInv, ReadComments PROVE IInv'
<1> USE DEF ReadOnly, data
<1>1. PICK q \in script.todo :
        LET all == {i \in Ids : IsComment(i) /\ post[i].question = q}
        IN script' = [script EXCEPT !.pc = "replies", !.question = q, !.todo = @ \ {q}, !.all = all,
                                    !.managed = {i \in all : Generated(post[i])}]
  BY DEF ReadComments
<1> DEFINE all == {i \in Ids : IsComment(i) /\ post[i].question = q}
<1>2. /\ script \in Script /\ script.pc = "comments" /\ q \in Questions /\ ReadOnly
      /\ work.touched \subseteq Ids
  BY DEF ReadComments, IInv, TypeOK, Script, Work
<1>3. /\ script' \in Script /\ script'.pc = "replies" /\ script'.question = q /\ script'.todo = script.todo \ {q}
      /\ script'.all = all /\ script'.managed = {i \in all : Generated(post[i])}
  BY <1>1, <1>2 DEF Script
<1>4. Pending = script.todo /\ Pending' = script.todo
  BY <1>2, <1>3 DEF Pending, Reading
<1>5. PlanInv'
  <2>1. \A i \in script'.managed :
          /\ i \in Ids /\ i < next /\ i \notin work.touched
          /\ IsComment(i) /\ post[i].question = q /\ Generated(post[i])
    BY <1>3, <1>4 DEF IInv, RowsInv, LockedInv, IsComment
  <2>2. \A i \in Ids \ work.touched :
          IsComment(i) /\ Generated(post[i]) => post[i].question \in script'.todo \/ i \in script'.managed
    BY <1>2, <1>3 DEF IInv, PlanInv, Turn, Reading, Early
  <2>3. script'.managed \subseteq script'.all /\ script'.managed \cap work.touched = {}
    BY <2>1, <1>3
  <2>4. QED
    BY <2>1, <2>2, <2>3, <1>2, <1>3 DEF PlanInv, Turn, Reading, Early, IsComment
<1>6. FoundInv' /\ KeepInv'
  BY <1>3 DEF FoundInv, KeepInv
<1>7. QED
  BY <1>2, <1>3, <1>4, <1>5, <1>6, OnlyRead DEF Early

\* The generated replies it finds are not written either, and a comment with a
\* reply that was known is protected.
LEMMA RepliesRead == ASSUME IInv, ReadReplies PROVE IInv'
<1> USE DEF ReadOnly, data
<1> DEFINE replies == {i \in Ids : IsReply(i) /\ post[i].parent \in script.all}
           generated == {i \in replies : Replaceable(i)}
           protected == {post[i].parent : i \in replies \ generated}
<1>1. /\ script \in Script /\ script.pc = "replies" /\ ReadOnly /\ post \in [Ids -> Post \cup {None}]
      /\ script' = [script EXCEPT !.pc = "likes", !.generated = generated, !.protected = protected]
  BY DEF ReadReplies, IInv, TypeOK
<1>2. generated \subseteq Ids /\ protected \subseteq Ids
  BY <1>1 DEF IsReply, Post
<1>3. /\ script' \in Script /\ script'.pc = "likes" /\ script'.question = script.question
      /\ script'.todo = script.todo /\ script'.all = script.all /\ script'.managed = script.managed
      /\ script'.generated = generated /\ script'.protected = protected
  <2> HIDE DEF generated, protected
  <2>1. QED
    BY <1>1, <1>2 DEF Script
<1>4. Pending' = Pending /\ script.question \in Pending
  BY <1>1, <1>3 DEF Pending, Reading
<1>5. PlanInv'
  BY <1>1, <1>3 DEF IInv, PlanInv, Turn, Reading, Early, IsComment
<1>6. FoundInv'
  <2>1. ASSUME NEW i \in script'.generated
        PROVE  /\ i < next /\ i \notin work.touched
               /\ IsReply(i) /\ Generated(post[i]) /\ post[i].parent \in script.managed
    <3>1. i \in Ids /\ IsReply(i) /\ Generated(post[i]) /\ post[i].parent \in script.managed
      BY <2>1, <1>3 DEF Replaceable
    <3>2. IsComment(post[i].parent) /\ post[post[i].parent].question = script.question
      BY <3>1 DEF IInv, TypeOK, PlanInv, IsComment
    <3>3. i < next /\ post[i].question = script.question /\ post[i] # None
      BY <3>1, <3>2 DEF IInv, RowsInv, IsReply
    <3>4. QED
      BY <3>1, <3>3, <1>4 DEF IInv, LockedInv
  <2>2. ASSUME NEW j \in known.posts, IsReply(j), post[j].parent \in script.managed
        PROVE  post[j].parent \in protected
    <3>1. j \in Ids /\ ~Generated(post[j])
      BY DEF IInv, SeenActivityKept, Written
    <3>2. post[j].parent \in script.all
      BY <2>2 DEF IInv, PlanInv
    <3>3. j \in replies \ generated
      BY <2>2, <3>1, <3>2 DEF Replaceable
    <3>4. QED
      BY <3>3
  <2> HIDE DEF replies, generated, protected
  <2>3. \A j \in known.posts : IsReply(j) /\ post[j].parent \in script.managed => post[j].parent \in protected
    BY <2>2
  <2>4. /\ script'.generated = generated /\ script'.protected = protected /\ script'.managed = script.managed
        /\ script'.pc = "likes" /\ post' = post /\ next' = next /\ work' = work /\ known' = known
    BY <1>1, <1>3
  <2>5. QED
    BY <2>1, <2>3, <2>4 DEF FoundInv, IsReply
<1>7. KeepInv'
  BY <1>3 DEF KeepInv
<1>8. QED
  BY <1>1, <1>3, <1>4, <1>5, <1>6, <1>7, OnlyRead DEF Early

\* A comment with a like that was known is protected too.
LEMMA LikesRead == ASSUME IInv, ReadLikes PROVE IInv'
<1> USE DEF ReadOnly, data
<1> DEFINE liked == {x[1] : x \in {y \in Theirs : y[1] \in script.managed}}
<1>1. /\ script \in Script /\ script.pc = "likes" /\ ReadOnly /\ known.likes \subseteq Theirs
      /\ script' = [script EXCEPT !.pc = "clear", !.protected = @ \cup liked]
  BY DEF ReadLikes, IInv, TypeOK, SeenActivityKept
<1>2. liked \subseteq Ids
  BY <1>1 DEF Script
<1>3. /\ script' \in Script /\ script'.pc = "clear" /\ script'.question = script.question
      /\ script'.todo = script.todo /\ script'.all = script.all /\ script'.managed = script.managed
      /\ script'.generated = script.generated /\ script'.protected = script.protected \cup liked
  <2> HIDE DEF liked
  <2>1. QED
    BY <1>1, <1>2 DEF Script
<1>4. Pending' = Pending
  BY <1>1, <1>3 DEF Pending, Reading
<1>5. PlanInv'
  BY <1>1, <1>3 DEF IInv, PlanInv, Turn, Reading, Early, IsComment
<1>6. FoundInv'
  <2>1. \A x \in known.likes : x[1] \in script.managed => x[1] \in liked
    BY <1>1
  <2>2. QED
    BY <2>1, <1>1, <1>3 DEF IInv, FoundInv, IsReply
<1>7. KeepInv'
  BY <1>3 DEF KeepInv
<1>8. QED
  BY <1>1, <1>3, <1>4, <1>5, <1>6, <1>7, OnlyRead DEF Early

\* A question that is left has all its generated comments written.
LEMMA QuestionLeft == ASSUME IInv, NextQuestion PROVE IInv'
<1> USE DEF ReadOnly, data
<1>1. /\ script \in Script /\ script.pc = "write" /\ Retained \subseteq Active /\ ReadOnly
      /\ script' = [script EXCEPT !.pc = IF script.todo = {} THEN "commit" ELSE "comments",
                      !.question = None, !.all = {}, !.managed = {}, !.generated = {}, !.protected = {}]
  BY DEF NextQuestion, IInv, TypeOK
<1>2. /\ script' \in Script /\ script'.pc \in {"commit", "comments"} /\ script'.todo = script.todo
      /\ script'.pc = "commit" => script.todo = {}
      /\ script'.all = {} /\ script'.managed = {}
  BY <1>1 DEF Script
<1>3. Pending' = Pending
  BY <1>1, <1>2 DEF Pending, Reading
<1>4. PlanInv'
  <2>1. script.managed \subseteq work.touched
    BY <1>1 DEF IInv, KeepInv, Active
  <2>2. \A i \in Ids \ work.touched : IsComment(i) /\ Generated(post[i]) => post[i].question \in script.todo
    BY <2>1, <1>1 DEF IInv, PlanInv, Early
  <2>3. QED
    BY <2>2, <1>1, <1>2 DEF PlanInv, Turn, Reading, Early, IsComment
<1>5. FoundInv' /\ KeepInv'
  BY <1>2 DEF FoundInv, KeepInv
<1>6. QED
  BY <1>1, <1>2, <1>3, <1>4, <1>5, OnlyRead DEF Early

\* What is cleared is of the question's generated comments and their replies: none
\* of it locked yet, none of it known, and nothing that stays refers to it.
LEMMA QuestionCleared == ASSUME IInv, Clear PROVE IInv'
<1> USE DEF data
<1> DEFINE q == script.question
           doomed == script.managed \ Retained
           gone == script.generated \cup UNION {Family(i) : i \in doomed}
           lost == {x \in likes : x[1] \in doomed \/ (x[1] \in script.managed /\ x[2] \in Demo)}
<1>1. CASE (\E i \in Retained : post[i] = None) /\ RollBack
  BY <1>1, RolledBack
<1>2. ASSUME \A i \in Retained : post[i] # None,
             NEW drawn \in (SUBSET Demo) \ {{}},
             NEW chosen \in [drawn \cup {post[i].author : i \in Retained} -> Options],
             work' = [work EXCEPT
               !.touched = @ \cup gone,
               !.post = [i \in Ids |-> IF i \in gone THEN None ELSE @[i]],
               !.cut = @ \cup lost,
               !.vote = [x \in Questions \X Demo |->
                           IF x[1] # q THEN @[x]
                           ELSE IF x[2] \in DOMAIN chosen THEN chosen[x[2]] ELSE None]],
             script.pc = "clear", GoTo("write"), UNCHANGED <<schema, seeded, runs, known>>, UNCHANGED data
      PROVE  IInv'
  <2>1. /\ post \in [Ids -> Post \cup {None}] /\ likes \subseteq Like /\ script \in Script /\ work \in Work
        /\ known \in [posts : SUBSET Ids, likes : SUBSET Like]
        /\ Retained \subseteq script.managed /\ script.managed \subseteq Ids /\ script.generated \subseteq Ids
        /\ work.touched \subseteq Ids /\ Demo \cap Users = {}
    BY SampleAssumption DEF IInv, TypeOK, Retained, Script, Work
  <2>2. /\ script' \in Script /\ script'.pc = "write" /\ script'.question = q /\ script'.todo = script.todo
        /\ script'.all = script.all /\ script'.managed = script.managed /\ Retained' = Retained
    BY <1>2, <2>1 DEF Script, GoTo, Retained
  <2>3. Pending = script.todo \cup {q} /\ Pending' = script.todo /\ q \in Questions /\ q \notin script.todo
    BY <1>2, <2>2 DEF Pending, Reading, IInv, PlanInv, Turn
  <2>4. ASSUME NEW i \in script.managed
        PROVE  /\ i < next /\ i \notin work.touched
               /\ post[i] # None => IsComment(i) /\ post[i].question = q /\ Generated(post[i])
    BY <1>2 DEF IInv, PlanInv, Reading
  <2>5. ASSUME NEW g \in gone
        PROVE  /\ g \in Ids /\ g < next /\ g \notin work.touched /\ g \notin known.posts
               /\ post[g] # None => post[g].question = q
               /\ IsComment(g) => g \in doomed
    <3>1. CASE g \in script.generated
      <4>1. g \in Ids /\ g < next /\ g \notin work.touched
        BY <3>1, <1>2, <2>1 DEF IInv, FoundInv
      <4>2. ASSUME post[g] # None
            PROVE  /\ IsReply(g) /\ Generated(post[g]) /\ post[g].parent \in script.managed
                   /\ post[g].question = q
        <5>1. IsReply(g) /\ Generated(post[g]) /\ post[g].parent \in script.managed
          BY <3>1, <4>2, <1>2 DEF IInv, FoundInv
        <5>2. IsComment(post[g].parent) /\ post[post[g].parent].question = q
          BY <5>1, <4>1, <2>4 DEF IInv, TypeOK, IsComment
        <5>3. QED
          BY <5>1, <5>2, <4>1 DEF IInv, RowsInv
      <4>3. QED
        BY <4>1, <4>2 DEF IInv, SeenActivityKept, Written, IsReply, IsComment
    <3>2. CASE g \in doomed
      BY <3>2, <2>1, <2>4 DEF IInv, SeenActivityKept, Written
    <3>3. ASSUME NEW i \in doomed, g \in Ids, IsReply(g), post[g].parent = i
          PROVE  /\ g \in Ids /\ g < next /\ g \notin work.touched /\ g \notin known.posts
                 /\ post[g] # None => post[g].question = q
                 /\ IsComment(g) => g \in doomed
      <4>1. IsComment(i) /\ post[i].question = q
        BY <3>3, <2>4 DEF IInv, TypeOK, IsComment
      <4>2. post[g] # None /\ g < next /\ post[g].question = q
        BY <3>3, <4>1 DEF IInv, RowsInv, IsReply
      <4>3. g \notin work.touched
        BY <3>3, <4>2, <2>3 DEF IInv, LockedInv
      <4>4. g \notin known.posts
        BY <3>3, <1>2 DEF IInv, FoundInv, Retained
      <4>5. QED
        BY <3>3, <4>2, <4>3, <4>4 DEF IsReply, IsComment
    <3>4. QED
      BY <3>1, <3>2, <3>3 DEF Family
  <2>6. lost \subseteq likes /\ known.likes \cap lost = {}
    <3>1. ASSUME NEW x \in known.likes, x \in lost
          PROVE  FALSE
      <4>1. x[2] \in Users
        BY DEF IInv, SeenActivityKept, Theirs
      <4>2. x[1] \in doomed
        BY <3>1, <4>1, <2>1
      <4>3. x[1] \in script.protected
        BY <4>2, <1>2 DEF IInv, FoundInv
      <4>4. QED
        BY <4>2, <4>3 DEF Retained
    <3>2. QED
      BY <3>1
  <2> DEFINE votes == [x \in Questions \X Demo |->
                         IF x[1] # q THEN work.vote[x]
                         ELSE IF x[2] \in DOMAIN chosen THEN chosen[x[2]] ELSE None]
  <2>7. votes \in Votes
    BY <1>2, <2>1 DEF Votes, Work
  <2>8. /\ work' \in Work /\ work'.schema = work.schema /\ work'.seeded = work.seeded
        /\ work'.touched = work.touched \cup gone
        /\ work'.post = [i \in Ids |-> IF i \in gone THEN None ELSE work.post[i]]
        /\ work'.cut = work.cut \cup lost /\ work'.added = work.added /\ work'.vote = votes
    <3>1. gone \subseteq Ids /\ lost \subseteq Like
      BY <2>1, <2>5, <2>6
    <3>2. [i \in Ids |-> IF i \in gone THEN None ELSE work.post[i]] \in [Ids -> Post \cup {None}]
      BY <2>1 DEF Work
    <3> HIDE DEF gone, lost
    <3>3. QED
      BY <1>2, <2>1, <2>7, <3>1, <3>2 DEF Work
  <2> HIDE DEF gone, lost, votes
  <2>9. \A i \in Ids : /\ Live(i)' <=> Live(i)
                       /\ Live(i) => i \notin gone /\ work'.post[i] = work.post[i]
    BY <2>1, <2>5, <2>8 DEF Live
  <2>10. Active' = {}
    <3>1. ASSUME NEW i \in Active'
          PROVE  FALSE
      <4>1. i \in Ids /\ Live(i)' /\ work'.post[i].question = q
        BY <2>2, <2>8 DEF Active, Live, Work
      <4>2. work.post[i].question = q /\ work.post[i].question \notin Pending
        BY <4>1, <2>9 DEF IInv, LiveInv, LiveRows
      <4>3. QED
        BY <4>2, <2>3
    <3>2. QED
      BY <3>1
  <2>11. TypeOK'
    BY <1>2, <2>2, <2>8 DEF IInv, TypeOK, IsReply, IsComment
  <2>12. RowsInv' /\ GeneratedMatchesVotes' /\ SeenActivityKept'
    BY <1>2 DEF IInv, RowsInv, GeneratedMatchesVotes, SeenActivityKept, IsReply, IsComment, Generated, Written, Theirs
  <2>13. LockedInv'
    BY <1>2, <2>2, <2>3, <2>5, <2>6, <2>8 DEF IInv, LockedInv, Early
  <2>14. LiveInv'
    <3>1. ASSUME NEW i \in Ids, Live(i), work.post[i].parent = None
          PROVE  votes[<<work.post[i].question, work.post[i].author>>] = work.post[i].text
      <4>1. /\ work.post[i].question \in Questions /\ work.post[i].question # q /\ work.post[i].author \in Demo
            /\ work.vote[<<work.post[i].question, work.post[i].author>>] = work.post[i].text
        BY <3>1, <2>1, <2>3 DEF Live, Work, Post, IInv, LiveInv, LiveRows
      <4>2. QED
        BY <4>1 DEF votes
    <3>2. LiveRows'
      <4>1. ASSUME NEW i \in Ids, Live(i), work.post[i].parent # None
            PROVE  work.post[i].parent \in Ids /\ Live(work.post[i].parent)
        BY <4>1, <2>1 DEF Work, Post, Live, IInv, LiveInv, LiveRows
      <4>2. ASSUME NEW i \in Ids, Live(i)
            PROVE  work.post[i].question \notin Pending'
        BY <4>2, <2>3 DEF IInv, LiveInv, LiveRows
      <4>3. \A i \in Ids : IsComment(i)' = IsComment(i)
        BY <1>2 DEF IsComment
      <4>4. post' = post /\ work'.vote = votes
        BY <1>2, <2>8
      <4>5. ASSUME NEW i \in Ids, Live(i), NEW p \in Ids, p = work.post[i].parent
            PROVE  Live(p)' /\ work'.post[p].parent = None /\ work'.post[p].question = work.post[i].question
        <5>1. p # None
          BY SampleAssumption
        <5>2. QED
          BY <4>5, <5>1, <2>9 DEF IInv, LiveInv, LiveRows
      <4>6. ASSUME NEW i \in Ids, Live(i)
            PROVE  /\ post[i] # None => /\ IsComment(i) /\ work.post[i].parent = None
                                        /\ post[i].question = work.post[i].question
                   /\ work.post[i].parent = None =>
                        work.post[i].author \in Demo /\ work.post[i].text \in Options
        BY <4>6 DEF IInv, LiveInv, LiveRows
      <4>7. ASSUME NEW i \in Ids, Live(i)'
            PROVE  Live(i) /\ work'.post[i] = work.post[i]
        BY <4>7, <2>9
      <4>8. QED
        BY <4>1, <4>2, <4>3, <4>4, <4>5, <4>6, <4>7, <3>1 DEF LiveRows
    <3>3. LiveOnce'
      BY <2>9 DEF IInv, LiveInv, LiveOnce
    <3>4. LiveTargets'
      <4>1. ASSUME NEW i \in Ids \ work'.touched, IsReply(i), post[i].parent \in work'.touched
            PROVE  post[i].parent \in Ids /\ Live(post[i].parent)
        <5>1. IsComment(post[i].parent) /\ post[i].parent \in Ids
          BY <4>1, <2>1 DEF IInv, TypeOK, IsReply, Post
        <5>2. post[i].parent \notin gone
          BY <4>1, <5>1, <2>5, <2>8 DEF gone, Family
        <5>3. QED
          BY <4>1, <5>1, <5>2, <2>8 DEF IInv, LiveInv, LiveTargets
      <4>2. ASSUME NEW x \in likes \ work'.cut, x[1] \in work'.touched
            PROVE  x[1] \in Ids /\ Live(x[1])
        <5>1. IsComment(x[1]) /\ x[1] \in Ids
          BY <2>1 DEF IInv, TypeOK, Like
        <5>2. x[1] \notin gone
          BY <4>2, <5>1, <2>5, <2>8 DEF lost
        <5>3. QED
          BY <4>2, <5>1, <5>2, <2>8 DEF IInv, LiveInv, LiveTargets
      <4>3. \A x \in work.added : x[1] \in Ids
        BY <2>1 DEF Work, Like
      <4>4. QED
        BY <1>2, <2>8, <2>9, <4>1, <4>2, <4>3 DEF IInv, LiveInv, LiveTargets, IsReply
    <3>5. QED
      BY <3>2, <3>3, <3>4 DEF LiveInv
  <2>15. PlanInv'
    BY <1>2, <2>2, <2>3, <2>8 DEF IInv, PlanInv, Turn, Reading, Early, IsComment, Generated
  <2>16. FoundInv'
    BY <2>2 DEF FoundInv
  <2>17. KeepInv'
    <3>1. script.managed \ Retained \subseteq work'.touched
      BY <2>1, <2>8 DEF gone, Family
    <3>2. ASSUME NEW i \in Retained
          PROVE  /\ i \notin work'.touched
                 /\ votes[<<q, post[i].author>>] \in Options
      <4>1. i \in Ids /\ IsComment(i) /\ Generated(post[i]) /\ i \notin work.touched
        BY <1>2, <2>1, <2>4
      <4>2. i \notin work'.touched
        BY <4>1, <2>5, <2>8
      <4>3. post[i].author \in Demo /\ post[i].author \in DOMAIN chosen /\ chosen[post[i].author] \in Options
        BY <1>2, <4>1 DEF Generated
      <4>4. QED
        BY <4>2, <4>3, <2>3 DEF votes
    <3>3. QED
      BY <1>2, <2>2, <2>8, <2>10, <3>1, <3>2 DEF KeepInv
  <2>18. QED
    BY <2>11, <2>12, <2>13, <2>14, <2>15, <2>16, <2>17 DEF IInv
<1>3. QED
  BY <1>1, <1>2 DEF Clear

\* A reply the run has written is to a comment it has written.
LEMMA LiveReply ==
    ASSUME LiveRows, NEW i \in Ids, Live(i), work.post[i].parent # None
    PROVE  /\ Live(work.post[i].parent) /\ work.post[work.post[i].parent].parent = None
           /\ work.post[work.post[i].parent].question = work.post[i].question
BY DEF LiveRows

\* The fields of what is written, when it writes rows.
LEMMA WorkFields ==
    ASSUME work \in Work, NEW touched \in SUBSET Ids, NEW rows \in [Ids -> Post \cup {None}],
           work' = [work EXCEPT !.touched = touched, !.post = rows]
    PROVE  /\ work' \in Work /\ work'.schema = work.schema /\ work'.seeded = work.seeded
           /\ work'.touched = touched /\ work'.post = rows
           /\ work'.cut = work.cut /\ work'.added = work.added /\ work'.vote = work.vote
BY DEF Work

\* A row is written: in place of a comment that is kept, with a new id, or as a
\* reply to a comment of the run; it is its author's first comment.
LEMMA RowWritten ==
    ASSUME IInv, NEW n \in Ids, NEW row \in Post, script.pc = "write",
           n \notin work.touched, n \notin known.posts, n < next', next' \in {next, next + 1},
           row.question = script.question,
           post[n] # None => IsComment(n) /\ row.parent = None /\ post[n].question = row.question,
           row.parent = None => /\ row.author \in Demo /\ row.text \in Options
                                /\ work.vote[<<row.question, row.author>>] = row.text
                                /\ \A j \in Active : work.post[j].author # row.author,
           row.parent # None => row.parent \in Active,
           \/ n \in Retained /\ post[n] # None /\ row.author = post[n].author /\ Active \subseteq Retained
           \/ n \notin Retained /\ (row.parent = None => Retained \subseteq Active),
           work' = [work EXCEPT !.touched = @ \cup {n}, !.post[n] = row],
           next' \in 1 .. MaxId + 1,
           UNCHANGED <<schema, seeded, post, likes, vote, requests, runs, script, known>>
    PROVE  IInv'
<1>1. /\ post \in [Ids -> Post \cup {None}] /\ likes \subseteq Like /\ script \in Script /\ work \in Work
      /\ known \in [posts : SUBSET Ids, likes : SUBSET Like]
      /\ next \in Nat /\ Ids \subseteq Nat /\ Retained \subseteq script.managed /\ script.managed \subseteq Ids
      /\ work.touched \subseteq Ids /\ work.post \in [Ids -> Post \cup {None}] /\ row # None
  <2>1. next \in Nat /\ Ids \subseteq Nat /\ row # None
    BY SampleAssumption DEF IInv, TypeOK, Ids
  <2>2. QED
    BY <2>1 DEF IInv, TypeOK, Retained, Script, Work
<1>2. /\ work' \in Work /\ work'.schema = work.schema /\ work'.seeded = work.seeded
      /\ work'.touched = work.touched \cup {n} /\ work'.post = [work.post EXCEPT ![n] = row]
      /\ work'.cut = work.cut /\ work'.added = work.added /\ work'.vote = work.vote
  <2> DEFINE rows == [work.post EXCEPT ![n] = row]
  <2>1. work' = [work EXCEPT !.touched = work.touched \cup {n}, !.post = rows]
    BY <1>1 DEF Work
  <2>2. rows \in [Ids -> Post \cup {None}]
    BY <1>1
  <2>3. work.touched \cup {n} \in SUBSET Ids
    BY <1>1
  <2>4. QED
    BY <2>1, <2>2, <2>3, <1>1, WorkFields, Zenon
<1>3. /\ ~Live(n) /\ work'.post[n] = row
      /\ \A i \in Ids : i # n => work'.post[i] = work.post[i]
  BY <1>1, <1>2 DEF Live
<1>4. \A i \in Ids : Live(i)' <=> Live(i) \/ i = n
  BY <1>1, <1>2, <1>3 DEF Live
<1>5. /\ Pending' = Pending /\ Pending = script.todo /\ script.question \notin script.todo
      /\ Retained' = Retained
  BY DEF Pending, Reading, Retained, IInv, PlanInv, Turn
<1>6. \A i \in Active : /\ i \in Ids /\ Live(i) /\ work.post[i].parent = None
                        /\ work.post[i].question = script.question /\ i # n
  BY <1>1, <1>3 DEF Active, Live
<1>7. \A i \in Ids : i \in Active' <=> i \in Active \/ (i = n /\ row.parent = None)
  BY <1>1, <1>2, <1>3 DEF Active
<1>8. TypeOK'
  BY <1>2 DEF IInv, TypeOK, IsReply, IsComment
<1>9. RowsInv' /\ GeneratedMatchesVotes' /\ SeenActivityKept'
  BY <1>1 DEF IInv, RowsInv, GeneratedMatchesVotes, SeenActivityKept, IsReply, IsComment, Generated, Written, Theirs
<1>10. LockedInv'
  BY <1>1, <1>2, <1>5 DEF IInv, LockedInv, Early
<1>11. LiveRows'
  <2>1. ASSUME NEW i \in Ids, Live(i)'
        PROVE  /\ work'.post[i].question \notin Pending
               /\ post[i] # None => /\ IsComment(i) /\ work'.post[i].parent = None
                                    /\ post[i].question = work'.post[i].question
               /\ work'.post[i].parent = None =>
                    /\ work'.post[i].author \in Demo /\ work'.post[i].text \in Options
                    /\ work.vote[<<work'.post[i].question, work'.post[i].author>>] = work'.post[i].text
    BY <2>1, <1>3, <1>4, <1>5 DEF IInv, LiveInv, LiveRows
  <2>2. ASSUME NEW i \in Ids, Live(i)', work'.post[i].parent # None
        PROVE  \E p \in Ids : /\ p = work'.post[i].parent /\ Live(p) /\ p # n
                              /\ work'.post[p].parent = None
                              /\ work'.post[p].question = work'.post[i].question
    <3>1. CASE i = n
      BY <3>1, <2>2, <1>3, <1>6
    <3>2. CASE i # n
      <4>1. Live(i) /\ work'.post[i] = work.post[i] /\ work.post[i] \in Post
        BY <3>2, <2>2, <1>1, <1>3, <1>4 DEF Live
      <4>2. work.post[i].parent \in Ids /\ Live(work.post[i].parent) /\ work.post[i].parent # n
        BY <4>1, <2>2, <1>3 DEF Post, IInv, LiveInv, LiveRows
      <4>3. /\ work.post[work.post[i].parent].parent = None
            /\ work.post[work.post[i].parent].question = work.post[i].question
        BY <4>1, <2>2, LiveReply DEF IInv, LiveInv
      <4>4. QED
        BY <4>1, <4>2, <4>3, <1>3
    <3>3. QED
      BY <3>1, <3>2
  <2>3. \A i \in Ids : IsComment(i)' = IsComment(i)
    BY DEF IsComment
  <2>4. QED
    BY <2>1, <2>2, <2>3, <1>2, <1>4, <1>5 DEF LiveRows
<1>12. LiveOnce'
  <2>1. ASSUME NEW j \in Ids, Live(j), work.post[j].parent = None, work.post[j].question = row.question,
               row.parent = None
        PROVE  work.post[j].author # row.author
    <3>1. j \in Active
      BY <2>1 DEF Active, Live
    <3>2. QED
      BY <3>1, <2>1
  <2>2. QED
    BY <2>1, <1>3, <1>4 DEF IInv, LiveInv, LiveOnce
<1>13. LiveTargets'
  <2>1. \A i \in Ids : IsReply(i)' = IsReply(i)
    BY DEF IsReply
  <2>2. ASSUME NEW i \in Ids, i \notin work'.touched, IsReply(i), post[i].parent \in work'.touched
        PROVE  post[i].parent \in Ids /\ (Live(post[i].parent) \/ post[i].parent = n)
    BY <2>2, <1>1, <1>2 DEF IInv, LiveInv, LiveTargets
  <2>3. ASSUME NEW x \in likes \ work.cut, x[1] \in work'.touched
        PROVE  x[1] \in Ids /\ (Live(x[1]) \/ x[1] = n)
    BY <2>3, <1>1, <1>2 DEF IInv, LiveInv, LiveTargets
  <2>4. ASSUME NEW x \in work.added
        PROVE  x[1] \in Ids /\ Live(x[1]) /\ x[1] # n /\ work'.post[x[1]].parent = None
    BY <1>1, <1>3 DEF IInv, LiveInv, LiveTargets, Work, Like
  <2>5. QED
    BY <2>1, <2>2, <2>3, <2>4, <1>2, <1>4 DEF LiveTargets
<1>14. PlanInv'
  BY <1>1, <1>2 DEF IInv, PlanInv, Turn, Reading, Early, IsComment, Generated
<1>15. FoundInv'
  BY DEF FoundInv
<1>16. KeepInv'
  <2>1. script.managed \ Retained \subseteq work'.touched
    BY <1>2 DEF IInv, KeepInv
  <2>2. ASSUME NEW i \in Retained, i \in work'.touched
        PROVE  i \in Active' /\ post[i] # None /\ work'.post[i].author = post[i].author
    <3>1. CASE i = n
      BY <3>1, <1>3, <1>7
    <3>2. CASE i # n
      BY <3>2, <2>2, <1>1, <1>2, <1>3, <1>7 DEF IInv, KeepInv
    <3>3. QED
      BY <3>1, <3>2
  <2>3. \A i \in Retained : post[i] # None => work.vote[<<script.question, post[i].author>>] \in Options
    BY DEF IInv, KeepInv
  <2>4. Active' \subseteq Retained \/ Retained \subseteq Active'
    <3>1. Active' \subseteq Ids
      BY <1>2 DEF Active, Work
    <3>2. Active \subseteq Retained \/ Retained \subseteq Active
      BY DEF IInv, KeepInv
    <3>3. QED
      BY <3>1, <3>2, <1>1, <1>7
  <2>5. QED
    BY <2>1, <2>2, <2>3, <2>4, <1>2, <1>5 DEF KeepInv
<1>17. QED
  BY <1>8, <1>9, <1>10, <1>11, <1>12, <1>13, <1>14, <1>15, <1>16 DEF IInv, LiveInv

\* The run's like of a comment it has written.
LEMMA LikeAdded == ASSUME IInv, NEW d \in Demo, NEW c \in Ids, AddLike(d, c) PROVE IInv'
<1> USE DEF data
<1>1. /\ work \in Work /\ c \in Ids /\ Live(c) /\ work.post[c].parent = None /\ <<c, d>> \in Like
      /\ work' = [work EXCEPT !.added = @ \cup {<<c, d>>}]
      /\ UNCHANGED <<schema, seeded, runs, script, known, post, likes, vote, next, requests>>
      /\ script.pc = "write"
  BY DEF AddLike, Active, Live, IInv, TypeOK, Like, Accounts
<1>2. /\ work' \in Work /\ work'.schema = work.schema /\ work'.seeded = work.seeded
      /\ work'.touched = work.touched /\ work'.post = work.post
      /\ work'.cut = work.cut /\ work'.added = work.added \cup {<<c, d>>} /\ work'.vote = work.vote
  BY <1>1 DEF Work
<1> HIDE DEF data
<1>3. TypeOK'
  BY <1>1, <1>2 DEF IInv, TypeOK, IsReply, IsComment
<1>4. RowsInv' /\ GeneratedMatchesVotes' /\ SeenActivityKept'
  BY <1>1 DEF IInv, RowsInv, GeneratedMatchesVotes, SeenActivityKept, IsReply, IsComment, Generated, Written, Theirs
<1>5. LockedInv'
  BY <1>1, <1>2 DEF IInv, LockedInv, Early, Pending
<1>6. LiveInv'
  <2>1. (\A i \in Ids : Live(i)' = Live(i)) /\ Pending' = Pending
    BY <1>1, <1>2 DEF Live, Pending
  <2>2. LiveRows' /\ LiveOnce'
    <3>1. LiveRows'
      BY <1>1, <1>2, <2>1 DEF IInv, LiveInv, LiveRows, Live, IsComment
    <3>2. LiveOnce'
      BY <1>1, <1>2 DEF IInv, LiveInv, LiveOnce, Live
    <3>3. QED
      BY <3>1, <3>2
  <2>3. LiveTargets'
    BY <1>1, <1>2 DEF IInv, LiveInv, LiveTargets, Live, IsReply
  <2>4. QED
    BY <2>2, <2>3 DEF LiveInv
<1>7. PlanInv'
  BY <1>1, <1>2 DEF IInv, PlanInv, IsComment, Generated
<1>8. FoundInv'
  BY <1>1, <1>2 DEF FoundInv
<1>9. KeepInv'
  BY <1>1, <1>2 DEF IInv, KeepInv, Active, Retained
<1>10. QED
  BY <1>3, <1>4, <1>5, <1>6, <1>7, <1>8, <1>9 DEF IInv

\* The rows it wrote and those it left alone make one consistent table: every
\* generated comment there is one it wrote, what was known is not among them.
LEMMA Committed == ASSUME IInv, Finish PROVE IInv'
<1>1. CASE ~script.apply /\ RollBack
  BY <1>1, RolledBack
<1>2. ASSUME script.pc = "commit",
             schema' = IF work.schema THEN "head" ELSE schema,
             seeded' = (seeded \/ work.seeded),
             post' = [i \in Ids |-> IF i \in work.touched THEN work.post[i] ELSE post[i]],
             likes' = (likes \ work.cut) \cup work.added,
             vote' = work.vote, script' = Idle, work' = NoWork,
             UNCHANGED <<next, requests, runs, known>>
      PROVE  IInv'
  <2>1. /\ post \in [Ids -> Post \cup {None}] /\ likes \subseteq Like /\ work \in Work
        /\ known \in [posts : SUBSET Ids, likes : SUBSET Like]
        /\ work.touched \subseteq Ids /\ work.post \in [Ids -> Post \cup {None}]
        /\ work.cut \subseteq Like /\ work.added \subseteq Like /\ work.vote \in Votes
        /\ work.schema \in BOOLEAN /\ work.seeded \in BOOLEAN
    BY DEF IInv, TypeOK, Work
  <2>2. /\ script' = Idle /\ work' = NoWork /\ Idle \in Script /\ NoWork \in Work
    BY <1>2, SampleAssumption DEF Idle, NoWork, NoPosts, NoVotes, Script, Work, Votes
  <2>3. /\ script'.pc = "idle" /\ script'.managed = {} /\ script'.all = {}
        /\ work'.touched = {} /\ work'.cut = {} /\ work'.added = {}
    BY <1>2 DEF Idle, NoWork
  <2>4. /\ \A i \in Ids : i \in work.touched => post'[i] = work.post[i] /\ (post'[i] # None <=> Live(i))
        /\ \A i \in Ids : i \notin work.touched => post'[i] = post[i]
    BY <1>2 DEF Live
  <2>5. ASSUME NEW i \in Ids, IsComment(i), i \in work.touched => Live(i)
        PROVE  IsComment(i)' /\ post'[i].question = post[i].question
    BY <2>5, <2>4 DEF IInv, LiveInv, LiveRows, IsComment, Live
  <2>6. ASSUME NEW i \in Ids, Live(i), work.post[i].parent = None
        PROVE  IsComment(i)' /\ post'[i] = work.post[i]
    BY <2>6, <2>4 DEF IsComment, Live
  <2>7. ASSUME NEW i \in Ids, IsReply(i)'
        PROVE  \E p \in Ids : /\ p = post'[i].parent /\ IsComment(p)'
                              /\ post'[p].question = post'[i].question
    <3>1. CASE i \in work.touched
      <4>1. /\ Live(i) /\ post'[i] = work.post[i] /\ work.post[i].parent # None /\ work.post[i] \in Post
        BY <3>1, <2>7, <2>1, <2>4 DEF IsReply, Live
      <4>2. work.post[i].parent \in Ids /\ Live(work.post[i].parent)
        BY <4>1 DEF Post, IInv, LiveInv, LiveRows
      <4>3. /\ work.post[work.post[i].parent].parent = None
            /\ work.post[work.post[i].parent].question = work.post[i].question
        BY <4>1 DEF IInv, LiveInv, LiveRows
      <4>4. QED
        BY <4>1, <4>2, <4>3, <2>6
    <3>2. CASE i \notin work.touched
      <4>1. post'[i] = post[i] /\ IsReply(i) /\ post[i].parent \in Ids
        BY <3>2, <2>7, <2>1, <2>4 DEF IsReply, Post
      <4>2. IsComment(post[i].parent) /\ post[post[i].parent].question = post[i].question
        BY <4>1 DEF IInv, TypeOK, RowsInv
      <4>3. post[i].parent \in work.touched => Live(post[i].parent)
        BY <3>2, <4>1 DEF IInv, LiveInv, LiveTargets
      <4>4. QED
        BY <4>1, <4>2, <4>3, <2>5
    <3>3. QED
      BY <3>1, <3>2
  <2>8. TypeOK'
    <3>1. post' \in [Ids -> Post \cup {None}] /\ likes' \subseteq Like
      BY <1>2, <2>1
    <3>2. (\A i \in Ids : IsReply(i) => IsComment(post[i].parent))'
      BY <2>7
    <3>3. ASSUME NEW x \in likes'
          PROVE  x[1] \in Ids /\ IsComment(x[1])'
      <4>1. CASE x \in work.added
        BY <4>1, <2>1, <2>6 DEF IInv, LiveInv, LiveTargets, Like
      <4>2. CASE x \in likes \ work.cut
        <5>1. x[1] \in Ids /\ IsComment(x[1])
          BY <4>2, <2>1 DEF IInv, TypeOK, Like
        <5>2. x[1] \in work.touched => Live(x[1])
          BY <4>2 DEF IInv, LiveInv, LiveTargets
        <5>3. QED
          BY <5>1, <5>2, <2>5
      <4>3. QED
        BY <1>2, <4>1, <4>2
    <3>4. (\A x \in likes : IsComment(x[1]))'
      BY <3>3
    <3>5. schema' \in {"empty", "stamped", "behind", "differs", "head"} /\ seeded' \in BOOLEAN
      BY <1>2, <2>1 DEF IInv, TypeOK
    <3>6. QED
      BY <1>2, <2>1, <2>2, <3>1, <3>2, <3>4, <3>5 DEF IInv, TypeOK
  <2>9. RowsInv'
    <3>1. ASSUME NEW i \in Ids, post'[i] # None
          PROVE  i < next'
      BY <3>1, <1>2, <2>4 DEF IInv, RowsInv, LockedInv
    <3>2. QED
      BY <3>1, <2>7 DEF RowsInv
  <2>10. GeneratedMatchesVotes'
    <3>1. ASSUME NEW i \in Ids, IsComment(i)', Generated(post'[i])
          PROVE  Live(i) /\ post'[i] = work.post[i] /\ work.post[i].parent = None
      <4>1. script.managed = {} /\ script.todo = {}
        BY <1>2 DEF IInv, PlanInv, Turn, Reading
      <4>2. i \in work.touched
        <5>1. SUFFICES ASSUME i \notin work.touched PROVE FALSE
          OBVIOUS
        <5>2. IsComment(i) /\ Generated(post[i])
          BY <5>1, <3>1, <2>4 DEF IsComment
        <5>3. QED
          BY <5>1, <5>2, <4>1, <1>2 DEF IInv, PlanInv, Early
      <4>3. QED
        BY <3>1, <4>2, <2>4 DEF IsComment
    <3>2. ASSUME NEW i \in Ids, IsComment(i)', Generated(post'[i])
          PROVE  vote'[<<post'[i].question, post'[i].author>>] = post'[i].text
      BY <3>1, <3>2, <1>2 DEF IInv, LiveInv, LiveRows
    <3>3. ASSUME NEW i \in Ids, NEW j \in Ids, IsComment(i)', Generated(post'[i]), IsComment(j)', Generated(post'[j]),
                 post'[i].author = post'[j].author, post'[i].question = post'[j].question
          PROVE  i = j
      BY <3>1, <3>3 DEF IInv, LiveInv, LiveOnce
    <3>4. QED
      BY <3>2, <3>3 DEF GeneratedMatchesVotes
  <2>11. SeenActivityKept'
    BY <1>2, <2>1, <2>4 DEF IInv, SeenActivityKept, LockedInv, Written, Theirs, Generated
  <2>12. LockedInv'
    BY <2>3 DEF LockedInv
  <2>13. LiveInv'
    BY <2>3 DEF LiveInv, LiveRows, LiveOnce, LiveTargets, Live
  <2>14. PlanInv' /\ FoundInv' /\ KeepInv'
    BY <2>3 DEF PlanInv, FoundInv, KeepInv, Turn, Reading, Early
  <2>15. QED
    BY <2>8, <2>9, <2>10, <2>11, <2>12, <2>13, <2>14 DEF IInv
<1>3. QED
  BY <1>1, <1>2 DEF Finish

----------------------------------------------------------------------------
(* Every step, and the theorems                                            *)

LEMMA Initially == ASSUME Init PROVE IInv
<1> USE DEF Init
<1>1. /\ script = Idle /\ work = NoWork /\ Idle \in Script /\ NoWork \in Work
      /\ NoVotes \in Votes /\ NoPosts \in [Ids -> Post \cup {None}]
  BY SampleAssumption DEF Idle, NoWork, NoPosts, NoVotes, Script, Work, Votes
<1>2. /\ script.pc = "idle" /\ script.managed = {} /\ script.all = {}
      /\ work.touched = {} /\ work.cut = {} /\ work.added = {} /\ known.posts = {} /\ known.likes = {}
  BY DEF Idle, NoWork
<1>3. \A i \in Ids : post[i] = None
  BY DEF NoPosts
<1>4. TypeOK
  <2>1. /\ schema \in {"empty", "stamped", "behind", "differs", "head"}
        /\ next \in 1 .. MaxId + 1 /\ requests \in 0 .. MaxRequests /\ runs \in 0 .. MaxRuns
    BY SampleAssumption
  <2>2. known \in [posts : SUBSET Ids, likes : SUBSET Like]
    OBVIOUS
  <2>3. QED
    BY <1>1, <1>3, <2>1, <2>2 DEF TypeOK, IsReply
<1>5. RowsInv /\ GeneratedMatchesVotes /\ SeenActivityKept
  BY <1>2, <1>3 DEF RowsInv, GeneratedMatchesVotes, SeenActivityKept, IsReply, IsComment
<1>6. LockedInv /\ LiveInv
  BY <1>2 DEF LockedInv, LiveInv, LiveRows, LiveOnce, LiveTargets, Live
<1>7. PlanInv /\ FoundInv /\ KeepInv
  BY <1>2 DEF PlanInv, FoundInv, KeepInv, Turn, Reading, Early
<1>8. QED
  BY <1>4, <1>5, <1>6, <1>7 DEF IInv

LEMMA RequestSteps == ASSUME IInv, Requests PROVE IInv'
<1>1. /\ post \in [Ids -> Post \cup {None}] /\ likes \subseteq Like /\ requests \in 0 .. MaxRequests
      /\ known \in [posts : SUBSET Ids, likes : SUBSET Like] /\ Clients \subseteq Accounts
      /\ known.likes \subseteq likes
  BY SampleAssumption DEF IInv, TypeOK, Accounts, SeenActivityKept, Theirs
<1>2. Ask => requests' \in 0 .. MaxRequests
  BY <1>1, SampleAssumption DEF Ask
<1>3. ASSUME NEW u \in Clients, NEW q \in Questions, Comment(u, q)
      PROVE  IInv'
  <2> DEFINE row == [question |-> q, parent |-> None, author |-> u, text |-> Own]
  <2>1. row \in Post /\ row.text = Own /\ row.parent = None
    BY <1>1 DEF Post, Texts
  <2>2. /\ next \in Ids /\ post' = [post EXCEPT ![next] = row] /\ next' = next + 1 /\ Ask
        /\ UNCHANGED <<schema, seeded, likes, vote, runs, script, work, known>>
    BY <1>3 DEF Comment, Add
  <2> HIDE DEF row
  <2>3. QED
    BY <1>2, <2>1, <2>2, RowAdded
<1>4. ASSUME NEW u \in Clients, NEW c \in Ids, Reply(u, c)
      PROVE  IInv'
  <2> DEFINE row == [question |-> post[c].question, parent |-> c, author |-> u, text |-> Own]
  <2>1. /\ IsComment(c) /\ Unlocked(c) /\ post[c] \in Post
        /\ row \in Post /\ row.text = Own /\ row.parent = c /\ row.question = post[c].question
    BY <1>1, <1>4 DEF Reply, Post, Texts, IsComment
  <2>2. /\ next \in Ids /\ post' = [post EXCEPT ![next] = row] /\ next' = next + 1 /\ Ask
        /\ UNCHANGED <<schema, seeded, likes, vote, runs, script, work, known>>
    BY <1>4 DEF Reply, Add
  <2> HIDE DEF row
  <2>3. QED
    BY <1>2, <2>1, <2>2, RowAdded
<1>5. ASSUME NEW u \in Clients, NEW c \in Ids, LikeComment(u, c)
      PROVE  IInv'
  <2>1. /\ likes' = likes \cup {<<c, u>>} /\ IsComment(c) /\ Unlocked(c) /\ <<c, u>> \in Like /\ Ask
        /\ UNCHANGED <<schema, seeded, post, vote, next, runs, script, work, known>>
    BY <1>1, <1>5 DEF LikeComment, Like
  <2>2. /\ likes' \subseteq Like /\ \A x \in likes' \ likes : IsComment(x[1]) /\ Unlocked(x[1])
        /\ known' = known /\ known'.likes \subseteq known.likes \cap likes'
    BY <1>1, <2>1
  <2>3. QED
    BY <1>1, <1>2, <2>1, <2>2, LikesChanged
<1>6. ASSUME NEW u \in Clients, NEW c \in Ids, Unlike(u, c)
      PROVE  IInv'
  <2>1. /\ likes' = likes \ {<<c, u>>} /\ Ask
        /\ known' = [known EXCEPT !.likes = @ \ {<<c, u>>}]
        /\ UNCHANGED <<schema, seeded, post, vote, next, runs, script, work>>
    BY <1>6 DEF Unlike
  <2>2. /\ likes' \subseteq Like /\ likes' \ likes = {}
        /\ known' \in [posts : SUBSET Ids, likes : SUBSET Like]
        /\ known'.posts = known.posts /\ known'.likes \subseteq known.likes \cap likes'
    BY <1>1, <2>1
  <2>3. QED
    BY <1>2, <2>1, <2>2, LikesChanged
<1>7. ASSUME NEW u \in Clients, NEW i \in Ids, Delete(u, i)
      PROVE  IInv'
  BY <1>2, <1>7, FamilyRemoved DEF Delete
<1>8. QED
  BY <1>3, <1>4, <1>5, <1>6, <1>7 DEF Requests

LEMMA BeginningSteps ==
    ASSUME IInv,
           \/ \E bootstrap, apply \in BOOLEAN : Begin(bootstrap, apply)
           \/ PrepareSchema \/ SeedData \/ BeginRefresh
    PROVE  IInv'
<1> USE DEF data
<1>1. /\ script \in Script /\ work \in Work /\ runs \in 0 .. MaxRuns /\ MaxRuns \in Nat /\ Idle \in Script
  BY SampleAssumption DEF IInv, TypeOK, Idle, Script
<1>2. script.pc \in Early => script.managed = {}
  BY <1>1 DEF IInv, PlanInv, Turn, Reading, Early
<1>3. ASSUME NEW bootstrap \in BOOLEAN, NEW apply \in BOOLEAN, Begin(bootstrap, apply)
      PROVE  IInv'
  <2>1. /\ script' \in Script /\ script'.pc = "schema" /\ script'.managed = {}
    BY <1>1, <1>3 DEF Begin, Idle, Script
  <2>2. /\ script.pc = "idle" /\ work' = work /\ schema' = schema /\ seeded' = seeded
        /\ UNCHANGED data /\ known' = [posts |-> Written, likes |-> Theirs]
        /\ runs < MaxRuns /\ runs' = runs + 1
    BY <1>3 DEF Begin
  <2>3. runs' \in 0 .. MaxRuns
    BY <1>1, <2>2
  <2>4. QED
    BY <1>1, <2>1, <2>2, <2>3, EarlySteps DEF Early
<1>4. CASE PrepareSchema
  <2>1. CASE RollBack
    BY <2>1, RolledBack
  <2>2. CASE ~RollBack
    <3>1. PICK create \in BOOLEAN, step \in {"seed", "begin"} :
            /\ script.pc = "schema" /\ work' = [work EXCEPT !.schema = create]
            /\ script' = [script EXCEPT !.pc = step]
            /\ UNCHANGED <<schema, seeded, runs, known>> /\ UNCHANGED data
      BY <1>4, <2>2 DEF PrepareSchema, GoTo
    <3>2. /\ script' \in Script /\ script'.pc = step /\ script'.managed = script.managed
          /\ work' \in Work /\ work'.touched = work.touched /\ work'.cut = work.cut /\ work'.added = work.added
      BY <1>1, <3>1 DEF Script, Work
    <3>3. QED
      BY <1>1, <1>2, <3>1, <3>2, EarlySteps DEF Early
  <2>3. QED
    BY <2>1, <2>2
<1>5. CASE SeedData
  <2>1. /\ script.pc = "seed" /\ work' = [work EXCEPT !.seeded = TRUE]
        /\ script' = [script EXCEPT !.pc = "begin"]
        /\ UNCHANGED <<schema, seeded, runs, known>> /\ UNCHANGED data
    BY <1>5 DEF SeedData, GoTo
  <2>2. /\ script' \in Script /\ script'.pc = "begin" /\ script'.managed = script.managed
        /\ work' \in Work /\ work'.touched = work.touched /\ work'.cut = work.cut /\ work'.added = work.added
    BY <1>1, <2>1 DEF Script, Work
  <2>3. QED
    BY <1>1, <1>2, <2>1, <2>2, EarlySteps DEF Early
<1>6. CASE BeginRefresh
  <2>1. CASE RollBack
    BY <2>1, RolledBack
  <2>2. CASE ~RollBack
    <3>1. /\ script.pc = "begin" /\ script' = [script EXCEPT !.pc = "comments", !.todo = Questions]
          /\ UNCHANGED <<schema, seeded, runs, work, known>> /\ UNCHANGED data
      BY <1>6, <2>2 DEF BeginRefresh
    <3>2. /\ script' \in Script /\ script'.pc = "comments" /\ script'.todo = Questions
          /\ script'.managed = script.managed
      BY <1>1, <3>1 DEF Script
    <3>3. QED
      BY <1>1, <1>2, <3>1, <3>2, EarlySteps DEF Early
  <2>3. QED
    BY <2>1, <2>2
<1>7. QED
  BY <1>3, <1>4, <1>5, <1>6

LEMMA WritingSteps ==
    ASSUME IInv,
           \/ \E i \in Ids : KeepComment(i)
           \/ \E d \in Demo : AddComment(d)
           \/ \E d \in Demo, c \in Ids : AddReply(d, c)
    PROVE  IInv'
<1>1. /\ post \in [Ids -> Post \cup {None}] /\ script \in Script /\ work \in Work
      /\ next \in 1 .. MaxId + 1 /\ Ids \subseteq Nat /\ next \in Nat /\ MaxId \in Nat
      /\ Retained \subseteq script.managed /\ script.managed \subseteq Ids
      /\ work.vote \in Votes /\ work.post \in [Ids -> Post \cup {None}]
      /\ None \notin Questions \cup Ids \cup Texts \cup Post
  BY SampleAssumption DEF IInv, TypeOK, Retained, Script, Work, Ids
<1>2. script.pc = "write" => script.question \in Questions
  BY DEF IInv, PlanInv, Turn
<1>3. ASSUME NEW i \in Ids, KeepComment(i)
      PROVE  IInv'
  <2>1. CASE RollBack
    BY <2>1, RolledBack
  <2>2. CASE ~RollBack
    <3> DEFINE option == work.vote[<<script.question, post[i].author>>]
               row == Rewritten(post[i], option)
    <3>1. /\ script.pc = "write" /\ i \in Retained /\ i \notin Active /\ post[i] # None
          /\ work' = [work EXCEPT !.touched = @ \cup {i}, !.post[i] = row]
          /\ UNCHANGED <<schema, seeded, runs, script, known>> /\ UNCHANGED data
      BY <1>3, <2>2 DEF KeepComment, WriteRow
    <3>2. /\ i < next /\ IsComment(i) /\ post[i].question = script.question /\ Generated(post[i])
          /\ post[i] \in Post /\ post[i].parent = None /\ i \in script.managed
      BY <1>1, <3>1 DEF IInv, PlanInv, IsComment
    <3>3. option \in Options /\ i \notin work.touched /\ Active \subseteq Retained
      BY <3>1 DEF IInv, KeepInv
    <3>4. /\ row \in Post /\ row.question = script.question /\ row.parent = None
          /\ row.author = post[i].author /\ row.text = option /\ row.author \in Demo
      <4> HIDE DEF option
      <4>1. QED
        BY <3>2, <3>3 DEF Rewritten, Post, Texts, Generated
    <3>5. i \notin known.posts
      BY <3>2 DEF IInv, SeenActivityKept, Written
    <3>6. ASSUME NEW j \in Active
          PROVE  work.post[j].author # row.author
      <4>1. SUFFICES ASSUME work.post[j].author = post[i].author PROVE FALSE
        BY <3>4
      <4>2. j \in Retained /\ j \in work.touched /\ j \in Ids /\ j # i
        BY <1>1, <3>1, <3>3 DEF Active
      <4>3. post[j] # None /\ work.post[j].author = post[j].author
        BY <3>1, <4>2 DEF IInv, KeepInv
      <4>4. IsComment(j) /\ Generated(post[j]) /\ post[j].question = script.question
        BY <1>1, <4>2, <4>3 DEF IInv, PlanInv
      <4>5. QED
        BY <3>2, <4>1, <4>2, <4>3, <4>4 DEF IInv, GeneratedMatchesVotes
    <3>7. work.vote[<<row.question, row.author>>] = row.text
      BY <3>4
    <3> HIDE DEF row, option
    <3>8. UNCHANGED <<schema, seeded, post, likes, vote, requests, runs, script, known>> /\ next' = next
      BY <3>1 DEF data
    <3>9. QED
      BY <1>1, <3>1, <3>2, <3>3, <3>4, <3>5, <3>6, <3>7, <3>8, RowWritten
  <2>3. QED
    BY <2>1, <2>2
<1>4. next \in Ids => /\ next \notin work.touched /\ post[next] = None /\ next \notin known.posts
                      /\ next \notin Retained /\ next < next + 1 /\ next + 1 \in 1 .. MaxId + 1
  <2>1. next \in Ids => /\ next \notin work.touched /\ post[next] = None /\ next \notin script.managed
    BY <1>1 DEF IInv, RowsInv, LockedInv, PlanInv
  <2>2. next \in Ids => next < next + 1 /\ next + 1 \in 1 .. MaxId + 1
    BY <1>1 DEF Ids
  <2>3. QED
    BY <1>1, <2>1, <2>2 DEF IInv, SeenActivityKept, Written
<1>5. ASSUME NEW d \in Demo, AddComment(d)
      PROVE  IInv'
  <2> DEFINE option == work.vote[<<script.question, d>>]
             blank == [question |-> script.question, parent |-> None, author |-> d, text |-> Own]
             row == Rewritten(blank, option)
  <2>1. /\ script.pc = "write" /\ Retained \subseteq Active /\ next \in Ids
        /\ option # None /\ d \notin Taken /\ next' = next + 1
        /\ work' = [work EXCEPT !.touched = @ \cup {next}, !.post[next] = row]
        /\ UNCHANGED <<schema, seeded, post, likes, vote, requests, runs, script, known>>
    BY <1>5 DEF AddComment, WriteRow
  <2>2. option \in Options
    BY <1>1, <1>2, <2>1 DEF Votes
  <2>3. /\ row \in Post /\ row.question = script.question /\ row.parent = None
        /\ row.author = d /\ row.text = option
    <3> HIDE DEF option
    <3>1. QED
      BY <1>2, <2>1, <2>2 DEF Rewritten, Post, Texts, Accounts
  <2>4. \A j \in Active : work.post[j].author # row.author
    BY <2>1, <2>3 DEF Taken
  <2>5. work.vote[<<row.question, row.author>>] = row.text
    BY <2>3
  <2> HIDE DEF row, option
  <2>6. QED
    BY <1>4, <2>1, <2>2, <2>3, <2>4, <2>5, RowWritten
<1>6. ASSUME NEW d \in Demo, NEW c \in Ids, AddReply(d, c)
      PROVE  IInv'
  <2> DEFINE row == [question |-> script.question, parent |-> c, author |-> d, text |-> Stock]
  <2>1. /\ script.pc = "write" /\ c \in Active /\ next \in Ids /\ next' = next + 1
        /\ work' = [work EXCEPT !.touched = @ \cup {next}, !.post[next] = row]
        /\ UNCHANGED <<schema, seeded, post, likes, vote, requests, runs, script, known>>
    BY <1>6 DEF AddReply
  <2>2. row \in Post /\ row.question = script.question /\ row.parent = c /\ c # None
    BY <1>1, <1>2, <2>1 DEF Post, Texts, Accounts
  <2> HIDE DEF row
  <2>3. QED
    BY <1>4, <2>1, <2>2, RowWritten
<1>7. QED
  BY <1>3, <1>5, <1>6

LEMMA IndStep == ASSUME IInv, [Next]_vars PROVE IInv'
<1>1. CASE Requests
  BY <1>1, RequestSteps
<1>2. CASE Run
  <2>1. CASE \/ \E bootstrap, apply \in BOOLEAN : Begin(bootstrap, apply)
             \/ PrepareSchema \/ SeedData \/ BeginRefresh
    BY <2>1, BeginningSteps
  <2>2. CASE ReadComments \/ ReadReplies \/ ReadLikes \/ NextQuestion
    BY <2>2, CommentsRead, RepliesRead, LikesRead, QuestionLeft
  <2>3. CASE Clear \/ Finish \/ Abort
    BY <2>3, QuestionCleared, Committed, RolledBack DEF Abort
  <2>4. CASE \/ \E i \in Ids : KeepComment(i)
             \/ \E d \in Demo : AddComment(d)
             \/ \E d \in Demo, c \in Ids : AddReply(d, c)
    BY <2>4, WritingSteps
  <2>5. CASE \E d \in Demo, c \in Ids : AddLike(d, c)
    BY <2>5, LikeAdded
  <2>6. QED
    BY <1>2, <2>1, <2>2, <2>3, <2>4, <2>5 DEF Run
<1>3. CASE UNCHANGED vars
  <2> USE <1>3 DEF vars
  <2>1. TypeOK' /\ RowsInv' /\ GeneratedMatchesVotes' /\ SeenActivityKept'
    BY DEF IInv, TypeOK, RowsInv, GeneratedMatchesVotes, SeenActivityKept,
           IsReply, IsComment, Generated, Written, Theirs
  <2>2. LockedInv' /\ LiveInv'
    BY DEF IInv, LockedInv, LiveInv, LiveRows, LiveOnce, LiveTargets, Live, Pending, IsComment, IsReply
  <2>3. PlanInv' /\ FoundInv' /\ KeepInv'
    BY DEF IInv, PlanInv, FoundInv, KeepInv, Active, Retained, IsComment, IsReply, Generated
  <2>4. QED
    BY <2>1, <2>2, <2>3 DEF IInv
<1>4. QED
  BY <1>1, <1>2, <1>3 DEF Next, Terminating

LEMMA Invariance == Spec => []IInv
<1>1. Init => IInv
  BY Initially
<1>2. IInv /\ [Next]_vars => IInv'
  BY IndStep
<1>3. QED
  BY <1>1, <1>2, PTL DEF Spec

\* The tables keep their types, and no committed reply or like is without its
\* comment, whatever the scripts delete while requests go on.
THEOREM SampleTypeCorrect == Spec => []TypeOK
<1>1. IInv => TypeOK
  BY DEF IInv
<1>2. QED
  BY <1>1, Invariance, PTL

\* However often the scripts run and whatever the accounts do meanwhile, a demo
\* account has at most one generated comment on a question, about its vote there.
THEOREM GeneratedCommentsMatch == Spec => []GeneratedMatchesVotes
<1>1. IInv => GeneratedMatchesVotes
  BY DEF IInv
<1>2. QED
  BY <1>1, Invariance, PTL

\* A run deletes nothing that somebody wrote, and no like of a user, before it.
THEOREM KnownActivityStays == Spec => []SeenActivityKept
<1>1. IInv => SeenActivityKept
  BY DEF IInv
<1>2. QED
  BY <1>1, Invariance, PTL
=============================================================================
