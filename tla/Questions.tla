----------------------------- MODULE Questions -----------------------------
(***************************************************************************)
(* A question's likes and its detail page with the results.                *)
(*                                                                         *)
(* The detail is put together from separate statements at READ COMMITTED,  *)
(* so votes are cast, merged and withdrawn between them; what those do is  *)
(* taken from VoteLedger, which Votes implements.  One question stands for *)
(* all: no statement here concerns two.                                    *)
(*                                                                         *)
(* A like is inserted and committed in one step: a second insert for the   *)
(* same user would wait for the commit, and so would a withdrawal.         *)
(***************************************************************************)
EXTENDS Integers, FiniteSets, Functions

CONSTANTS
    Users, Guests,
    Question,              \* the choice_questions row
    Options, Reasons,      \* what the question offers
    Requests,              \* the HTTP requests of a behaviour
    Plans,                 \* bound: what they may be, functions to Kinds
    Stored,                \* the id of a like of an earlier request
    None

VARIABLES
    kind,             \* request -> its kind, one of Plans
    members, ballot,  \* the state of VoteLedger
    likes,            \* choice_likes of the question: rows [id, user]
    pc, who,          \* request -> where its handler is, and for whom
    mem,              \* request -> the handler's local variables
    answer,           \* request -> how it was answered
    seen,             \* request -> the Standing of its user in each state so far
    moved             \* request -> whose ballots changed since it read its vote

vars == <<kind, members, ballot, likes, pc, who, mem, answer, seen, moved>>
requestVars == <<kind, pc, who, mem, answer>>

Ledger == INSTANCE VoteLedger WITH Questions <- {Question}, Active <- {Question},
              OptionsOf <- [q \in {Question} |-> Options],
              ReasonsOf <- [q \in {Question} |-> Reasons]

Participants == Users \cup Guests
Ids == Requests \cup {Stored}
Like == [id : Ids, user : Users]
LikeKinds == {"like", "unlike"}
Kinds == LikeKinds \cup {"detail", "absent"}
Votes == {p \in Participants : ballot[<<Question, p>>] # None}
BallotOf(p) == ballot[<<Question, p>>]

Ballots == [{Question} \X Participants -> [option : Options, reason : Reasons] \cup {None}]
\* Bound: there are votes, and they change, while there is a detail to show them.
VotesMatter == \E r \in Requests : kind[r] = "detail" /\ pc[r] # "done"

\* What a request holds: its vote and its like as it read them, and counts.
Memory == [vote : [option : Options, reason : Reasons] \cup {None},
           row : Ids \cup {None},
           options : [Options -> Nat], reasons : [Reasons -> Nat], likes : Nat]
NoMemory == [vote |-> None, row |-> None, options |-> [o \in Options |-> 0],
             reasons |-> [s \in Reasons |-> 0], likes |-> 0]

ASSUME QuestionAssumption ==
    /\ Users \cap Guests = {} /\ IsFiniteSet(Users \cup Guests)
    /\ Stored \notin Requests /\ None \notin Ids \cup Users \cup Guests
    /\ IsFiniteSet(Options) /\ IsFiniteSet(Reasons)
    /\ None \notin [option : Options, reason : Reasons]
ASSUME PlansAssumption == Plans \subseteq [Requests -> Kinds]

QuestionsInit ==
    /\ kind \in Plans /\ members = Users
    /\ pc = [r \in Requests |-> "idle"] /\ who = [r \in Requests |-> None]
    /\ ballot \in Ballots /\ (VotesMatter \/ Votes = {})
    /\ \E S \in SUBSET Users : Cardinality(S) <= 1 /\ likes = {[id |-> Stored, user |-> u] : u \in S}
    /\ mem = [r \in Requests |-> NoMemory]
    /\ answer = [r \in Requests |-> "none"]
    /\ seen = [r \in Requests |-> {}] /\ moved = [r \in Requests |-> {}]

----------------------------------------------------------------------------
\* Mutant: get_like does not ask for the user.
RowOfAnyone(u) == {l \in likes : TRUE}

\* get_like: the user's row, if there is one.
RowOf(u) == {l \in likes : l.user = u}
Liked(u) == \E l \in likes : l.user = u

GoTo(r, step) == pc' = [pc EXCEPT ![r] = step]
Remember(r, field, value) == mem' = [mem EXCEPT ![r] = [@ EXCEPT ![field] = value]]
Respond(r, a) == GoTo(r, "done") /\ answer' = [answer EXCEPT ![r] = a]

\* The request whose wish the question meets for a user, given the rows.
Standing(u, rows) == IF \E l \in rows : l.user = u THEN "like" ELSE "unlike"

\* What the requests under way have seen, when a step is done.
Watch ==
    /\ seen' = [r \in Requests |->
          IF pc[r] \in {"idle", "done"} \/ kind[r] = "detail" THEN seen[r]
          ELSE seen[r] \cup {Standing(who[r], likes')}]
    /\ moved' = [r \in Requests |->
          IF pc[r] \in {"idle", "look", "done"} \/ kind[r] # "detail" THEN moved[r]
          ELSE moved[r] \cup {IF p = who[r] THEN "own" ELSE "others" :
                               p \in {p \in Participants : ballot'[<<Question, p>>] # BallotOf(p)}}]

\* Authentication, required for likes; for a detail it is optional, and one who
\* sends the token of an account that is gone is a guest.
Begin(r, p) ==
    /\ pc[r] = "idle" /\ kind[r] # "absent" /\ who' = [who EXCEPT ![r] = p]
    /\ kind[r] = "detail" => p \in members \cup Guests
    /\ IF kind[r] \in LikeKinds /\ p \notin members
       THEN Respond(r, "unauthorized") ELSE GoTo(r, "look") /\ UNCHANGED answer
    /\ seen' = [seen EXCEPT ![r] = IF kind[r] = "detail" THEN {} ELSE {Standing(p, likes)}]
    /\ UNCHANGED moved
    /\ UNCHANGED <<kind, members, ballot, likes, mem>>

\* set_like: one look decides whether there is something to do.
LookForLike(r) ==
    /\ pc[r] = "look" /\ kind[r] \in LikeKinds
    /\ \E row \in Ids \cup {None} :
         /\ IF RowOf(who[r]) = {} THEN row = None ELSE \E l \in RowOf(who[r]) : row = l.id
         /\ Remember(r, "row", row)
         /\ GoTo(r, IF (kind[r] = "like") = (row = None) THEN "write" ELSE "count")
    /\ UNCHANGED <<kind, members, ballot, likes, who, answer>> /\ Watch

\* The unique constraint and the foreign key refuse with an IntegrityError.
InsertLike(r) ==
    /\ pc[r] = "write" /\ kind[r] = "like"
    /\ \/ /\ ~Liked(who[r]) /\ who[r] \in members
          /\ likes' = likes \cup {[id |-> r, user |-> who[r]]}
          /\ GoTo(r, "count") /\ UNCHANGED answer
       \/ /\ Liked(who[r]) \/ who[r] \notin members
          /\ Respond(r, "error") /\ UNCHANGED likes
    /\ UNCHANGED <<kind, members, ballot, who, mem>> /\ Watch

\* The row that was loaded is deleted by its id; if it is gone, that is that.
DeleteLike(r) ==
    /\ pc[r] = "write" /\ kind[r] = "unlike"
    /\ likes' = {l \in likes : l.id # mem[r].row}
    /\ GoTo(r, "count")
    /\ UNCHANGED <<kind, members, ballot, who, mem, answer>> /\ Watch

CountLikes(r) ==
    /\ pc[r] = "count"
    /\ Remember(r, "likes", Cardinality(likes)) /\ Respond(r, "ok")
    /\ UNCHANGED <<kind, members, ballot, likes, who>> /\ Watch

----------------------------------------------------------------------------
\* get_question: the caller's vote is read first, and its like.
ReadVote(r) ==
    /\ pc[r] = "look" /\ kind[r] = "detail"
    /\ Remember(r, "vote", BallotOf(who[r]))
    /\ GoTo(r, IF who[r] \in Users THEN "like" ELSE "options")
    /\ UNCHANGED <<kind, members, ballot, likes, who, answer>> /\ Watch

ReadLike(r) ==
    /\ pc[r] = "like"
    /\ \E row \in Ids \cup {None} :
         /\ IF RowOf(who[r]) = {} THEN row = None ELSE \E l \in RowOf(who[r]) : row = l.id
         /\ Remember(r, "row", row)
    /\ GoTo(r, "options")
    /\ UNCHANGED <<kind, members, ballot, likes, who, answer>> /\ Watch

\* Mutant: votes of guests are not counted.
VotesOfUsers(o) == Cardinality({p \in Votes \cap Users : BallotOf(p).option = o})

VotesFor(o) == Cardinality({p \in Votes : BallotOf(p).option = o})

CountVotes(r) ==
    /\ pc[r] = "options"
    /\ Remember(r, "options", [o \in Options |-> VotesFor(o)]) /\ GoTo(r, "reasons")
    /\ UNCHANGED <<kind, members, ballot, likes, who, answer>> /\ Watch

CountReasons(r) ==
    /\ pc[r] = "reasons"
    /\ Remember(r, "reasons", [s \in Reasons |-> Cardinality({p \in Votes : BallotOf(p).reason = s})])
    /\ GoTo(r, "result")
    /\ UNCHANGED <<kind, members, ballot, likes, who, answer>> /\ Watch

Total(m) == FoldFunction(+, 0, m.options)

\* round(count / total * 100, 1), in tenths of a percent; a tie takes 16 votes.
Rounded(count, total) == (2000 * count + total) \div (2 * total)
\* ZeroDivisionError.
Undefined == -1

\* Mutant: whoever has voted, there is a vote.
ShareOfVotes(count, total) == IF total = 0 THEN Undefined ELSE Rounded(count, total)

Share(count, total) == IF total = 0 THEN 0 ELSE Rounded(count, total)

OptionShares(m) == [o \in Options |-> Share(m.options[o], Total(m))]
ReasonShares(m) == [s \in Reasons |-> Share(m.reasons[s], Total(m))]

\* The result is for those who have voted; then the likes are counted.
BuildResult(r) ==
    /\ pc[r] = "result"
    /\ LET m == mem[r]
           fails == /\ m.vote # None
                    /\ \/ \E o \in Options : OptionShares(m)[o] = Undefined
                       \/ \E s \in Reasons : ReasonShares(m)[s] = Undefined
       IN IF fails THEN Respond(r, "error") ELSE GoTo(r, "count") /\ UNCHANGED answer
    /\ UNCHANGED <<kind, members, ballot, likes, who, mem>> /\ Watch

----------------------------------------------------------------------------
\* What the other handlers do to the votes, and the cascade of a withdrawal.
VotesChange ==
    /\ VotesMatter
    /\ \/ \E p \in Participants : Ledger!Cast(Question, p)
       \/ \E g \in Guests, u \in Users : Ledger!Merge(g, u, {Question})
    /\ ballot' # ballot
    /\ UNCHANGED <<likes, requestVars>> /\ Watch

\* Mutant: no cascade from users to choice_likes.
LikesStay(u) == likes

LikesWithout(u) == {l \in likes : l.user # u}

UserWithdraws ==
    /\ \E u \in Users : Ledger!Withdraw(u) /\ likes' = LikesWithout(u)
    /\ UNCHANGED requestVars /\ Watch

AllDone == (\A r \in Requests : pc[r] = "done" \/ kind[r] = "absent") /\ UNCHANGED vars

QuestionsNext ==
    \/ \E r \in Requests :
         \/ \E p \in Participants : Begin(r, p)
         \/ LookForLike(r) \/ InsertLike(r) \/ DeleteLike(r) \/ CountLikes(r)
         \/ ReadVote(r) \/ ReadLike(r) \/ CountVotes(r) \/ CountReasons(r) \/ BuildResult(r)
    \/ VotesChange \/ UserWithdraws \/ AllDone

QuestionsSpec == QuestionsInit /\ [][QuestionsNext]_vars

----------------------------------------------------------------------------
(* Properties *)

Steps == {"idle", "look", "write", "count", "like", "options", "reasons", "result", "done"}

TypeOK ==
    /\ members \subseteq Users
    /\ ballot \in Ballots /\ kind \in Plans
    /\ likes \subseteq Like /\ \A l \in likes : l.user \in members
    /\ pc \in [Requests -> Steps] /\ who \in [Requests -> Participants \cup {None}]
    /\ mem \in [Requests -> Memory]
    /\ answer \in [Requests -> {"none", "ok", "unauthorized", "error"}]
    /\ seen \in [Requests -> SUBSET LikeKinds] /\ moved \in [Requests -> SUBSET {"own", "others"}]

\* However the likes of a user overlap, a request is answered when the question
\* has been as it asked at some moment since it came: also when the unique
\* constraint made it a 500, and also when the row it deletes is not the one
\* that is there by then.  Only an account that is gone gets a 500 for nothing.
LikesAsAsked ==
    \A r \in Requests :
        kind[r] \in LikeKinds /\ (answer[r] = "ok" \/ (answer[r] = "error" /\ who[r] \in members))
            => kind[r] \in seen[r]

Counted(m) == m.vote # None
\* Every detail is answered, also when the votes vanish after the caller's was
\* read; a caller whose vote stayed is among the counts, whatever others did;
\* and when no vote changed, options, reasons and percentages add up.
DetailSound ==
    \A r \in Requests : kind[r] = "detail" =>
        /\ answer[r] # "error"
        /\ LET m == mem[r] IN answer[r] = "ok" /\ Counted(m) =>
             /\ "own" \notin moved[r] =>
                  m.options[m.vote.option] > 0 /\ m.reasons[m.vote.reason] > 0
             /\ moved[r] = {} =>
                  /\ FoldFunction(+, 0, m.reasons) = Total(m)
                  /\ \A f \in {OptionShares(m), ReasonShares(m)} :
                       2 * (FoldFunction(+, 0, f) - 1000) \in
                           (- Cardinality(DOMAIN f))..Cardinality(DOMAIN f)
=============================================================================
