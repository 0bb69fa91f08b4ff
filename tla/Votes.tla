------------------------------- MODULE Votes -------------------------------
(***************************************************************************)
(* Voting, merging a guest's votes into an account, and withdrawal, as     *)
(* concurrent HTTP requests over one PostgreSQL database at READ           *)
(* COMMITTED.                                                              *)
(*                                                                         *)
(* A request is served by one handler with one database transaction.       *)
(* Every await on the database is a step, so other requests run between a  *)
(* handler's SELECT and its INSERT, UPDATE, DELETE or COMMIT.  A row of    *)
(* choice_votes has an id; the row a request inserts has the request's     *)
(* own name as its id, because a request inserts at most one vote.         *)
(*                                                                         *)
(* vote[i] is the committed version of row i and draft[i] the newest one:  *)
(* they differ only on the rows a transaction has written (dirty[r]),      *)
(* which are locked by it until it commits or rolls back.                  *)
(***************************************************************************)
EXTENDS Naturals, FiniteSets

CONSTANTS
    Users, Guests,          \* accounts, and guest session ids
    Questions,              \* choice_questions rows
    Active,                 \* the ones with is_active
    Options, Reasons,
    OptionsOf,              \* question -> the options it has a label for
    ReasonsOf,              \* question -> its choice_reasons
    Requests,               \* the HTTP requests of a behaviour
    Kind,                   \* request -> "vote", "migrate" or "withdraw"
    MayFail,                \* requests whose connection or process may die
    StoredIds, Histories,   \* votes of earlier requests: the initial tables
    None                    \* null, no row, nobody

VARIABLES
    live,      \* users: the accounts that exist
    vote,      \* choice_votes as committed
    draft,     \* choice_votes with the uncommitted writes of every transaction
    dirty,     \* request -> rows its transaction has written and locks
    pc,        \* request -> where its handler is
    req,       \* request -> what the client sent
    mem,       \* request -> the handler's local variables
    answer     \* request -> the kind of response it got

vars == <<live, vote, draft, dirty, pc, req, mem, answer>>

Participants == Users \cup Guests
Ids == Requests \cup StoredIds

Row == [question : Questions, owner : Participants, option : Options, reason : Reasons]
Table == [Ids -> Row \cup {None}]

\* Two rows of a table clash on the partial unique indexes of choice_votes:
\* same question and same user_id, or same question and same guest_session_id.
HasKey(t, i, q, p) == t[i] # None /\ t[i].question = q /\ t[i].owner = p
DistinctKeys(t) ==
    \A i, j \in Ids : (i # j /\ t[i] # None) => ~HasKey(t, j, t[i].question, t[i].owner)

\* option and reason are ones the question offers
Offers(q, o, s) == o \in OptionsOf[q] /\ s \in ReasonsOf[q]

Steps == {"idle", "lookup", "save", "flushed", "refresh",
          "list", "split", "drop", "move", "delete", "done"}
Answers == {"none", "ok", "unauthorized", "notFound", "invalid", "error"}

\* What a client can send to vote, and the part of it a merge or a withdrawal has.
VoteRequest == [user : Users \cup {None}, guest : Guests,
                question : Questions, option : Options, reason : Reasons]
Request == [user : Users \cup {None}, guest : Guests \cup {None}, question : Questions \cup {None},
            option : Options \cup {None}, reason : Reasons \cup {None}]
NoRequest == [user |-> None, guest |-> None, question |-> None, option |-> None, reason |-> None]

\* A listed vote: its id and its question.
Listing == Ids \X Questions
Memory == [owner : Participants \cup {None},
           row : Ids \cup {None}, option : Options \cup {None}, reason : Reasons \cup {None},
           listed : SUBSET Listing, drops : SUBSET Ids, moves : SUBSET Ids,
           several : BOOLEAN, migrated : Nat]
NoMemory == [owner |-> None, row |-> None, option |-> None, reason |-> None,
             listed |-> {}, drops |-> {}, moves |-> {}, several |-> FALSE, migrated |-> 0]

ASSUME IdsAssumption ==
    /\ Users \cap Guests = {}
    /\ Requests \cap StoredIds = {}
    /\ None \notin Row \cup Participants \cup Ids \cup [option : Options, reason : Reasons]
    /\ IsFiniteSet(Requests) /\ IsFiniteSet(StoredIds)
ASSUME QuestionsAssumption ==
    /\ Active \subseteq Questions
    /\ OptionsOf \in [Questions -> SUBSET Options]
    /\ ReasonsOf \in [Questions -> SUBSET Reasons]
ASSUME RequestsAssumption ==
    /\ Kind \in [Requests -> {"vote", "migrate", "withdraw"}]
    /\ MayFail \subseteq Requests
\* The rows earlier requests left behind satisfy the table's constraints.
ASSUME HistoriesAssumption ==
    \A h \in Histories :
        /\ h \in Table
        /\ DistinctKeys(h)
        /\ \A i \in Ids : h[i] # None => Offers(h[i].question, h[i].option, h[i].reason)
        /\ \A r \in Requests : h[r] = None

----------------------------------------------------------------------------
(* The database: row locks, unique indexes, foreign keys, transactions.    *)

\* The other open transactions that have written row i and so lock it.
Holders(r, i) == {o \in Requests \ {r} : i \in dirty[o]}

\* The other open transactions that inserted, updated or deleted a row with
\* this key: the unique check has to wait for their outcome.
KeyHolders(r, q, p) ==
    {o \in Requests \ {r} : \E j \in dirty[o] : HasKey(vote, j, q, p) \/ HasKey(draft, j, q, p)}

\* Mutant: the unique indexes are missing.
KeyNeverTaken(i, q, p) == FALSE

KeyTaken(i, q, p) == \E j \in Ids \ {i} : HasKey(draft, j, q, p)

\* Mutant: no foreign key on user_id.
AdmitsAnyOwner(i, q, p) == ~KeyTaken(i, q, p)

\* The row may be written with this key and owner: no conflict, owner exists.
Admits(i, q, p) == ~KeyTaken(i, q, p) /\ (p \in Users => p \in live)

Write(r, i, row) ==
    /\ draft' = [draft EXCEPT ![i] = row]
    /\ dirty' = [dirty EXCEPT ![r] = @ \cup {i}]

CommitTx(r) ==
    /\ vote' = [i \in Ids |-> IF i \in dirty[r] THEN draft[i] ELSE vote[i]]
    /\ dirty' = [dirty EXCEPT ![r] = {}]

RollBack(r) ==
    /\ draft' = [i \in Ids |-> IF i \in dirty[r] THEN vote[i] ELSE draft[i]]
    /\ dirty' = [dirty EXCEPT ![r] = {}]

GoTo(r, step) == pc' = [pc EXCEPT ![r] = step]

Respond(r, a) ==
    /\ pc' = [pc EXCEPT ![r] = "done"]
    /\ answer' = [answer EXCEPT ![r] = a]

\* An exception leaves the handler: the session closes and rolls back.
Raise(r) == RollBack(r) /\ Respond(r, "error") /\ UNCHANGED <<live, vote, req, mem>>

----------------------------------------------------------------------------
Init ==
    /\ live = Users
    /\ vote \in Histories
    /\ draft = vote
    /\ dirty = [r \in Requests |-> {}]
    /\ pc = [r \in Requests |-> "idle"]
    /\ req = [r \in Requests |-> NoRequest]
    /\ mem = [r \in Requests |-> NoMemory]
    /\ answer = [r \in Requests |-> "none"]

\* The access token's user if it still exists.
TokenUser(user) == IF user \in live THEN user ELSE None

----------------------------------------------------------------------------
(* POST /questions/{id}/votes *)

\* Authentication is optional: a missing or invalid token, or one of a
\* withdrawn account, makes the caller a guest.
VoteArrives(r) ==
    /\ pc[r] = "idle" /\ Kind[r] = "vote"
    /\ \E x \in VoteRequest :
         /\ req' = [req EXCEPT ![r] = x]
         /\ mem' = [mem EXCEPT ![r].owner =
                       IF TokenUser(x.user) = None THEN x.guest ELSE x.user]
    /\ GoTo(r, "lookup")
    /\ UNCHANGED <<live, vote, draft, dirty, answer>>

Accepts(x) == Offers(x.question, x.option, x.reason)

\* get_vote: the committed row of one participant, by unique key.
StoredFor(q, p) == {i \in Ids : HasKey(vote, i, q, p)}

\* get_question and the two membership checks read data nobody changes; then
\* get_vote reads the caller's committed row.
LookUpVote(r) ==
    /\ pc[r] = "lookup"
    /\ LET x == req[r]
           mine == StoredFor(x.question, mem[r].owner)
       IN \/ /\ x.question \notin Active
             /\ Respond(r, "notFound") /\ UNCHANGED mem
          \/ /\ x.question \in Active /\ ~Accepts(x)
             /\ Respond(r, "invalid") /\ UNCHANGED mem
          \/ /\ x.question \in Active /\ Accepts(x) /\ mine = {}
             /\ GoTo(r, "save") /\ UNCHANGED <<mem, answer>>
          \/ /\ x.question \in Active /\ Accepts(x)
             /\ \E i \in mine :
                  mem' = [mem EXCEPT ![r].row = i, ![r].option = vote[i].option,
                                     ![r].reason = vote[i].reason]
             /\ GoTo(r, "save") /\ UNCHANGED answer
    /\ UNCHANGED <<live, vote, draft, dirty, req>>

\* create_vote: INSERT at flush.  It waits for an open transaction on the
\* same key and fails on a committed one.  (Nobody locks the new row's id.)
InsertVote(r) ==
    /\ pc[r] = "save" /\ mem[r].row = None
    /\ LET x == req[r] IN
         /\ Holders(r, r) = {} /\ KeyHolders(r, x.question, mem[r].owner) = {}
         /\ \/ /\ Admits(r, x.question, mem[r].owner)
               /\ Write(r, r, [question |-> x.question, owner |-> mem[r].owner,
                               option |-> x.option, reason |-> x.reason])
               /\ mem' = [mem EXCEPT ![r].row = r]
               /\ GoTo(r, "flushed")
               /\ UNCHANGED <<live, vote, req, answer>>
            \/ ~Admits(r, x.question, mem[r].owner) /\ Raise(r)

\* Mutant: the handler assigns only the option.
WithNewOption(row, x, loaded) ==
    [row EXCEPT !.option = IF x.option # loaded.option THEN x.option ELSE @]

\* The UPDATE of a loaded vote sets the columns whose new value differs from
\* the loaded one, in the row's latest version.
WithNewBallot(row, x, loaded) ==
    [row EXCEPT !.option = IF x.option # loaded.option THEN x.option ELSE @,
                !.reason = IF x.reason # loaded.reason THEN x.reason ELSE @]

\* Assigning the attributes of the loaded row: the commit flushes an UPDATE,
\* or none when neither value differs from the loaded one.
ChangeVote(r) ==
    /\ pc[r] = "save" /\ mem[r].row # None
    /\ LET i == mem[r].row
           changed == req[r].option # mem[r].option \/ req[r].reason # mem[r].reason
       IN \/ /\ ~changed
             /\ GoTo(r, "flushed")
             /\ UNCHANGED <<live, vote, draft, dirty, req, mem, answer>>
          \/ /\ changed /\ Holders(r, i) = {} /\ draft[i] # None
             /\ Write(r, i, WithNewBallot(draft[i], req[r], mem[r]))
             /\ GoTo(r, "flushed")
             /\ UNCHANGED <<live, vote, req, mem, answer>>
          \/ changed /\ Holders(r, i) = {} /\ draft[i] = None /\ Raise(r)

\* db.commit() of a vote.
CommitVote(r) ==
    /\ pc[r] = "flushed" /\ Kind[r] = "vote"
    /\ CommitTx(r)
    /\ GoTo(r, "refresh")
    /\ UNCHANGED <<live, draft, req, mem, answer>>

\* db.refresh() reloads the row and fails when it is gone; the detail built
\* for the response only reads.
RefreshVote(r) ==
    /\ pc[r] = "refresh"
    /\ Respond(r, IF vote[mem[r].row] # None THEN "ok" ELSE "error")
    /\ UNCHANGED <<live, vote, draft, dirty, req, mem>>

----------------------------------------------------------------------------
(* POST /votes/migrate *)

\* Authentication is required.
MigrateArrives(r) ==
    /\ pc[r] = "idle" /\ Kind[r] = "migrate"
    /\ \E u \in Users, g \in Guests :
         /\ req' = [req EXCEPT ![r].user = u, ![r].guest = g]
         /\ \/ /\ u \in live
               /\ mem' = [mem EXCEPT ![r].owner = u]
               /\ GoTo(r, "list") /\ UNCHANGED answer
            \/ /\ u \notin live
               /\ Respond(r, "unauthorized") /\ UNCHANGED mem
    /\ UNCHANGED <<live, vote, draft, dirty>>

\* The guest's votes, as loaded.
ListGuestVotes(r) ==
    /\ pc[r] = "list"
    /\ mem' = [mem EXCEPT ![r].listed =
          {x \in Listing : x[1] \in StoredFor(x[2], req[r].guest)}]
    /\ GoTo(r, "split")
    /\ UNCHANGED <<live, vote, draft, dirty, req, answer>>

\* Mutant: the SELECT of the account's votes lost its filter on user_id.
AnsweredByAnyone(p) == {q \in Questions : \E i \in Ids : vote[i] # None /\ vote[i].question = q}

\* The questions the account has answered, read by a later SELECT.
AnsweredBy(p) == {q \in Questions : StoredFor(q, p) # {}}

IdsOf(listed) == {x[1] : x \in listed}

\* Mutants: a vote on an answered question is skipped but not deleted; the
\* counter is incremented before the test.
SplitWithoutDelete(listed, answered) ==
    LET moves == IdsOf({x \in listed : x[2] \notin answered})
    IN [drops |-> {}, moves |-> moves, migrated |-> Cardinality(moves)]
SplitCountingAll(listed, answered) ==
    [drops |-> IdsOf({x \in listed : x[2] \in answered}),
     moves |-> IdsOf({x \in listed : x[2] \notin answered}), migrated |-> Cardinality(listed)]

\* The loop over the guest's votes: one on a question the account answered is
\* deleted, the others are reassigned and counted.
Split(listed, answered) ==
    LET moves == IdsOf({x \in listed : x[2] \notin answered})
    IN [drops |-> IdsOf({x \in listed : x[2] \in answered}),
        moves |-> moves, migrated |-> Cardinality(moves)]

ListAccountVotes(r) ==
    /\ pc[r] = "split"
    /\ LET split == Split(mem[r].listed, AnsweredBy(mem[r].owner))
       IN mem' = [mem EXCEPT ![r].drops = split.drops, ![r].moves = split.moves,
                             ![r].several = Cardinality(split.moves) > 1,
                             ![r].migrated = split.migrated]
    /\ GoTo(r, "drop")
    /\ UNCHANGED <<live, vote, draft, dirty, req, answer>>

\* delete_vote: DELETE by id, at once; a row already gone is not an error.
DropOne(r) ==
    /\ pc[r] = "drop"
    /\ \E i \in mem[r].drops :
         /\ Holders(r, i) = {}
         /\ Write(r, i, None)
         /\ mem' = [mem EXCEPT ![r].drops = @ \ {i}]
    /\ UNCHANGED <<live, vote, pc, req, answer>>

BeginMoves(r) ==
    /\ pc[r] = "drop" /\ mem[r].drops = {}
    /\ GoTo(r, "move")
    /\ UNCHANGED <<live, vote, draft, dirty, req, mem, answer>>

\* The UPDATEs the commit flushes: set user_id, clear guest_session_id, by
\* primary key.  A row that is gone fails the flush when it is the only one;
\* in a batch the driver reports no row counts and the miss can go unseen.
MoveOne(r) ==
    /\ pc[r] = "move"
    /\ \E i \in mem[r].moves :
         /\ Holders(r, i) = {}
         /\ \/ /\ draft[i] # None
               /\ KeyHolders(r, draft[i].question, mem[r].owner) = {}
               /\ \/ /\ Admits(i, draft[i].question, mem[r].owner)
                     /\ Write(r, i, [draft[i] EXCEPT !.owner = mem[r].owner])
                     /\ mem' = [mem EXCEPT ![r].moves = @ \ {i}]
                     /\ UNCHANGED <<live, vote, pc, req, answer>>
                  \/ ~Admits(i, draft[i].question, mem[r].owner) /\ Raise(r)
            \/ draft[i] = None /\ Raise(r)
            \/ /\ draft[i] = None /\ mem[r].several
               /\ mem' = [mem EXCEPT ![r].moves = @ \ {i}]
               /\ UNCHANGED <<live, vote, draft, dirty, pc, req, answer>>

CommitMigration(r) ==
    /\ pc[r] = "move" /\ mem[r].moves = {}
    /\ CommitTx(r)
    /\ Respond(r, "ok")
    /\ UNCHANGED <<live, draft, req, mem>>

----------------------------------------------------------------------------
(* DELETE /auth/withdraw: the account and, by cascade, its votes. *)

WithdrawArrives(r) ==
    /\ pc[r] = "idle" /\ Kind[r] = "withdraw"
    /\ \E u \in Users :
         /\ req' = [req EXCEPT ![r].user = u]
         /\ \/ u \in live /\ GoTo(r, "delete") /\ UNCHANGED answer
            \/ u \notin live /\ Respond(r, "unauthorized")
    /\ UNCHANGED <<live, vote, draft, dirty, mem>>

OwnedBy(t, i, u) == t[i] # None /\ t[i].owner = u

\* Mutant: ON DELETE SET NULL instead of CASCADE.
NullingAccount(t, u) ==
    [i \in Ids |-> IF OwnedBy(t, i, u) THEN [t[i] EXCEPT !.owner = None] ELSE t[i]]

\* ON DELETE CASCADE of choice_votes.user_id.
WithoutAccount(t, u) == [i \in Ids |-> IF OwnedBy(t, i, u) THEN None ELSE t[i]]

\* DELETE FROM users waits for every open transaction that locks one of the
\* account's votes or holds a key-share lock on it for a new foreign key.
DeleteAccount(r) ==
    /\ pc[r] = "delete"
    /\ LET u == req[r].user
       IN /\ \A o \in Requests \ {r} : \A i \in dirty[o] :
                ~OwnedBy(vote, i, u) /\ ~OwnedBy(draft, i, u)
          /\ live' = live \ {u}
          /\ vote' = WithoutAccount(vote, u)
          /\ draft' = WithoutAccount(draft, u)
    /\ Respond(r, "ok")
    /\ UNCHANGED <<dirty, req, mem>>

----------------------------------------------------------------------------
(* Failures *)

InFlight(r) == pc[r] \notin {"idle", "done"}

\* The connection or the process dies before the response: the open
\* transaction is rolled back, a committed one stays.
Die(r) ==
    /\ r \in MayFail /\ InFlight(r)
    /\ Raise(r)

\* The writes a merge still has to make, and who makes it wait for each.
Pending(r) == CASE pc[r] = "drop" -> mem[r].drops
                [] pc[r] = "move" -> mem[r].moves
                [] OTHER -> {}
Blockers(r, i) ==
    Holders(r, i) \cup
    IF pc[r] = "move" /\ draft[i] # None THEN KeyHolders(r, draft[i].question, mem[r].owner) ELSE {}
WaitsFor(r) ==
    IF \E i \in Pending(r) : Blockers(r, i) = {} THEN {}
    ELSE UNION {Blockers(r, i) : i \in Pending(r)}

\* Mutant: nobody detects the cycle.
WaitForever(r) == FALSE

\* PostgreSQL breaks a cycle of waits by failing one of the transactions.
BreakDeadlock(r) ==
    /\ WaitsFor(r) # {}
    /\ \E cycle \in SUBSET Requests :
         /\ r \in cycle
         /\ \A a \in cycle : (\E b \in cycle : b \in WaitsFor(a)) /\ (\E b \in cycle : a \in WaitsFor(b))
    /\ Raise(r)

----------------------------------------------------------------------------
Serve(r) ==
    \/ LookUpVote(r) \/ InsertVote(r) \/ ChangeVote(r) \/ CommitVote(r) \/ RefreshVote(r)
    \/ ListGuestVotes(r) \/ ListAccountVotes(r) \/ DropOne(r) \/ BeginMoves(r)
    \/ MoveOne(r) \/ CommitMigration(r)
    \/ DeleteAccount(r)
    \/ BreakDeadlock(r)

Arrive(r) == VoteArrives(r) \/ MigrateArrives(r) \/ WithdrawArrives(r)

Terminating == (\A r \in Requests : pc[r] = "done") /\ UNCHANGED vars

Next == (\E r \in Requests : Arrive(r) \/ Serve(r) \/ Die(r)) \/ Terminating

\* A client need not send its request, and nothing has to die; a request that
\* has arrived is served until it is answered.
Spec == Init /\ [][Next]_vars /\ \A r \in Requests : WF_vars(Serve(r))

----------------------------------------------------------------------------
(* Properties *)

TypeOK ==
    /\ live \subseteq Users
    /\ vote \in Table /\ draft \in Table
    /\ dirty \in [Requests -> SUBSET Ids]
    /\ pc \in [Requests -> Steps]
    /\ req \in [Requests -> Request]
    /\ mem \in [Requests -> Memory]
    /\ answer \in [Requests -> Answers]

\* A member or a guest has at most one vote on a question, whatever requests
\* ran together and wherever their transactions stopped.
OneVotePerParticipant == DistinctKeys(vote)

\* No vote belongs to an account that is gone: a withdrawal leaves nothing
\* behind, although voting and merging checked the account in earlier steps.
OwnersExist ==
    \A i \in Ids : vote[i] # None /\ vote[i].owner \in Users => vote[i].owner \in live

Voted(q, p) == \E i \in Ids : HasKey(vote, i, q, p)

\* The account a merge of guest g in this behaviour is for.
MergedInto(g, u) == \E r \in Requests : Kind[r] = "migrate" /\ req[r].guest = g /\ mem[r].owner = u

\* A member's answer to a question disappears only with the account, and a
\* guest's only by a merge into an account that then has an answer to it, or
\* that has withdrawn meanwhile.
ChoiceKept ==
    [][/\ \A q \in Questions, u \in live' : Voted(q, u) => Voted(q, u)'
       /\ \A q \in Questions, g \in Guests :
            Voted(q, g) /\ ~Voted(q, g)' =>
               \E u \in Users : MergedInto(g, u) /\ (Voted(q, u)' \/ u \notin live')]_vars

\* A merge that succeeds leaves none of the votes it listed with the guest, and
\* the number it reports is the number of votes its commit hands over.
MergeAsReported ==
    [][\A r \in Requests : CommitMigration(r) =>
         /\ \A x \in mem[r].listed : ~OwnedBy(vote', x[1], req[r].guest)
         /\ mem[r].migrated = Cardinality({i \in Ids : /\ OwnedBy(vote', i, mem[r].owner)
                                                      /\ ~OwnedBy(vote, i, mem[r].owner)})]_vars

\* Every request that arrives is answered: waits for locks end, also when two
\* merges wait for each other.
EveryRequestAnswered == \A r \in Requests : InFlight(r) ~> (pc[r] = "done")

\* The table read as a ledger.
BallotNow ==
    [x \in Questions \X Participants |->
        IF Voted(x[1], x[2])
        THEN LET i == CHOOSE i \in Ids : HasKey(vote, i, x[1], x[2])
             IN [option |-> vote[i].option, reason |-> vote[i].reason]
        ELSE None]

Ledger == INSTANCE VoteLedger WITH members <- live, ballot <- BallotNow

\* With one merge of a guest at a time, the requests together behave like an
\* atomic ledger: each commit is one vote, one merge or one withdrawal, and nothing
\* else is visible.
ActsAsLedger == Ledger!Spec
=============================================================================
