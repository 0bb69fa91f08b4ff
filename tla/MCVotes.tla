------------------------------ MODULE MCVotes ------------------------------
(***************************************************************************)
(* Instances of Votes: which requests run, and what earlier requests left  *)
(* in choice_votes.                                                        *)
(***************************************************************************)
EXTENDS Votes, TLC

CONSTANTS u1, u2, g1, q1, q2, A, B, s1, s2, s3, v1, v2, m1, m2, w1, old1, old2, old3

OptionsHere == [q \in Questions |-> Options]
\* s3 is a reason of another question.
ReasonsHere == [q \in Questions |-> IF q = q1 THEN Reasons \ {s3} ELSE Reasons]

\* Ballot of participant p on question q left by an earlier request.
Ballot(q, p, o, s) == [question |-> q, owner |-> p, option |-> o, reason |-> s]
Holding(rows) == [i \in Ids |-> IF i \in DOMAIN rows THEN rows[i] ELSE None]

EmptyTable == Holding(<<>>)
GuestVoted == Holding(old1 :> Ballot(q1, g1, A, s1))
MemberVoted == Holding(old1 :> Ballot(q1, u1, A, s1))
GuestVotedTwice == Holding(old1 :> Ballot(q1, g1, A, s1) @@ old2 :> Ballot(q2, g1, B, s1))
BothVoted == Holding(old1 :> Ballot(q1, g1, A, s1) @@ old2 :> Ballot(q1, u1, B, s2))

\* Two votes, one merge and one withdrawal at a time, on each kind of earlier table.
KindMix == [r \in Requests |-> CASE r = m1 -> "migrate" [] r = w1 -> "withdraw" [] OTHER -> "vote"]
HistoriesMix == {EmptyTable, GuestVotedTwice, MemberVoted, BothVoted}
\* The two votes have the same kind and are stored nowhere yet.
VotesAlike == Permutations({v1, v2})

\* Two merges of one guest into one or two accounts, a vote and a withdrawal.
\* Who waits for whom does not depend on what the ballots say.
KindMerges == [r \in Requests |-> CASE r = v1 -> "vote" [] r = w1 -> "withdraw" [] OTHER -> "migrate"]
\* One account answered the second of the guest's two questions, so its merge
\* writes the guest's rows in the other order than the other account's.
Crossed == Holding(old1 :> Ballot(q1, g1, A, s1) @@ old2 :> Ballot(q2, g1, A, s1)
                @@ old3 :> Ballot(q2, u1, A, s1))
HistoriesMerges == {Crossed}

\* A guest's vote alone, to be merged twice.
HistoriesGuest == {GuestVoted}
=============================================================================
