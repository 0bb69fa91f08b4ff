----------------------------- MODULE VoteLedger -----------------------------
(***************************************************************************)
(* What voting promises, without requests, rows or transactions: a ledger  *)
(* with at most one ballot for each question and participant.              *)
(***************************************************************************)
CONSTANTS Users, Guests, Questions, Options, Reasons, Active, OptionsOf, ReasonsOf, None

VARIABLES
    members,   \* the accounts that exist
    ballot     \* <<question, participant>> -> the ballot cast, or None

vars == <<members, ballot>>

Participants == Users \cup Guests
Slots == Questions \X Participants
Ballots(q) == [option : OptionsOf[q], reason : ReasonsOf[q]]

LegalLedger ==
    /\ members \subseteq Users
    /\ DOMAIN ballot = Slots
    /\ \A x \in Slots : ballot[x] # None => /\ ballot[x] \in Ballots(x[1])
                                            /\ x[2] \in members \cup Guests

Init == members = Users /\ LegalLedger

\* A participant votes, or changes the vote it has.
Cast(q, p) ==
    /\ q \in Active /\ p \in members \cup Guests
    /\ \E b \in Ballots(q) : ballot' = [ballot EXCEPT ![<<q, p>>] = b]
    /\ UNCHANGED members

\* Ballots of guest g on the questions S become user u's where u has none,
\* and are dropped where u has one.  The merge of an account that withdrew
\* meanwhile can only drop ballots.
Merge(g, u, S) ==
    /\ \A q \in S : ballot[<<q, g>>] # None
    /\ ballot' = [x \in Slots |->
          IF x[1] \notin S THEN ballot[x]
          ELSE IF x[2] = g THEN None
          ELSE IF x[2] = u /\ u \in members /\ ballot[x] = None THEN ballot[<<x[1], g>>]
          ELSE ballot[x]]
    /\ UNCHANGED members

Withdraw(u) ==
    /\ u \in members
    /\ members' = members \ {u}
    /\ ballot' = [x \in Slots |-> IF x[2] = u THEN None ELSE ballot[x]]

Next ==
    \/ \E q \in Questions, p \in Participants : Cast(q, p)
    \/ \E g \in Guests, u \in Users, S \in SUBSET Questions : Merge(g, u, S)
    \/ \E u \in Users : Withdraw(u)

Spec == Init /\ [][Next]_vars
=============================================================================
