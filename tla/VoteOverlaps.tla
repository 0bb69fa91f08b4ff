---------------------------- MODULE VoteOverlaps ----------------------------
(***************************************************************************)
(* Votes with a record of which votes were committed over which, to say    *)
(* what became of a ballot when votes on one row overlap.  The record is a *)
(* history variable: no step reads it.                                     *)
(***************************************************************************)
EXTENDS Votes

VARIABLE rivals   \* request -> the votes that wrote its row while it was served

overlapVars == <<vars, rivals>>

\* The commit of o changes the row that r has read or written.
Overtakes(o, r) == CommitVote(o) /\ InFlight(r) /\ mem[r].row \in dirty[o]

OverlapInit == Init /\ rivals = [r \in Requests |-> {}]

OverlapNext ==
    /\ Next
    /\ rivals' = [r \in Requests |-> rivals[r] \cup {o \in Requests \ {r} : Overtakes(o, r)}]

OverlapSpec == OverlapInit /\ [][OverlapNext]_overlapVars

----------------------------------------------------------------------------
\* A client told that its vote was recorded finds in its row the option and
\* the reason it sent.  Only votes on the same row that were committed between
\* its own lookup and its answer can have put their option or reason there, and
\* nothing else can: no value read earlier comes back, no merge or withdrawal
\* changes a ballot.
BallotStoredAsSent ==
    [][\A r \in Requests : RefreshVote(r) /\ answer'[r] = "ok" =>
          LET row == vote[mem[r].row]
              senders == {r} \cup rivals[r]
          IN /\ \E o \in senders : row.option = req[o].option
             /\ \E o \in senders : row.reason = req[o].reason]_overlapVars
=============================================================================
