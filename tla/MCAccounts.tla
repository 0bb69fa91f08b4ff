----------------------------- MODULE MCAccounts -----------------------------
(***************************************************************************)
(* Instances of Accounts: which requests run against which accounts.       *)
(***************************************************************************)
EXTENDS Accounts, TLC

CONSTANTS e1, e2, n1, n2, n3, n4, c1, c2, i1, i2, u1, u2,
          s1, k1, g1, b1, p1, p2, w1

\* n2, n3 and n4 are n1 with the suffixes 2, 3 and 4.
Suffixed == n1 :> [i \in 1 .. MaxTry |-> <<n1, n2, n3, n4>>[i]]

Local(u, e, n) == [id |-> u, identity |-> e, email |-> e, nick |-> n]
Social(u, i, e, n) == [id |-> u, identity |-> i, email |-> e, nick |-> n]

NobodyOrNeighbours == {{}, {Local(u1, e1, n1), Social(u2, i1, None, n2)}}

TwoMixes == {{s1, k1, g1, b1}, {p1, p2, b1, w1}}

KindOf == (s1 :> "send" @@ k1 :> "confirm" @@ g1 :> "register"
        @@ b1 :> "callback" @@ p1 :> "profile" @@ p2 :> "profile"
        @@ w1 :> "withdraw")
KindHere == [r \in Requests |-> KindOf[r]]
=============================================================================
