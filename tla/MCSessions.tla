----------------------------- MODULE MCSessions -----------------------------
(***************************************************************************)
(* Instances of Sessions: which requests run against which accounts.       *)
(***************************************************************************)
EXTENDS Sessions, TLC

CONSTANTS e1, e2, pOld, pNew, pWeak, c1, c2, d1, d2, l1, f1, o1, s1, k1, p1, w1

OneAccount == e1 :> pOld
TwoAccounts == e1 :> pOld @@ e2 :> Social
TwoDevices == {<<e1, d1>>, <<e1, d2>>}
OneDevice == {<<e1, d1>>}

TwoMixes == {{s1, k1, p1, w1}, {f1, o1, w1, l1}}
LateLogins == {{s1, k1, p1, l1}, {w1, l1}}

KindOf == (l1 :> "login" @@ f1 :> "refresh" @@ o1 :> "logout" @@ s1 :> "send"
        @@ k1 :> "confirm" @@ p1 :> "reset" @@ w1 :> "withdraw")
KindHere == [r \in Requests |-> KindOf[r]]
=============================================================================
