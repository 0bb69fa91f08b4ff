----------------------------- MODULE MCComments -----------------------------
(***************************************************************************)
(* An instance of Comments: a and b write, like, edit, delete or list; b   *)
(* and w may withdraw.                                                     *)
(***************************************************************************)
EXTENDS Comments, TLC

CONSTANTS u1, u2, q1, q2, x1, x2, a, b, w, c1, c2, p1, p2

Sent(kind, user, question, comment, reply, content) ==
    [kind |-> kind, user |-> user, question |-> question,
     comment |-> comment, reply |-> reply, content |-> content]

About(user, comment, reply) ==
    {Sent("create", user, q1, None, None, x2), Sent("reply", user, q1, comment, None, x2),
     Sent("edit", user, q1, comment, None, x2), Sent("delete", user, q1, comment, None, None),
     Sent("like", user, q1, comment, None, None), Sent("unlike", user, q1, comment, None, None),
     Sent("editReply", user, q1, comment, reply, x2),
     Sent("deleteReply", user, q1, comment, reply, None)}

Lists == Sent("list", None, q1, None, None, None)
Withdraws(user) == Sent("withdraw", user, None, None, None, None)
Unanswerable == {Sent("list", None, q2, None, None, None), Sent("edit", u2, q1, p1, None, x2)}

SendsHere == [r \in Requests |->
    CASE r = a -> About(u2, c1, p1) \cup {Lists} \cup Unanswerable
      [] r = b -> About(u1, c1, p1) \cup {Sent("like", u2, q1, c1, None, None), Withdraws(u2)}
      [] r = w -> {Withdraws(u1), Withdraws(u2)}]

\* Each of two users has a comment; one, or each, replied to the other's.
Comment(u) == [question |-> q1, parent |-> None, author |-> u, content |-> x1]
Reply(c, u) == [question |-> q1, parent |-> c, author |-> u, content |-> x1]
Before(rows, liked) ==
    [post |-> [i \in Ids |-> IF i \in DOMAIN rows THEN rows[i] ELSE None], likes |-> liked]

OneThread == c1 :> Comment(u1) @@ p1 :> Reply(c1, u2)
CrossThreads == OneThread @@ c2 :> Comment(u2) @@ p2 :> Reply(c2, u1)
HistoriesHere == {Before(OneThread, {<<c1, u2>>}), Before(CrossThreads, {})}
=============================================================================
