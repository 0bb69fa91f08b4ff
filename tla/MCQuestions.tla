----------------------------- MODULE MCQuestions -----------------------------
(***************************************************************************)
(* Instance of Questions: three requests for likes, that may all be of one *)
(* user, or a detail that is read while likes and votes change.            *)
(***************************************************************************)
EXTENDS Questions, TLC

CONSTANTS r1, r2, r3

Plan(a, b, c) == (r1 :> a) @@ (r2 :> b) @@ (r3 :> c)
MCPlans == {Plan("like", "like", "unlike"), Plan("like", "unlike", "unlike"),
            Plan("detail", "absent", "absent")}

Alike == Permutations(Users) \cup Permutations(Options) \cup Permutations(Reasons)
=============================================================================
