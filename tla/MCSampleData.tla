---------------------------- MODULE MCSampleData ----------------------------
(* Two demo accounts and one user about one catalogue question with two    *)
(* options, in a database found empty or with a schema of its own.         *)
EXTENDS SampleData, TLC

CONSTANTS d1, d2, u1, q1, a, b

MCDemo == {d1, d2}
MCUsers == {u1}
MCQuestions == {q1}
MCOptions == {a, b}
MCClients == {d1, u1}
MCSchemas == {"empty", "stamped", "behind", "differs"}

\* No definition tells the options apart.
Sym == Permutations(MCOptions)
=============================================================================
