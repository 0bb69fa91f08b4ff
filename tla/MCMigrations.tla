----------------------------- MODULE MCMigrations -----------------------------
(***************************************************************************)
(* Instance of Migrations: two people who may take a test user's name, a   *)
(* guest, and a catalogue of two titles of which one belongs to a question *)
(* that is already there.                                                  *)
(***************************************************************************)
EXTENDS Migrations

CONSTANTS p1, t1, t2, c1, c2, own

TwoTestUsers == <<t1, t2>>
TwoTitles == <<c1, c2>>

\* A name two people may want, and one of a test user.
TwoNames == {p1, t1}
\* A new question, and one that is in the catalogue as well.
NewAndListed == {own, c1}
=============================================================================
