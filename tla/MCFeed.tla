------------------------------- MODULE MCFeed -------------------------------
(***************************************************************************)
(* An instance of Feed: items of which two were published together.        *)
(***************************************************************************)
EXTENDS Feed, TLC

Published == [i \in Items |-> i \div 2]

Row(votes, active, own) == [votes |-> votes, likes |-> 1 - votes, active |-> active, own |-> own]
AllRows == {Row(0, TRUE, TRUE), Row(1, TRUE, TRUE), Row(1, TRUE, FALSE), Row(0, FALSE, TRUE)}

FourListings ==
    {[sort |-> "popular", scope |-> "all"], [sort |-> "liked", scope |-> "liked"],
     [sort |-> "latest", scope |-> "mine"], [sort |-> "comments", scope |-> "all"]}

AllTables == [Items -> AllRows]
=============================================================================
