--------------------------- MODULE MCVoteOverlaps ---------------------------
(***************************************************************************)
(* The instances of MCVotes, for VoteOverlaps.                             *)
(***************************************************************************)
EXTENDS MCVotes, VoteOverlaps
=============================================================================
