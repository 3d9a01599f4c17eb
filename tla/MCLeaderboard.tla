---------------------------- MODULE MCLeaderboard ----------------------------
(***************************************************************************)
(* A small instance of the leaderboard.                                    *)
(***************************************************************************)
EXTENDS Leaderboard, TLC

CONSTANTS quorum, correction, deletion, byUser, byPair, page, other

Symmetry == Permutations(Keys) \cup Permutations(Readers)
=============================================================================
