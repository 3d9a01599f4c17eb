----------------------------- MODULE Leaderboard -----------------------------
(***************************************************************************)
(* The leaderboard: its cache, and the queries behind it. What a query     *)
(* returns depends on the tables alone, so the rankings are asked for at   *)
(* the start only: the contents of the tables do not multiply the states   *)
(* of the cache.                                                           *)
(***************************************************************************)
EXTENDS LeaderboardCache, LeaderboardWins

LeaderboardInit == Init /\ WinsInit

LeaderboardNext ==
  \/ tables = << >> /\ Next /\ UNCHANGED wins
  \/ Init /\ AskRankings /\ UNCHANGED vars
  \/ Answered /\ UNCHANGED vars

LeaderboardSpec == LeaderboardInit /\ [][LeaderboardNext]_<<vars, wins>>
=============================================================================
