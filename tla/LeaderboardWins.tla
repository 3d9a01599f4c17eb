--------------------------- MODULE LeaderboardWins ---------------------------
(***************************************************************************)
(* The two ranking queries, as functions of the tables matches and         *)
(* match_players. A query joins a match with the players of its winning    *)
(* team, one row for each, groups the rows by user or by pair of users and *)
(* counts them. The order by wins and the LIMIT are not modelled: which of *)
(* two users with as many wins comes first, or is cut off, is MySQL's.     *)
(***************************************************************************)
EXTENDS Naturals, FiniteSets

CONSTANTS
  Members,       \* ids of users
  Fixtures,      \* bound: ids of matches
  NoScore,       \* score_a and score_b are NULL
  NoTime,        \* confirmed_at is NULL
  Now,           \* today, in days
  Days           \* bound: the days on which matches may have been confirmed

ASSUME WinsAssumption ==
  /\ Members \subseteq Nat /\ Now \in Nat /\ Now > 365 /\ Days \subseteq 0 .. Now
  /\ NoScore \notin Nat /\ NoTime \notin Nat /\ IsFiniteSet(Fixtures)

VARIABLES
  tables,        \* the rows of matches, each with the teams of match_players
  period,        \* the filter asked for
  users, pairs   \* the rows the two queries returned

wins == <<tables, period, users, pairs>>

Filters == {"week", "month", "year", "total"}
Span == [week |-> 7, month |-> 30, year |-> 365]
StartDate(filter) == Now - Span[filter]

WinningTeam(m) == IF m.a > m.b THEN "A" ELSE IF m.b > m.a THEN "B" ELSE "none"

\* The WHERE clause.
Since(m, filter) == filter # "total" => m.at # NoTime /\ m.at >= StartDate(filter)
CountedUnconfirmed(m, filter) ==
  m.a # NoScore /\ m.b # NoScore /\ m.a # m.b /\ Since(m, filter)
Counted(m, filter) ==
  m.status = "confirmed" /\ m.a # NoScore /\ m.b # NoScore /\ m.a # m.b /\ Since(m, filter)

\* The rows of the joins: a match, by its id, and a user, or two.
UserRows(matches, filter) ==
  {r \in (DOMAIN matches) \X Members :
     LET m == matches[r[1]] IN Counted(m, filter) /\ m.team[r[2]] = WinningTeam(m)}
PairRowsBothWays(matches, filter) ==
  {r \in (DOMAIN matches) \X Members \X Members :
     LET m == matches[r[1]] IN
     Counted(m, filter) /\ m.team[r[2]] = WinningTeam(m) /\ m.team[r[3]] = m.team[r[2]] /\ r[3] # r[2]}
PairRows(matches, filter) ==
  {r \in (DOMAIN matches) \X Members \X Members :
     LET m == matches[r[1]] IN
     Counted(m, filter) /\ m.team[r[2]] = WinningTeam(m) /\ m.team[r[3]] = m.team[r[2]] /\ r[3] > r[2]}

\* GROUP BY and COUNT(*).
UserWins(matches, filter) ==
  LET rows == UserRows(matches, filter) IN
  [u \in {r[2] : r \in rows} |-> Cardinality({r \in rows : r[2] = u})]
PairWins(matches, filter) ==
  LET rows == PairRows(matches, filter) IN
  [p \in {<<r[2], r[3]>> : r \in rows} |-> Cardinality({r \in rows : <<r[2], r[3]>> = p})]

-----------------------------------------------------------------------------
(* The queries, on every content the tables may have. *)

Result(status, score, at, team) ==
  [status |-> status, a |-> score[1], b |-> score[2], at |-> at, team |-> team]
Teams == [Members -> {"A", "B", "none"}]
Results ==
  {Result("confirmed", score, day, team) : score \in {<<1, 0>>, <<0, 1>>, <<1, 1>>}, day \in Days, team \in Teams}
    \cup {Result("playing", score, NoTime, team) : score \in {<<NoScore, NoScore>>, <<1, 0>>}, team \in Teams}

WinsInit == tables = << >> /\ period = "total" /\ users = << >> /\ pairs = << >>

\* Matches were played, and both rankings are asked for.
AskRankings ==
  /\ tables = << >>
  /\ tables' \in [Fixtures -> Results] /\ period' \in Filters
  /\ users' = UserWins(tables', period')
  /\ pairs' = PairWins(tables', period')

Answered == tables # << >> /\ UNCHANGED wins

-----------------------------------------------------------------------------
(* What the rankings should say. *)

\* u's team has the higher of the two scores of a confirmed match.
WonBy(u, m) ==
  /\ m.status = "confirmed"
  /\ \/ m.team[u] = "A" /\ m.a > m.b
     \/ m.team[u] = "B" /\ m.b > m.a
LastDays == [week |-> 7, month |-> 30, year |-> 365, total |-> Now]
\* The number of matches of the period that all of us won.
Won(us) ==
  Cardinality({id \in DOMAIN tables :
    LET m == tables[id] IN (\A u \in us : WonBy(u, m)) /\ Now - m.at <= LastDays[period]})

\* The user ranking says of each user how many confirmed matches of the period, its first
\* day included, the user's team won, and leaves out who won none: draws, open matches and
\* the other team count for nobody (leaderboard.repository.ts:47-69).
UserWinsCount ==
  \A u \in Members : Won({u}) = IF u \in DOMAIN users THEN users[u] ELSE 0

\* "Pair identity is order-independent" (docs/API.md:617): the pair ranking has each two
\* users at most once, with the number of matches they won in one team
\* (leaderboard.repository.ts:83-115).
PairWinsCount ==
  \A u, v \in Members : u # v =>
    LET listed == {p \in DOMAIN pairs : p = <<u, v>> \/ p = <<v, u>>} IN
    /\ Cardinality(listed) = IF Won({u, v}) > 0 THEN 1 ELSE 0
    /\ \A p \in listed : pairs[p] = Won({u, v})
=============================================================================
