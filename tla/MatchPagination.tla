--------------------------- MODULE MatchPagination ---------------------------
(***************************************************************************)
(* GET /matches followed page by page while matches are created, deleted   *)
(* and change status: each page is one SELECT of MatchRepository.          *)
(* findPaginated, newest first, from the cursor the last page ended with.  *)
(***************************************************************************)
EXTENDS Integers, FiniteSets, Sequences

CONSTANTS
  limit,         \* ?limit=
  NoCursor,      \* the first page's
  Zones,         \* the UTC offsets the API's process may have, over a year: {0}, {1, 2}, ...
  MaxMatches,    \* bound: matches created
  MaxTime,       \* bound: milliseconds that pass
  MaxFlips,      \* bound: status changes and deletions
  MaxPages       \* bound: pages asked for

ASSUME ListAssumption ==
  /\ limit \in 1..100 /\ MaxMatches \in Nat /\ MaxTime \in Nat /\ MaxFlips \in Nat
  /\ MaxPages \in Nat
  /\ Zones \subseteq SUBSET Int
  /\ NoCursor \notin Int \X Nat

VARIABLES
  zone,          \* the offsets of the process that serves this client
  matches,       \* by id: created_at, whether it is there, whether the filters match it
  now,           \* the clock created_at is set from, in its precision
  pages,         \* the ids of each page so far
  cursor,        \* nextCursor of the last page
  hasMore,       \* pagination.hasMore of the last page
  flips,         \* bound: status changes and deletions so far
  steady         \* history: in the list ever since the first page was asked for

vars == <<zone, matches, now, pages, cursor, hasMore, flips, steady>>

Match == [at : Nat, there : BOOLEAN, hit : BOOLEAN]
Ids == DOMAIN matches
Listed(i) == matches[i].there /\ matches[i].hit

\* ORDER BY created_at DESC, id DESC: i comes before j.
Before(i, j) == matches[i].at > matches[j].at \/ (matches[i].at = matches[j].at /\ i > j)

Init ==
  /\ zone \in Zones
  /\ matches = << >> /\ now = 1
  /\ pages = << >> /\ cursor = NoCursor /\ hasMore = TRUE
  /\ flips = 0 /\ steady = {}

listing == <<pages, cursor, hasMore>>

Tick == now < MaxTime /\ now' = now + 1 /\ UNCHANGED <<zone, matches, listing, flips, steady>>

\* POST /matches. Its INSERT may have begun a moment before it shows, and before a match
\* that got the id before it.
Create(late) ==
  /\ Len(matches) < MaxMatches
  /\ \E hit \in BOOLEAN :
       matches' = Append(matches, [at |-> now - late, there |-> TRUE, hit |-> hit])
  /\ UNCHANGED <<zone, now, listing, flips, steady>>

\* A match is deleted, or its status changes under ?status=.
Flip(i) ==
  /\ flips < MaxFlips /\ flips' = flips + 1
  /\ matches[i].there
  /\ \/ matches' = [matches EXCEPT ![i].hit = ~@]
     \/ matches' = [matches EXCEPT ![i].there = FALSE]
  /\ steady' = steady \ {i}
  /\ UNCHANGED <<zone, now, listing>>

EarlierOnly(i) == cursor = NoCursor \/ matches[i].at < cursor[1]
FromCursor(i) ==
  \/ cursor = NoCursor
  \/ matches[i].at < cursor[1]
  \/ matches[i].at = cursor[1] /\ i <= cursor[2]
\* The cursor's condition of the WHERE clause.
AfterCursor(i) ==
  \/ cursor = NoCursor
  \/ matches[i].at < cursor[1]
  \/ matches[i].at = cursor[1] /\ i < cursor[2]

Newest(S, n) == {i \in S : Cardinality({j \in S : Before(j, i)}) < n}

\* The cursor made from a row. No time zone is configured: the driver takes the column for
\* the process's local time, toISOString writes it in UTC, and the next page's query
\* compares that text with the column as it stands. What comes back is the row's instant
\* less the offset the process has at that time of year.
ColumnOf(last) == {<<matches[last].at, last>>}
CursorOf(last) == {<<matches[last].at - offset, last>> : offset \in zone}

\* One page: `limit` rows, one more read to tell whether there are more, and the cursor
\* made from the last row shown.
NextPage ==
  LET rows == Newest({i \in Ids : Listed(i) /\ AfterCursor(i)}, limit + 1)
      data == Newest(rows, limit) IN
  /\ hasMore /\ Len(pages) < MaxPages
  /\ pages' = Append(pages, data)
  /\ hasMore' = (data # rows)
  /\ \/ /\ data # rows
        /\ \E last \in data : /\ \A i \in data \ {last} : Before(i, last)
                              /\ cursor' \in CursorOf(last)
     \/ data = rows /\ cursor' = NoCursor
  /\ steady' = IF pages = << >> THEN {i \in Ids : Listed(i)} ELSE steady
  /\ UNCHANGED <<zone, matches, now, flips>>

\* The list ended, or its client stopped asking.
Finished == (~hasMore \/ Len(pages) = MaxPages) /\ UNCHANGED vars

Next ==
  \/ Tick
  \/ \E late \in {0, 1} : Create(late)
  \/ \E i \in Ids : Flip(i)
  \/ NextPage
  \/ Finished

Spec == Init /\ [][Next]_vars

-----------------------------------------------------------------------------
TypeOK ==
  /\ zone \in SUBSET Int
  /\ matches \in Seq(Match) /\ now \in Nat
  /\ pages \in Seq(SUBSET Ids)
  /\ cursor \in (Int \X Nat) \cup {NoCursor}
  /\ hasMore \in BOOLEAN /\ flips \in Nat /\ steady \subseteq Ids

NeverWest == \A offset \in zone : offset >= 0
NeverEast == \A offset \in zone : offset <= 0

\* A later page has only older matches than an earlier one, and none twice, whatever was
\* created, deleted or changed in between and however many share a millisecond, unless the
\* process's zone is ever west of UTC: there a cursor lies after the rows already shown
\* (match.repository.ts:82-89, 98).
PagesDescend ==
  NeverWest => \A p, q \in DOMAIN pages : p < q =>
    \A i \in pages[p], j \in pages[q] : Before(i, j)

\* A match that was in the list all the time is on some page when the list ends, unless the
\* process's zone is ever east of UTC: there a cursor lies before rows not yet shown
\* (match.repository.ts:82-100).
NothingSkipped ==
  NeverEast /\ ~hasMore => \A i \in steady : \E p \in DOMAIN pages : i \in pages[p]
=============================================================================
