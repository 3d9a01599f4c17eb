----------------------- MODULE MatchPaginationProofs -----------------------
(***************************************************************************)
(* The match list for every limit and any number of matches, instants and  *)
(* changes, in every time zone: pages descend where the process is never   *)
(* west of UTC, and a match listed all along is on one of them where it is *)
(* never east.                                                             *)
(* A page is cut by the number of matches before a row; what the proof     *)
(* needs of that number is that the rows kept come before those cut off    *)
(* (NewestFirst), and that a page with no row cut off is the whole rest of *)
(* the list (WholeRest).                                                   *)
(***************************************************************************)
EXTENDS MatchPagination, FiniteSetTheorems, WellFoundedInduction, TLAPS

Earlier(S, i) == {j \in S : Before(j, i)}
Later(S, i) == {j \in S : Before(i, j)}

\* Newest first is a strict total order on the matches (match.repository.ts:69-70).
LEMMA BeforeOrders ==
  ASSUME TypeOK, NEW i \in Ids, NEW j \in Ids, NEW k \in Ids
  PROVE  /\ ~Before(i, i)
         /\ Before(i, j) /\ Before(j, k) => Before(i, k)
         /\ i # j => Before(i, j) \/ Before(j, i)
  <1>1. Ids \subseteq Nat /\ matches[i] \in Match /\ matches[j] \in Match /\ matches[k] \in Match
    BY DEF TypeOK, Ids
  <1> QED
    BY <1>1 DEF Before, Match

\* There are finitely many matches.
LEMMA FewMatches ==
  ASSUME TypeOK, NEW S \in SUBSET Ids
  PROVE  IsFiniteSet(S) /\ Cardinality(S) \in Nat
  <1>1. Ids = 1..Len(matches) /\ Len(matches) \in Nat
    BY DEF TypeOK, Ids
  <1>2. IsFiniteSet(Ids)
    BY <1>1, FS_Interval
  <1>3. IsFiniteSet(S)
    BY <1>2, FS_Subset
  <1> QED
    BY <1>3, FS_CardinalityType

LEMMA SmallestOf ==
  ASSUME NEW S \in SUBSET Nat, S # {}
  PROVE  \E n \in S : \A m \in S : n <= m
  <1>1. PICK n \in S : \A m \in S : ~(<<m, n>> \in OpToRel(<, Nat))
    BY NatLessThanWellFounded, WFMin
  <1>2. \A m \in S : ~(m < n)
    BY <1>1 DEF OpToRel
  <1> QED
    BY <1>2

\* A nonempty set of matches has a newest one: the one with the fewest before it.
LEMMA FirstExists ==
  ASSUME TypeOK, NEW S \in SUBSET Ids, S # {}
  PROVE  \E m \in S : \A j \in S \ {m} : Before(m, j)
  <1> DEFINE Ranks == {Cardinality(Earlier(S, i)) : i \in S}
  <1>1. \A i \in S : Earlier(S, i) \in SUBSET Ids /\ Cardinality(Earlier(S, i)) \in Nat
    BY FewMatches DEF Earlier
  <1>2. Ranks \in SUBSET Nat /\ Ranks # {}
    BY <1>1
  <1>3. PICK r \in Ranks : \A q \in Ranks : r <= q
    BY <1>2, SmallestOf
  <1>4. PICK m \in S : r = Cardinality(Earlier(S, m))
    BY <1>3
  <1>5. SUFFICES ASSUME NEW j \in S \ {m}, Before(j, m)
                 PROVE  FALSE
    BY BeforeOrders
  <1>6. Earlier(S, j) \subseteq Earlier(S, m)
    BY <1>5, BeforeOrders DEF Earlier
  <1>7. j \in Earlier(S, m) /\ j \notin Earlier(S, j)
    BY <1>5, BeforeOrders DEF Earlier
  <1>8. IsFiniteSet(Earlier(S, m))
    BY <1>1, FewMatches
  <1>9. Cardinality(Earlier(S, j)) < Cardinality(Earlier(S, m))
    BY <1>1, <1>6, <1>7, <1>8, FS_Subset
  <1>10. Cardinality(Earlier(S, m)) <= Cardinality(Earlier(S, j))
    BY <1>3, <1>4
  <1> QED
    BY <1>1, <1>9, <1>10

\* And an oldest one: the one with the fewest after it.
LEMMA LastExists ==
  ASSUME TypeOK, NEW S \in SUBSET Ids, S # {}
  PROVE  \E m \in S : \A j \in S \ {m} : Before(j, m)
  <1> DEFINE Ranks == {Cardinality(Later(S, i)) : i \in S}
  <1>1. \A i \in S : Later(S, i) \in SUBSET Ids /\ Cardinality(Later(S, i)) \in Nat
    BY FewMatches DEF Later
  <1>2. Ranks \in SUBSET Nat /\ Ranks # {}
    BY <1>1
  <1>3. PICK r \in Ranks : \A q \in Ranks : r <= q
    BY <1>2, SmallestOf
  <1>4. PICK m \in S : r = Cardinality(Later(S, m))
    BY <1>3
  <1>5. SUFFICES ASSUME NEW j \in S \ {m}, Before(m, j)
                 PROVE  FALSE
    BY BeforeOrders
  <1>6. Later(S, j) \subseteq Later(S, m)
    BY <1>5, BeforeOrders DEF Later
  <1>7. j \in Later(S, m) /\ j \notin Later(S, j)
    BY <1>5, BeforeOrders DEF Later
  <1>8. IsFiniteSet(Later(S, m))
    BY <1>1, FewMatches
  <1>9. Cardinality(Later(S, j)) < Cardinality(Later(S, m))
    BY <1>1, <1>6, <1>7, <1>8, FS_Subset
  <1>10. Cardinality(Later(S, m)) <= Cardinality(Later(S, j))
    BY <1>3, <1>4
  <1> QED
    BY <1>1, <1>9, <1>10

\* LIMIT n keeps rows that come before every row it cuts off.
LEMMA NewestFirst ==
  ASSUME TypeOK, NEW S \in SUBSET Ids, NEW n \in Nat,
         NEW i \in S \ Newest(S, n), NEW j \in Newest(S, n)
  PROVE  Before(j, i)
  <1>1. SUFFICES ASSUME Before(i, j)
                 PROVE  FALSE
    BY BeforeOrders DEF Newest
  <1>2. j \in S /\ Cardinality(Earlier(S, j)) < n /\ ~(Cardinality(Earlier(S, i)) < n)
    BY DEF Newest, Earlier
  <1>3. Earlier(S, i) \subseteq Earlier(S, j)
    BY <1>1, <1>2, BeforeOrders DEF Earlier
  <1>4. Earlier(S, i) \in SUBSET Ids /\ Earlier(S, j) \in SUBSET Ids
    BY DEF Earlier
  <1>5. /\ IsFiniteSet(Earlier(S, j)) /\ Cardinality(Earlier(S, j)) \in Nat
        /\ Cardinality(Earlier(S, i)) \in Nat
    BY <1>4, FewMatches
  <1>6. Cardinality(Earlier(S, i)) <= Cardinality(Earlier(S, j))
    BY <1>3, <1>5, FS_Subset
  <1> QED
    BY <1>2, <1>5, <1>6

\* When the read of one row more than the limit finds none, nothing is left
\* (match.repository.ts:91-93).
LEMMA WholeRest ==
  ASSUME TypeOK, NEW S \in SUBSET Ids, NEW n \in Nat,
         Newest(Newest(S, n + 1), n) = Newest(S, n + 1)
  PROVE  Newest(S, n + 1) = S
  <1> DEFINE rows == Newest(S, n + 1)
  <1>1. rows \subseteq S
    BY DEF Newest
  <1>2. SUFFICES ASSUME S \ rows # {}
                 PROVE  FALSE
    BY <1>1
  <1>3. PICK m \in S \ rows : \A j \in (S \ rows) \ {m} : Before(m, j)
    BY <1>2, FirstExists
  <1> DEFINE P == Earlier(S, m)
  <1>4. P \in SUBSET Ids /\ IsFiniteSet(P) /\ Cardinality(P) \in Nat
    <2>1. P \in SUBSET Ids
      BY DEF Earlier
    <2> QED
      BY <2>1, FewMatches
  <1>5. P \subseteq rows
    <2> SUFFICES ASSUME NEW j \in S, Before(j, m), j \notin rows
                 PROVE  FALSE
      BY DEF Earlier
    <2>1. j # m
      BY BeforeOrders
    <2>2. Before(m, j)
      BY <1>3, <2>1
    <2> QED
      BY <2>2, BeforeOrders
  <1>6. Cardinality(P) >= n + 1
    BY <1>3, <1>4 DEF Newest, Earlier
  <1>7. P # {}
    BY <1>6, FS_EmptySet
  <1>8. PICK p \in P : \A j \in P \ {p} : Before(j, p)
    BY <1>4, <1>7, LastExists
  <1> DEFINE Q == Earlier(rows, p)
  <1>9. P \ {p} \subseteq Q
    BY <1>5, <1>8 DEF Earlier
  <1>10. Q \in SUBSET Ids /\ IsFiniteSet(Q) /\ Cardinality(Q) \in Nat
    <2>1. Q \in SUBSET Ids
      BY <1>1 DEF Earlier
    <2> QED
      BY <2>1, FewMatches
  <1>11. Cardinality(P \ {p}) = Cardinality(P) - 1
    BY <1>4, FS_RemoveElement
  <1>12. Cardinality(P \ {p}) <= Cardinality(Q)
    BY <1>9, <1>10, FS_Subset
  <1>13. ~(Cardinality(Q) < n)
    BY <1>4, <1>6, <1>10, <1>11, <1>12
  <1>14. p \in rows /\ p \in Newest(rows, n)
    BY <1>5, <1>8
  <1>15. Cardinality(Q) < n
    BY <1>14 DEF Newest, Earlier
  <1> QED
    BY <1>13, <1>15

-----------------------------------------------------------------------------
Shown(i) == \E p \in DOMAIN pages : i \in pages[p]

\* Why no match is lost or repeated: in a zone never west of UTC the cursor leaves behind
\* every match shown; in one never east it has every steady match not yet shown before it.
ListInv ==
  /\ TypeOK /\ now # 0
  /\ steady \subseteq {i \in Ids : Listed(i)}
  /\ pages = << >> => steady = {} /\ cursor = NoCursor /\ hasMore
  /\ hasMore /\ pages # << >> => cursor # NoCursor
  /\ NeverWest /\ cursor # NoCursor => \A i \in Ids : Shown(i) => ~AfterCursor(i)
  /\ NeverEast /\ hasMore => \A i \in steady : AfterCursor(i) \/ Shown(i)
  /\ PagesDescend
  /\ NothingSkipped

LEMMA ListInit == Init => ListInv
  BY ListAssumption DEF Init, ListInv, TypeOK, PagesDescend, NothingSkipped, Ids, Listed

LEMMA TickKeeps == ListInv /\ Tick => ListInv'
  BY DEF ListInv, Tick, listing, TypeOK, PagesDescend, NothingSkipped, Ids, Listed, Before,
         AfterCursor, Shown, NeverWest, NeverEast

LEMMA CreateKeeps ==
  ASSUME ListInv, NEW late \in {0, 1}, Create(late)
  PROVE  ListInv'
  <1>1. PICK hit \in BOOLEAN :
          matches' = Append(matches, [at |-> now - late, there |-> TRUE, hit |-> hit])
    BY DEF Create
  <1>2. [at |-> now - late, there |-> TRUE, hit |-> hit] \in Match
    BY DEF ListInv, TypeOK, Match
  <1>3. matches' \in Seq(Match) /\ Ids \subseteq Ids' /\ \A i \in Ids : matches'[i] = matches[i]
    BY <1>1, <1>2 DEF ListInv, TypeOK, Ids
  <1>4. UNCHANGED <<zone, now, pages, cursor, hasMore, flips, steady>>
    BY DEF Create, listing
  <1>5. \A p \in DOMAIN pages : pages[p] \subseteq Ids
    BY DEF ListInv, TypeOK
  <1>6. \A i \in Ids' : Shown(i)' => i \in Ids /\ Shown(i)
    BY <1>4, <1>5 DEF Shown
  <1>7. TypeOK'
    BY <1>3, <1>4, <1>5 DEF ListInv, TypeOK
  <1>8. (steady \subseteq {i \in Ids : Listed(i)})'
    BY <1>3, <1>4 DEF ListInv, Listed
  <1>9. PagesDescend'
    BY <1>3, <1>4, <1>5 DEF ListInv, PagesDescend, Before, NeverWest
  <1>10. (NeverWest /\ cursor # NoCursor => \A i \in Ids : Shown(i) => ~AfterCursor(i))'
    BY <1>3, <1>4, <1>6 DEF ListInv, AfterCursor, NeverWest
  <1>11. (NeverEast /\ hasMore => \A i \in steady : AfterCursor(i) \/ Shown(i))'
    BY <1>3, <1>4 DEF ListInv, AfterCursor, Shown, NeverEast
  <1> QED
    BY <1>4, <1>7, <1>8, <1>9, <1>10, <1>11 DEF ListInv, NothingSkipped, NeverEast

LEMMA FlipKeeps ==
  ASSUME ListInv, NEW i \in Ids, Flip(i)
  PROVE  ListInv'
  <1>1. /\ matches' \in Seq(Match) /\ Ids' = Ids
        /\ \A j \in Ids : matches'[j].at = matches[j].at
        /\ \A j \in Ids \ {i} : matches'[j] = matches[j]
    <2> DEFINE m == matches[i]
    <2>1. m \in Match /\ Ids = 1..Len(matches)
      BY DEF ListInv, TypeOK, Ids
    <2>2. \/ matches' = [matches EXCEPT ![i] = [m EXCEPT !.hit = ~m.hit]]
          \/ matches' = [matches EXCEPT ![i] = [m EXCEPT !.there = FALSE]]
      BY DEF Flip
    <2>3. /\ [m EXCEPT !.hit = ~m.hit] \in Match /\ [m EXCEPT !.hit = ~m.hit].at = m.at
          /\ [m EXCEPT !.there = FALSE] \in Match /\ [m EXCEPT !.there = FALSE].at = m.at
      BY <2>1 DEF Match
    <2>4. PICK n \in Match : n.at = m.at /\ matches' = [matches EXCEPT ![i] = n]
      BY <2>2, <2>3
    <2>5. matches \in Seq(Match)
      BY DEF ListInv, TypeOK
    <2> HIDE DEF m
    <2> QED
      BY <2>4, <2>5 DEF Ids, m
  <1>2. steady' = steady \ {i} /\ flips' \in Nat /\ UNCHANGED <<zone, now, pages, cursor, hasMore>>
    BY DEF Flip, listing, ListInv, TypeOK
  <1>3. \A p \in DOMAIN pages : pages[p] \subseteq Ids
    BY DEF ListInv, TypeOK
  <1>4. TypeOK'
    BY <1>1, <1>2, <1>3 DEF ListInv, TypeOK
  <1>5. (steady \subseteq {j \in Ids : Listed(j)})'
    BY <1>1, <1>2 DEF ListInv, Listed
  <1>6. PagesDescend'
    BY <1>1, <1>2, <1>3 DEF ListInv, PagesDescend, Before, NeverWest
  <1>7. (NeverWest /\ cursor # NoCursor => \A j \in Ids : Shown(j) => ~AfterCursor(j))'
    BY <1>1, <1>2 DEF ListInv, AfterCursor, Shown, NeverWest
  <1>8. (NeverEast /\ hasMore => \A j \in steady : AfterCursor(j) \/ Shown(j))'
    BY <1>1, <1>2, <1>5 DEF ListInv, AfterCursor, Shown, NeverEast
  <1> QED
    BY <1>2, <1>4, <1>5, <1>6, <1>7, <1>8 DEF ListInv, NothingSkipped, NeverEast

LEMMA NextPageKeeps ==
  ASSUME ListInv, NextPage
  PROVE  ListInv'
  <1> DEFINE L == {i \in Ids : Listed(i) /\ AfterCursor(i)}
             rows == Newest(L, limit + 1)
             data == Newest(rows, limit)
  <1>1. /\ hasMore /\ pages' = Append(pages, data) /\ hasMore' = (data # rows)
        /\ steady' = IF pages = << >> THEN {i \in Ids : Listed(i)} ELSE steady
        /\ UNCHANGED <<zone, matches, now, flips>>
    BY DEF NextPage
  <1>2. TypeOK /\ limit \in Nat /\ limit + 1 \in Nat
    BY ListAssumption DEF ListInv
  <1>3. L \in SUBSET Ids /\ rows \subseteq L /\ data \subseteq rows
    BY DEF Newest
  <1>4. data # rows =>
          \E last \in data : /\ \A i \in data \ {last} : Before(i, last)
                             /\ \E offset \in zone : cursor' = <<matches[last].at - offset, last>>
    BY DEF NextPage, CursorOf
  <1>5. data = rows => cursor' = NoCursor
    BY DEF NextPage
  <1>6. data = rows => data = L
    BY <1>2, <1>3, WholeRest
  <1>7. /\ pages' # << >> /\ DOMAIN pages' = DOMAIN pages \cup {Len(pages) + 1}
        /\ DOMAIN pages = 1..Len(pages) /\ Len(pages) \in Nat
        /\ \A p \in DOMAIN pages : pages'[p] = pages[p]
        /\ pages'[Len(pages) + 1] = data
    BY <1>1, <1>2 DEF TypeOK
  <1>8. Ids \subseteq Nat /\ \A i \in Ids : matches[i] \in Match
    BY <1>2 DEF TypeOK, Ids
  <1>9. \A i \in Ids : Shown(i)' <=> Shown(i) \/ i \in data
    BY <1>7 DEF Shown
  <1>10. TypeOK'
    <2>1. pages' \in Seq(SUBSET Ids)
      BY <1>1, <1>2, <1>3 DEF TypeOK
    <2>2. cursor' \in (Int \X Nat) \cup {NoCursor}
      <3>1. CASE data = rows
        BY <1>5, <3>1
      <3>2. CASE data # rows
        <4>1. PICK last \in data, offset \in zone : cursor' = <<matches[last].at - offset, last>>
          BY <1>4, <3>2
        <4>2. last \in Nat /\ matches[last].at \in Nat /\ offset \in Int
          BY <1>2, <1>3, <1>8 DEF Match, TypeOK
        <4>3. matches[last].at - offset \in Int
          BY <4>2
        <4> QED
          BY <4>1, <4>2, <4>3
      <3> QED
        BY <3>1, <3>2
    <2>3. steady' \subseteq Ids /\ hasMore' \in BOOLEAN
      BY <1>1, <1>2 DEF TypeOK
    <2> QED
      BY <1>1, <1>2, <2>1, <2>2, <2>3 DEF TypeOK, Ids
  <1>11. (steady \subseteq {i \in Ids : Listed(i)})'
    BY <1>1 DEF ListInv, Ids, Listed
  <1>12. (hasMore /\ pages # << >> => cursor # NoCursor)'
    <2> SUFFICES ASSUME data # rows
                 PROVE  cursor' # NoCursor
      BY <1>1
    <2>1. PICK last \in data, offset \in zone : cursor' = <<matches[last].at - offset, last>>
      BY <1>4
    <2>2. last \in Nat /\ matches[last].at \in Nat /\ offset \in Int
      BY <1>2, <1>3, <1>8 DEF Match, TypeOK
    <2>3. matches[last].at - offset \in Int
      BY <2>2
    <2> QED
      BY <2>1, <2>2, <2>3, ListAssumption
  <1>13. NeverWest => \A i \in Ids, j \in data : Shown(i) => Before(i, j)
    <2> SUFFICES ASSUME NeverWest, NEW i \in Ids, NEW j \in data, Shown(i)
                 PROVE  Before(i, j)
      OBVIOUS
    <2>1. cursor # NoCursor /\ ~AfterCursor(i) /\ AfterCursor(j)
      BY <1>1, <1>3 DEF ListInv, Shown
    <2>2. j \in Ids /\ cursor \in Int \X Nat
      BY <1>2, <1>3, <2>1 DEF TypeOK
    <2>3. /\ cursor[1] \in Int /\ cursor[2] \in Nat /\ i \in Nat /\ j \in Nat
          /\ matches[i].at \in Nat /\ matches[j].at \in Nat
      BY <1>8, <2>2 DEF Match
    <2> QED
      BY <2>1, <2>3 DEF AfterCursor, Before
  <1>14. PagesDescend'
    <2>0. \A i, j : Before(i, j)' <=> Before(i, j)
      BY <1>1 DEF Before
    <2> SUFFICES ASSUME NeverWest, NEW p \in DOMAIN pages', NEW q \in DOMAIN pages', p < q,
                        NEW i \in pages'[p], NEW j \in pages'[q]
                 PROVE  Before(i, j)
      BY <1>1, <2>0 DEF PagesDescend, NeverWest
    <2>1. p \in DOMAIN pages /\ i \in pages[p] /\ i \in Ids
      BY <1>2, <1>7 DEF TypeOK
    <2>2. CASE q \in DOMAIN pages
      BY <1>7, <2>1, <2>2 DEF ListInv, PagesDescend
    <2>3. CASE q = Len(pages) + 1
      BY <1>7, <1>13, <2>1, <2>3 DEF Shown
    <2> QED
      BY <1>7, <2>2, <2>3
  <1>15. NeverEast => \A i \in L : data # rows /\ i \notin data => AfterCursor(i)'
    <2> SUFFICES ASSUME NeverEast, NEW i \in L, data # rows, i \notin data
                 PROVE  AfterCursor(i)'
      OBVIOUS
    <2>1. PICK last \in data, offset \in zone : cursor' = <<matches[last].at - offset, last>>
      BY <1>4
    <2>2. Before(last, i)
      <3>1. CASE i \in rows
        BY <1>2, <1>3, <3>1, NewestFirst
      <3>2. CASE i \notin rows
        BY <1>2, <1>3, <3>2, NewestFirst
      <3> QED
        BY <3>1, <3>2
    <2>3. /\ last \in Nat /\ i \in Nat /\ matches[last].at \in Nat /\ matches[i].at \in Nat
          /\ offset \in Int /\ offset <= 0
      BY <1>2, <1>3, <1>8 DEF Match, TypeOK, NeverEast
    <2>4. cursor'[1] = matches[last].at - offset /\ cursor'[2] = last
      BY <2>1
    <2> QED
      BY <1>1, <2>2, <2>3, <2>4 DEF AfterCursor, Before
  <1>16. (NeverWest /\ cursor # NoCursor => \A i \in Ids : Shown(i) => ~AfterCursor(i))'
    <2> SUFFICES ASSUME NeverWest, cursor' # NoCursor, NEW i \in Ids, Shown(i)'
                 PROVE  ~AfterCursor(i)'
      BY <1>1 DEF Ids, NeverWest
    <2>1. PICK last \in data, offset \in zone :
            /\ \A j \in data \ {last} : Before(j, last)
            /\ cursor' = <<matches[last].at - offset, last>>
      BY <1>4, <1>5
    <2>2. i = last \/ Before(i, last)
      BY <1>9, <1>13, <2>1
    <2>3. cursor'[1] = matches[last].at - offset /\ cursor'[2] = last
      BY <2>1
    <2>4. /\ last \in Ids /\ last \in Nat /\ i \in Nat
          /\ matches[last].at \in Nat /\ matches[i].at \in Nat
          /\ offset \in Int /\ offset >= 0
      BY <1>2, <1>3, <1>8 DEF Match, TypeOK, NeverWest
    <2>5. ~Before(last, i)
      BY <2>2, <2>4 DEF Before
    <2> QED
      BY <1>1, <2>3, <2>4, <2>5 DEF AfterCursor, Before
  <1>17. NeverEast => \A i \in steady' : i \in L \/ Shown(i)
    <2>1. CASE pages = << >>
      BY <1>1, <2>1 DEF ListInv, AfterCursor
    <2>2. CASE pages # << >>
      BY <1>1, <2>2 DEF ListInv
    <2> QED
      BY <2>1, <2>2
  <1>18. steady' \subseteq Ids
    BY <1>1, <1>2 DEF TypeOK
  <1>19. (NeverEast /\ hasMore => \A i \in steady : AfterCursor(i) \/ Shown(i))'
    BY <1>1, <1>9, <1>15, <1>17, <1>18 DEF NeverEast
  <1>20. NothingSkipped'
    BY <1>1, <1>6, <1>9, <1>17, <1>18 DEF NothingSkipped, Shown, NeverEast
  <1> QED
    BY <1>1, <1>7, <1>10, <1>11, <1>12, <1>14, <1>16, <1>19, <1>20 DEF ListInv

LEMMA ListStep == ListInv /\ [Next]_vars => ListInv'
  <1> SUFFICES ASSUME ListInv, [Next]_vars
               PROVE  ListInv'
    OBVIOUS
  <1>1. CASE Tick
    BY <1>1, TickKeeps
  <1>2. ASSUME NEW late \in {0, 1}, Create(late)
        PROVE  ListInv'
    BY <1>2, CreateKeeps
  <1>3. ASSUME NEW i \in Ids, Flip(i)
        PROVE  ListInv'
    BY <1>3, FlipKeeps
  <1>4. CASE NextPage
    BY <1>4, NextPageKeeps
  <1>5. CASE UNCHANGED vars
    BY <1>5 DEF vars, ListInv, TypeOK, PagesDescend, NothingSkipped, Ids, Listed, Before,
                AfterCursor, Shown, NeverWest, NeverEast
  <1> QED
    BY <1>1, <1>2, <1>3, <1>4, <1>5 DEF Next, Finished

THEOREM ListInvariance == Spec => []ListInv
  BY ListInit, ListStep, PTL DEF Spec

\* Matches, pages and cursor keep their types: the cursor is always made from a listed row.
THEOREM ListTypeCorrect == Spec => []TypeOK
  <1>1. ListInv => TypeOK
    BY DEF ListInv
  <1> QED
    BY <1>1, ListInvariance, PTL

\* Pages descend and none repeats a match, for every limit and number of matches that share
\* a millisecond, in a process whose zone is never west of UTC (match.repository.ts:82-98).
THEOREM Descending == Spec => []PagesDescend
  <1>1. ListInv => PagesDescend
    BY DEF ListInv
  <1> QED
    BY <1>1, ListInvariance, PTL

\* The list is complete for the matches that stay in it, in a process whose zone is never
\* east of UTC (match.repository.ts:82-100).
THEOREM Complete == Spec => []NothingSkipped
  <1>1. ListInv => NothingSkipped
    BY DEF ListInv
  <1> QED
    BY <1>1, ListInvariance, PTL
=============================================================================
