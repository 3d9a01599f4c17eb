-------------------------- MODULE LeaderboardProofs --------------------------
(***************************************************************************)
(* What a sweep of the leaderboard cache achieves, for any number of       *)
(* changes, keys and readers; and what the rankings count, for any         *)
(* contents of the tables.                                                 *)
(***************************************************************************)
EXTENDS Leaderboard, JobQueueProofs, FiniteSetTheorems

\* A ranking without the change, and the change was swept for.
Outdated(version, j) == sweep[j] /\ version < commitOf[j]

\* A reader that is about to store such a ranking had it in its hands during a sweep.
HeldAcross(c) ==
  pc[c] = "set" => \A j \in Changes : Outdated(mem[c].version, j) => mem[c].crossed

\* Nothing was committed that is not in MySQL.
CommittedStands == \A j \in Changes : commitOf[j] <= standing

CInv ==
  /\ QueueInv /\ TypeOK
  /\ CommittedStands /\ OnlyCrossedFillsAreStale
  /\ \A c \in Readers : HeldAcross(c)

LEMMA Starts == Init => CInv
  <1> SUFFICES ASSUME Init PROVE CInv
    OBVIOUS
  <1>1. QueueInv
    BY QueueStarts DEF Init
  <1>2. TypeOK
    BY <1>1 DEF Init, TypeOK, QueueInv, Locals, Asked
  <1> QED BY <1>1, <1>2
       DEF Init, CInv, CommittedStands, OnlyCrossedFillsAreStale, HeldAcross

LEMMA QueueKept ==
  ASSUME CInv, (\E j \in Jobs : QueueStep(j)) \/ UNCHANGED jobs
  PROVE  QueueInv' /\ QueueTypeOK'
  <1>1. CASE \E j \in Jobs : QueueStep(j)
    BY <1>1, QueueSteps DEF CInv, QueueInv
  <1>2. CASE UNCHANGED jobs
    BY <1>2 DEF CInv, QueueInv, QueueTypeOK
  <1> QED BY <1>1, <1>2

LEMMA ReaderTyped ==
  ASSUME CInv, NEW c \in Readers
  PROVE  /\ mem[c] \in Locals /\ mem[c].key \in Keys \cup {NoEntry}
         /\ mem[c].version \in Nat /\ mem[c].crossed \in BOOLEAN
  BY DEF CInv, TypeOK, Locals

\* A step of the queue alone, and of the changes' announcements.
LEMMA QueueAndChange ==
  ASSUME CInv, (\E j \in Jobs : QueueStep(j)) \/ UNCHANGED jobs,
         change' \in [Changes -> {"idle", "committed", "announced", "done"}],
         UNCHANGED <<standing, cache, readers, commitOf, sweep>>
  PROVE  CInv'
  <1>1. QueueInv' /\ QueueTypeOK'
    BY QueueKept
  <1> QED BY <1>1 DEF CInv, TypeOK, readers, CommittedStands, OnlyCrossedFillsAreStale,
                      HeldAcross, Outdated

\* A change is committed: what is in Redis lacks it, and no sweep served it yet.
LEMMA CommitSteps ==
  ASSUME CInv, NEW j \in Changes, CommitChange(j),
         change' \in [Changes -> {"idle", "committed", "announced", "done"}],
         UNCHANGED <<jobs, cache, readers>>
  PROVE  CInv'
  <1>1. QueueInv' /\ QueueTypeOK'
    BY QueueKept
  <1>2. standing \in Nat /\ commitOf \in [Changes -> Nat] /\ sweep \in [Changes -> BOOLEAN]
    BY DEF CInv, TypeOK
  <1>3. /\ standing' = standing + 1
        /\ commitOf' = [commitOf EXCEPT ![j] = standing + 1]
        /\ sweep' = [sweep EXCEPT ![j] = FALSE]
    BY DEF CommitChange
  <1>4. TypeOK'
    BY <1>1, <1>2, <1>3 DEF CInv, TypeOK, readers
  <1>5. CommittedStands'
    BY <1>2, <1>3 DEF CInv, CommittedStands
  <1>6. \A i \in Changes : sweep'[i] => sweep[i] /\ commitOf'[i] = commitOf[i]
    BY <1>2, <1>3
  <1>7. OnlyCrossedFillsAreStale'
    BY <1>6 DEF CInv, OnlyCrossedFillsAreStale
  <1>8. \A c \in Readers : HeldAcross(c)'
    BY <1>6 DEF CInv, HeldAcross, Outdated, readers
  <1> QED BY <1>1, <1>4, <1>5, <1>7, <1>8 DEF CInv

LEMMA ChangeSteps ==
  ASSUME CInv, NEW j \in Changes,
         \/ CommitQuorum(j) \/ AnnounceQuorum(j) \/ LoseQuorum(j)
         \/ AnnounceCorrection(j) \/ CommitCorrection(j) \/ RollbackCorrection(j)
         \/ DeleteConfirmed(j)
  PROVE  CInv'
  <1>1. change' \in [Changes -> {"idle", "committed", "announced", "done"}]
    BY DEF CInv, TypeOK, CommitQuorum, AnnounceQuorum, LoseQuorum, AnnounceCorrection,
           CommitCorrection, RollbackCorrection, DeleteConfirmed
  <1>2. CASE CommitQuorum(j) \/ CommitCorrection(j) \/ DeleteConfirmed(j)
    BY <1>1, <1>2, CommitSteps DEF CommitQuorum, CommitCorrection, DeleteConfirmed
  <1>3. CASE AnnounceQuorum(j) \/ AnnounceCorrection(j)
    <2>1. j \in Jobs /\ QueueStep(j)
      BY <1>3, LeaderboardAssumption DEF AnnounceQuorum, AnnounceCorrection, QueueStep
    <2> QED BY <1>1, <1>3, <2>1, QueueAndChange DEF AnnounceQuorum, AnnounceCorrection
  <1>4. CASE LoseQuorum(j) \/ RollbackCorrection(j)
    BY <1>1, <1>4, QueueAndChange DEF LoseQuorum, RollbackCorrection
  <1> QED BY <1>2, <1>3, <1>4

\* DEL: nothing is left in Redis, and who is about to store something is marked.
LEMMA SweepStep == ASSUME CInv, NEW j \in Jobs, SweepCache(j) PROVE CInv'
  <1>1. QueueInv' /\ QueueTypeOK'
    BY QueueKept DEF SweepCache, QueueStep
  <1>2. cache' = [k \in Keys |-> NoEntry]
    BY DEF SweepCache, Swept
  <1>3. mem' = [c \in Readers |-> [mem[c] EXCEPT !.crossed = (pc[c] = "set")]] /\ pc' = pc
    BY DEF SweepCache
  <1>4. mem' \in [Readers -> Locals]
    <2> SUFFICES ASSUME NEW c \in Readers
                 PROVE  [mem[c] EXCEPT !.crossed = (pc[c] = "set")] \in Locals
      BY <1>3
    <2>1. (pc[c] = "set") \in BOOLEAN
      OBVIOUS
    <2> QED BY <2>1, ReaderTyped DEF Locals
  <1>5. TypeOK'
    BY <1>1, <1>2, <1>4 DEF SweepCache, CInv, TypeOK
  <1>6. \A c \in Readers : pc'[c] = "set" => mem'[c].crossed
    BY <1>3, ReaderTyped DEF Locals
  <1> QED BY <1>1, <1>2, <1>5, <1>6
       DEF SweepCache, CInv, CommittedStands, OnlyCrossedFillsAreStale, HeldAcross

LEMMA ReadStep ==
  ASSUME CInv, NEW c \in Readers, NEW k \in Keys, Read(c, k) PROVE CInv'
  <1>1. QueueInv' /\ QueueTypeOK'
    BY QueueKept DEF Read, rest
  <1>2. PICK label \in {"idle", "query"}, key \in Keys \cup {NoEntry} :
          pc' = [pc EXCEPT ![c] = label] /\ mem' = [mem EXCEPT ![c] = Asked(key)]
    BY DEF Read, Reply, Goto
  <1>3. Asked(key) \in Locals
    BY DEF Asked, Locals
  <1>4. TypeOK'
    BY <1>1, <1>2, <1>3 DEF Read, rest, CInv, TypeOK
  <1>5. \A d \in Readers : HeldAcross(d)'
    <2> TAKE d \in Readers
    <2>1. CASE d = c
      BY <1>2, <2>1 DEF CInv, TypeOK, HeldAcross
    <2>2. CASE d # c
      BY <1>2, <2>2 DEF CInv, TypeOK, HeldAcross, Outdated, Read, rest
    <2> QED BY <2>1, <2>2
  <1> QED BY <1>1, <1>4, <1>5
       DEF Read, rest, CInv, CommittedStands, OnlyCrossedFillsAreStale

\* What the query returns has every change committed by then.
LEMMA QueryStep == ASSUME CInv, NEW c \in Readers, Query(c) PROVE CInv'
  <1>1. QueueInv' /\ QueueTypeOK'
    BY QueueKept DEF Query, rest
  <1>2. pc' = [pc EXCEPT ![c] = "set"] /\ mem' = [mem EXCEPT ![c] = [mem[c] EXCEPT !.version = standing]]
    BY DEF Query, Goto
  <1>3. [mem[c] EXCEPT !.version = standing] \in Locals /\ standing \in Nat
    BY ReaderTyped DEF CInv, TypeOK, Locals
  <1>4. TypeOK'
    BY <1>1, <1>2, <1>3 DEF Query, rest, CInv, TypeOK
  <1>5. \A d \in Readers : HeldAcross(d)'
    <2> TAKE d \in Readers
    <2>1. CASE d = c
      <3>1. mem'[c].version = standing
        BY <1>2, ReaderTyped DEF CInv, TypeOK, Locals
      <3>2. \A j \in Changes : ~(standing < commitOf[j])
        BY <1>3 DEF CInv, TypeOK, CommittedStands
      <3> QED BY <2>1, <3>1, <3>2 DEF Query, rest, HeldAcross, Outdated
    <2>2. CASE d # c
      BY <1>2, <2>2 DEF CInv, TypeOK, HeldAcross, Outdated, Query, rest
    <2> QED BY <2>1, <2>2
  <1> QED BY <1>1, <1>4, <1>5
       DEF Query, rest, CInv, CommittedStands, OnlyCrossedFillsAreStale

LEMMA FillStep == ASSUME CInv, NEW c \in Readers, Fill(c) PROVE CInv'
  <1>1. QueueInv' /\ QueueTypeOK'
    BY QueueKept DEF Fill, rest
  <1>2. pc' = [pc EXCEPT ![c] = "idle"] /\ mem' = [mem EXCEPT ![c] = Asked(NoEntry)]
    BY DEF Fill, Reply, Goto
  <1>3. Asked(NoEntry) \in Locals /\ Entry(mem[c]) \in Entries
    BY ReaderTyped DEF Asked, Locals, Entry, Entries
  <1>4. cache' = [cache EXCEPT ![mem[c].key] = Entry(mem[c])] \/ cache' = cache
    BY DEF Fill
  <1>5. TypeOK'
    BY <1>1, <1>2, <1>3, <1>4 DEF Fill, rest, CInv, TypeOK
  <1>6. OnlyCrossedFillsAreStale'
    <2> SUFFICES ASSUME NEW j \in Changes, NEW k \in Keys,
                        sweep[j], cache'[k] # NoEntry, cache'[k].version < commitOf[j]
                 PROVE  cache'[k].crossed
      BY DEF OnlyCrossedFillsAreStale, Fill, rest
    <2>1. CASE cache'[k] = cache[k]
      BY <2>1 DEF CInv, OnlyCrossedFillsAreStale
    <2>2. CASE cache'[k] # cache[k]
      <3>1. cache'[k] = Entry(mem[c])
        BY <1>4, <2>2 DEF CInv, TypeOK
      <3>2. Outdated(mem[c].version, j) /\ pc[c] = "set"
        BY <3>1 DEF Entry, Outdated, Fill
      <3> QED BY <3>1, <3>2 DEF CInv, HeldAcross, Entry
    <2> QED BY <2>1, <2>2
  <1>7. \A d \in Readers : HeldAcross(d)'
    <2> TAKE d \in Readers
    <2>1. CASE d = c
      BY <1>2, <2>1 DEF CInv, TypeOK, HeldAcross
    <2>2. CASE d # c
      BY <1>2, <2>2 DEF CInv, TypeOK, HeldAcross, Outdated, Fill, rest
    <2> QED BY <2>1, <2>2
  <1> QED BY <1>1, <1>5, <1>6, <1>7 DEF Fill, rest, CInv, CommittedStands

LEMMA ExpireStep == ASSUME CInv, NEW k \in Keys, Expire(k) PROVE CInv'
  <1>1. QueueInv' /\ QueueTypeOK'
    BY QueueKept DEF Expire, rest
  <1>2. cache' = [cache EXCEPT ![k] = NoEntry]
    BY DEF Expire
  <1>3. TypeOK'
    BY <1>1, <1>2 DEF Expire, rest, readers, CInv, TypeOK
  <1>4. OnlyCrossedFillsAreStale'
    BY <1>2 DEF Expire, rest, CInv, TypeOK, OnlyCrossedFillsAreStale
  <1> QED BY <1>1, <1>3, <1>4
       DEF Expire, rest, readers, CInv, CommittedStands, HeldAcross, Outdated

-----------------------------------------------------------------------------
THEOREM CacheInvariance == Spec => []CInv
  <1>1. CInv /\ [Next]_vars => CInv'
    <2> SUFFICES ASSUME CInv, [Next]_vars PROVE CInv'
      OBVIOUS
    <2>1. CASE \E j \in Changes :
                 \/ CommitQuorum(j) \/ AnnounceQuorum(j) \/ LoseQuorum(j)
                 \/ AnnounceCorrection(j) \/ CommitCorrection(j) \/ RollbackCorrection(j)
                 \/ DeleteConfirmed(j)
      BY <2>1, ChangeSteps
    <2>2. CASE \E j \in Jobs : SweepCache(j)
      BY <2>2, SweepStep
    <2>3. ASSUME NEW j \in Jobs, TakeSweep(j) \/ FinishSweep(j) \/ BreakSweep(j) \/ RetrySweep(j)
          PROVE  CInv'
      <3>1. QueueStep(j)
        BY <2>3 DEF TakeSweep, FinishSweep, BreakSweep, RetrySweep, QueueStep
      <3> QED BY <2>3, <3>1, QueueAndChange
           DEF TakeSweep, FinishSweep, BreakSweep, RetrySweep, CInv, TypeOK
    <2>4. CASE \E c \in Readers : (\E k \in Keys : Read(c, k)) \/ Query(c) \/ Fill(c)
      BY <2>4, ReadStep, QueryStep, FillStep
    <2>5. CASE \E k \in Keys : Expire(k)
      BY <2>5, ExpireStep
    <2>6. CASE UNCHANGED vars
      BY <2>6 DEF vars, CInv, TypeOK, QueueInv, QueueTypeOK, CommittedStands,
                  OnlyCrossedFillsAreStale, HeldAcross, Outdated
    <2> QED BY <2>1, <2>2, <2>3, <2>4, <2>5, <2>6 DEF Next, Finished
  <1> QED BY <1>1, Starts, PTL DEF Spec

THEOREM CacheTypeCorrect == Spec => []TypeOK
  <1>1. CInv => TypeOK
    BY DEF CInv
  <1> QED BY <1>1, CacheInvariance, PTL

\* One sweep of any job serves every change committed before it; only a reader that held
\* a ranking across the sweep can bring an older one back.
THEOREM SweepsServe == Spec => []OnlyCrossedFillsAreStale
  <1>1. CInv => OnlyCrossedFillsAreStale
    BY DEF CInv
  <1> QED BY <1>1, CacheInvariance, PTL

-----------------------------------------------------------------------------
(* What the rankings count. *)

\* The matches of the period that all of us won: what Won counts.
WonIds(us) ==
  {id \in DOMAIN tables :
    LET m == tables[id] IN (\A u \in us : WonBy(u, m)) /\ Now - m.at <= LastDays[period]}

\* A confirmed match has its scores and its day, whatever they are.
Recorded(m) ==
  /\ \A u \in Members : m.team[u] \in {"A", "B", "none"}
  /\ m.status = "confirmed" => m.a \in Nat /\ m.b \in Nat /\ m.at \in 0 .. Now

Queried ==
  /\ DOMAIN tables = Fixtures /\ \A id \in Fixtures : Recorded(tables[id])
  /\ period \in Filters
  /\ users = UserWins(tables, period) /\ pairs = PairWins(tables, period)
WinsInv == WinsInit \/ Queried

\* The WHERE clause and the join conditions say of a match what winning it in the period means.
LEMMA CountedMeansWon ==
  ASSUME NEW m, Recorded(m), NEW f \in Filters, NEW u \in Members
  PROVE  Counted(m, f) /\ m.team[u] = WinningTeam(m) <=> WonBy(u, m) /\ Now - m.at <= LastDays[f]
<1>1. CASE m.status = "confirmed"
  <2>1. m.a \in Nat /\ m.b \in Nat /\ m.at \in 0 .. Now /\ Now \in Nat
        /\ m.team[u] \in {"A", "B", "none"}
    BY <1>1, WinsAssumption DEF Recorded
  <2>2. Since(m, f) <=> Now - m.at <= LastDays[f]
    BY <2>1, WinsAssumption DEF Since, StartDate, Span, LastDays, Filters
  <2> QED BY <1>1, <2>1, <2>2, WinsAssumption DEF Counted, WinningTeam, WonBy
<1>2. CASE m.status # "confirmed"
  BY <1>2 DEF Counted, WonBy
<1> QED BY <1>1, <1>2

LEMMA IdsFinite ==
  ASSUME WinsInv, NEW us
  PROVE  /\ IsFiniteSet(WonIds(us)) /\ Won(us) = Cardinality(WonIds(us)) /\ Won(us) \in Nat
         /\ Won(us) = 0 <=> WonIds(us) = {}
<1>1. WonIds(us) \subseteq DOMAIN tables /\ IsFiniteSet(DOMAIN tables)
  BY WinsAssumption, FS_EmptySet DEF WonIds, WinsInv, WinsInit, Queried
<1>2. IsFiniteSet(WonIds(us)) /\ Cardinality(WonIds(us)) \in Nat
  BY <1>1, FS_Subset, FS_CardinalityType
<1>3. Won(us) = Cardinality(WonIds(us))
  BY DEF Won, WonIds
<1> QED BY <1>2, <1>3, FS_EmptySet

\* A group of the user query has a row for each match won.
LEMMA UserGroup ==
  ASSUME Queried, NEW u \in Members
  PROVE  LET rows == {r \in UserRows(tables, period) : r[2] = u} IN
         Cardinality(rows) = Won({u}) /\ (rows = {} <=> WonIds({u}) = {})
<1> DEFINE rows == {r \in UserRows(tables, period) : r[2] = u}
           f == [id \in WonIds({u}) |-> <<id, u>>]
<1>1. \A id \in DOMAIN tables : <<id, u>> \in UserRows(tables, period) <=> id \in WonIds({u})
  BY CountedMeansWon DEF Queried, UserRows, WonIds
<1>2. \A r \in rows : r[1] \in WonIds({u}) /\ r = <<r[1], u>>
  BY <1>1 DEF UserRows
<1>3. \A id \in WonIds({u}) : f[id] \in rows
  BY <1>1 DEF WonIds
<1>4. f \in Bijection(WonIds({u}), rows)
  BY <1>2, <1>3 DEF Bijection, Injection, Surjection, IsInjective
<1>5. Cardinality(WonIds({u})) = Cardinality(rows)
  BY <1>4, IdsFinite, FS_Bijection DEF WinsInv, ExistsBijection
<1>6. Won({u}) = Cardinality(WonIds({u}))
  BY IdsFinite DEF WinsInv
<1> QED BY <1>2, <1>3, <1>5, <1>6

LEMMA UsersCounted == WinsInv => UserWinsCount
<1> SUFFICES ASSUME WinsInv, NEW u \in Members
             PROVE  Won({u}) = IF u \in DOMAIN users THEN users[u] ELSE 0
  BY DEF UserWinsCount
<1>1. CASE WinsInit
  <2>1. WonIds({u}) = {} /\ DOMAIN users = {}
    BY <1>1 DEF WinsInit, WonIds
  <2> QED BY <2>1, IdsFinite
<1>2. CASE Queried
  <2> DEFINE rows == {r \in UserRows(tables, period) : r[2] = u}
  <2>1. Cardinality(rows) = Won({u}) /\ (rows = {} <=> WonIds({u}) = {})
    BY <1>2, UserGroup
  <2>2. u \in DOMAIN users <=> rows # {}
    BY <1>2 DEF Queried, UserWins
  <2>3. u \in DOMAIN users => users[u] = Cardinality(rows)
    BY <1>2 DEF Queried, UserWins
  <2> QED BY <2>1, <2>2, <2>3, IdsFinite
<1> QED BY <1>1, <1>2 DEF WinsInv

\* A group of the pair query has a row for each match the two won in one team, if the
\* lower id comes first; otherwise there is none.
LEMMA PairGroup ==
  ASSUME Queried, NEW u \in Members, NEW v \in Members
  PROVE  LET rows == {r \in PairRows(tables, period) : <<r[2], r[3]>> = <<u, v>>} IN
         IF u < v THEN Cardinality(rows) = Won({u, v}) /\ (rows = {} <=> WonIds({u, v}) = {})
                  ELSE rows = {}
<1> DEFINE rows == {r \in PairRows(tables, period) : <<r[2], r[3]>> = <<u, v>>}
           f == [id \in WonIds({u, v}) |-> <<id, u, v>>]
<1>0. u \in Nat /\ v \in Nat
  BY WinsAssumption
<1>1. CASE ~(u < v)
  BY <1>0, <1>1 DEF PairRows
<1>2. CASE u < v
  <2>1. \A id \in DOMAIN tables : <<id, u, v>> \in PairRows(tables, period) <=> id \in WonIds({u, v})
    <3> SUFFICES ASSUME NEW id \in DOMAIN tables
                 PROVE  <<id, u, v>> \in PairRows(tables, period) <=> id \in WonIds({u, v})
      OBVIOUS
    <3> DEFINE m == tables[id]
    <3>1. Recorded(m) /\ period \in Filters
      BY DEF Queried
    <3>2. /\ Counted(m, period) /\ m.team[u] = WinningTeam(m) <=> WonBy(u, m) /\ Now - m.at <= LastDays[period]
          /\ Counted(m, period) /\ m.team[v] = WinningTeam(m) <=> WonBy(v, m) /\ Now - m.at <= LastDays[period]
      BY <3>1, CountedMeansWon
    <3>3. <<id, u, v>> \in PairRows(tables, period) <=>
            Counted(m, period) /\ m.team[u] = WinningTeam(m) /\ m.team[v] = m.team[u]
      BY <1>0, <1>2 DEF PairRows
    <3>4. id \in WonIds({u, v}) <=> WonBy(u, m) /\ WonBy(v, m) /\ Now - m.at <= LastDays[period]
      BY DEF WonIds
    <3> QED BY <3>2, <3>3, <3>4
  <2>2. \A r \in rows : r[1] \in WonIds({u, v}) /\ r = <<r[1], u, v>>
    BY <2>1 DEF PairRows
  <2>3. \A id \in WonIds({u, v}) : f[id] \in rows
    BY <2>1 DEF WonIds
  <2>4. f \in Bijection(WonIds({u, v}), rows)
    BY <2>2, <2>3 DEF Bijection, Injection, Surjection, IsInjective
  <2>5. Cardinality(WonIds({u, v})) = Cardinality(rows)
    BY <2>4, IdsFinite, FS_Bijection DEF WinsInv, ExistsBijection
  <2>6. Won({u, v}) = Cardinality(WonIds({u, v}))
    BY IdsFinite DEF WinsInv
  <2> QED BY <1>2, <2>2, <2>3, <2>5, <2>6
<1> QED BY <1>1, <1>2

LEMMA PairsCounted == WinsInv => PairWinsCount
<1> SUFFICES ASSUME WinsInv, NEW u \in Members, NEW v \in Members, u # v
             PROVE  LET listed == {p \in DOMAIN pairs : p = <<u, v>> \/ p = <<v, u>>} IN
                    /\ Cardinality(listed) = IF Won({u, v}) > 0 THEN 1 ELSE 0
                    /\ \A p \in listed : pairs[p] = Won({u, v})
  BY DEF PairWinsCount
<1> DEFINE listed == {p \in DOMAIN pairs : p = <<u, v>> \/ p = <<v, u>>}
<1>1. CASE WinsInit
  <2>1. WonIds({u, v}) = {} /\ listed = {}
    BY <1>1 DEF WinsInit, WonIds
  <2> QED BY <2>1, IdsFinite, FS_EmptySet
<1>2. CASE Queried
  <2> DEFINE rows(x, y) == {r \in PairRows(tables, period) : <<r[2], r[3]>> = <<x, y>>}
  <2>1. ASSUME NEW x \in Members, NEW y \in Members
        PROVE  /\ <<x, y>> \in DOMAIN pairs <=> rows(x, y) # {}
               /\ <<x, y>> \in DOMAIN pairs => pairs[<<x, y>>] = Cardinality(rows(x, y))
    BY <1>2 DEF Queried, PairWins
  <2>2. ASSUME NEW x \in Members, NEW y \in Members, x < y, {x, y} = {u, v}
        PROVE  /\ Cardinality(listed) = IF Won({u, v}) > 0 THEN 1 ELSE 0
               /\ \A p \in listed : pairs[p] = Won({u, v})
    <3>1. Cardinality(rows(x, y)) = Won({u, v}) /\ (rows(x, y) = {} <=> WonIds({u, v}) = {})
      BY <1>2, <2>2, PairGroup
    <3>2. rows(y, x) = {}
      <4>1. x \in Nat /\ y \in Nat /\ ~(y < x)
        BY <2>2, WinsAssumption
      <4> QED BY <1>2, <4>1, PairGroup
    <3>3. \A p : p \in listed <=> p = <<x, y>> /\ rows(x, y) # {}
      <4>1. \A p : p \in listed <=> p \in DOMAIN pairs /\ (p = <<x, y>> \/ p = <<y, x>>)
        BY <2>2
      <4>2. <<y, x>> \notin DOMAIN pairs
        BY <2>1, <3>2
      <4>3. <<x, y>> \in DOMAIN pairs <=> rows(x, y) # {}
        BY <2>1
      <4> HIDE DEF listed, rows
      <4> QED BY <4>1, <4>2, <4>3
    <3>4. rows(x, y) # {} => pairs[<<x, y>>] = Won({u, v})
      BY <2>1, <3>1
    <3>5. Won({u, v}) \in Nat /\ (Won({u, v}) = 0 <=> WonIds({u, v}) = {})
      BY IdsFinite
    <3> HIDE DEF rows, listed
    <3>6. CASE rows(x, y) = {}
      <4>1. listed = {} /\ ~(Won({u, v}) > 0)
        BY <3>1, <3>3, <3>5, <3>6
      <4> QED BY <4>1, FS_EmptySet
    <3>7. CASE rows(x, y) # {}
      <4>1. listed = {<<x, y>>} /\ Won({u, v}) > 0
        BY <3>1, <3>3, <3>5, <3>7
      <4> QED BY <3>4, <3>7, <4>1, FS_Singleton
    <3> QED BY <3>6, <3>7
  <2>3. u < v \/ v < u
    BY WinsAssumption
  <2> QED BY <2>2, <2>3
<1> QED BY <1>1, <1>2 DEF WinsInv

LEMMA AnyResultRecorded == \A m \in Results : Recorded(m)
  BY WinsAssumption DEF Recorded, Results, Result, Teams

LEMMA RankingsAnswered == AskRankings => Queried'
  BY AnyResultRecorded DEF AskRankings, Queried

LEMMA WinsInvariance == LeaderboardSpec => []WinsInv
<1>1. LeaderboardInit => WinsInv
  BY DEF LeaderboardInit, WinsInv
<1>2. WinsInv /\ [LeaderboardNext]_<<vars, wins>> => WinsInv'
  <2> SUFFICES ASSUME WinsInv, [LeaderboardNext]_<<vars, wins>> PROVE WinsInv'
    OBVIOUS
  <2>1. CASE UNCHANGED wins
    BY <2>1 DEF wins, WinsInv, WinsInit, Queried
  <2>2. CASE AskRankings
    BY <2>2, RankingsAnswered DEF WinsInv
  <2> QED BY <2>1, <2>2 DEF LeaderboardNext, Answered
<1> QED BY <1>1, <1>2, PTL DEF LeaderboardSpec

\* Whatever the tables hold, the user ranking counts of each user the confirmed matches of
\* the period that the user's team won (leaderboard.repository.ts:47-69).
THEOREM UserRankingCounts == LeaderboardSpec => []UserWinsCount
  BY WinsInvariance, UsersCounted, PTL

\* Whatever the tables hold, the pair ranking has every two users at most once, whichever of
\* them comes first in a match, with the matches they won together
\* (leaderboard.repository.ts:83-115).
THEOREM PairRankingCounts == LeaderboardSpec => []PairWinsCount
  BY WinsInvariance, PairsCounted, PTL

\* The rankings do not interfere with the cache: what holds of it alone holds here.
THEOREM CacheAlone == LeaderboardSpec => Spec
<1>1. LeaderboardInit => Init
  BY DEF LeaderboardInit
<1>2. [LeaderboardNext]_<<vars, wins>> => [Next]_vars
  BY DEF LeaderboardNext
<1> QED BY <1>1, <1>2, PTL DEF LeaderboardSpec, Spec
=============================================================================
