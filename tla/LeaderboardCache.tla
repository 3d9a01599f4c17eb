-------------------------- MODULE LeaderboardCache --------------------------
(***************************************************************************)
(* The leaderboard in Redis: LeaderboardService reads through it, the      *)
(* worker sweeps it when a leaderboard-invalidate job runs, and the jobs   *)
(* come from confirmed quorums (after their commit) and from overrides     *)
(* (before it). The producer's hourly cron adds none: BullMQ refuses its   *)
(* custom job id, which holds a colon. The ranking in MySQL is a version   *)
(* number, one up for each committed change of the results.                *)
(***************************************************************************)
EXTENDS JobQueue

CONSTANTS
  Quorums,       \* jobs of confirmations (ConfirmationService.confirm)
  Corrections,   \* jobs of overrides (AdminOverrideService.overrideResult)
  Deletions,     \* deletions of confirmed matches, by either route: they have no job
  Keys,          \* leaderboard:{users|pairs}:{filter}
  NoEntry,       \* the key is not in Redis
  Readers,       \* GET /leaderboard/... requests
  MaxReads,      \* bound: requests made in one behaviour
  Failures       \* whether Redis may refuse and processes may die

ASSUME LeaderboardAssumption ==
  /\ Jobs = Quorums \cup Corrections /\ Quorums \cap Corrections = {}
  /\ Deletions \cap Jobs = {}
  /\ MaxReads \in Nat /\ Failures \in BOOLEAN

VARIABLES
  standing,      \* version of the ranking in MySQL
  change,        \* how far each quorum or override is
  cache,         \* Redis
  pc, mem,       \* each reader's request
  reads,         \* bound: requests made so far
  commitOf,      \* history: the version each change made
  sweep          \* history: whether any job swept since the change was committed

vars == <<jobs, standing, change, cache, pc, mem, reads, commitOf, sweep>>

Changes == Quorums \cup Corrections \cup Deletions
\* crossed (history): a sweep came between the query and the SET.
Entries == [version : Nat, crossed : BOOLEAN]
Locals == [key : Keys \cup {NoEntry}, version : Nat, crossed : BOOLEAN]
Asked(k) == [key |-> k, version |-> 0, crossed |-> FALSE]

ASSUME EntryAssumption == NoEntry \notin Entries

Init ==
  /\ QueueInit
  /\ standing = 0
  /\ change = [j \in Changes |-> "idle"]
  /\ cache = [k \in Keys |-> NoEntry]
  /\ pc = [c \in Readers |-> "idle"]
  /\ mem = [c \in Readers |-> Asked(NoEntry)]
  /\ reads = 0
  /\ commitOf = [j \in Changes |-> 0]
  /\ sweep = [j \in Changes |-> FALSE]

readers == <<pc, mem, reads>>

-----------------------------------------------------------------------------
(* Where the jobs come from. *)

CommitChange(j) ==
  /\ standing' = standing + 1
  /\ commitOf' = [commitOf EXCEPT ![j] = standing + 1]
  /\ sweep' = [sweep EXCEPT ![j] = FALSE]

\* confirm: the quorum is committed ...
CommitQuorum(j) ==
  /\ j \in Quorums /\ change[j] = "idle" /\ change' = [change EXCEPT ![j] = "committed"]
  /\ CommitChange(j)
  /\ UNCHANGED <<jobs, cache, readers>>

\* ... then the job is added,
AnnounceQuorum(j) ==
  /\ j \in Quorums /\ change[j] = "committed" /\ change' = [change EXCEPT ![j] = "done"]
  /\ Add(j)
  /\ UNCHANGED <<standing, cache, readers, commitOf, sweep>>

\* or it is not: Redis refused this event or the one before it, or the process died.
LoseQuorum(j) ==
  /\ Failures
  /\ j \in Quorums /\ change[j] = "committed" /\ change' = [change EXCEPT ![j] = "done"]
  /\ UNCHANGED <<jobs, standing, cache, readers, commitOf, sweep>>

\* overrideResult: the job is added first; the transaction commits or rolls back after.
AnnounceCorrection(j) ==
  /\ j \in Corrections /\ change[j] = "idle" /\ change' = [change EXCEPT ![j] = "announced"]
  /\ Add(j)
  /\ UNCHANGED <<standing, cache, readers, commitOf, sweep>>

CommitCorrection(j) ==
  /\ j \in Corrections /\ change[j] = "announced" /\ change' = [change EXCEPT ![j] = "done"]
  /\ CommitChange(j)
  /\ UNCHANGED <<jobs, cache, readers>>

RollbackCorrection(j) ==
  /\ Failures
  /\ j \in Corrections /\ change[j] = "announced" /\ change' = [change EXCEPT ![j] = "done"]
  /\ UNCHANGED <<jobs, standing, cache, readers, commitOf, sweep>>

\* MatchService.delete and deleteMatch of a confirmed match: one statement, no job.
DeleteConfirmed(j) ==
  /\ j \in Deletions /\ change[j] = "idle" /\ change' = [change EXCEPT ![j] = "done"]
  /\ CommitChange(j)
  /\ UNCHANGED <<jobs, cache, readers>>

-----------------------------------------------------------------------------
(* The worker. *)

TakeSweep(j) ==
  Take(j) /\ UNCHANGED <<standing, change, cache, readers, commitOf, sweep>>

SweptOne == {CHOOSE k \in Keys : TRUE}
\* Every scope and every filter the job names; all producers name all filters.
Swept == Keys

\* DEL. It serves every change committed by then.
SweepCache(j) ==
  /\ Running(j) /\ Ran(j)
  /\ cache' = [k \in Keys |-> IF k \in Swept THEN NoEntry ELSE cache[k]]
  /\ mem' = [c \in Readers |-> [mem[c] EXCEPT !.crossed = (pc[c] = "set")]]
  /\ sweep' = [i \in Changes |-> sweep[i] \/ commitOf[i] > 0]
  /\ UNCHANGED <<standing, change, pc, reads, commitOf>>

FinishSweep(j) ==
  Complete(j) /\ UNCHANGED <<standing, change, cache, readers, commitOf, sweep>>

\* Redis refuses the DEL, or its answer is lost; or the worker dies.
BreakSweep(j) ==
  /\ Failures /\ (Throw(j) \/ Stall(j))
  /\ UNCHANGED <<standing, change, cache, readers, commitOf, sweep>>

RetrySweep(j) ==
  RetryJob(j) /\ UNCHANGED <<standing, change, cache, readers, commitOf, sweep>>

-----------------------------------------------------------------------------
(* getUserLeaderboard and getPairLeaderboard. *)

rest == <<jobs, standing, change, commitOf, sweep>>
Goto(c, label) == pc' = [pc EXCEPT ![c] = label]

Reply(c) == Goto(c, "idle") /\ mem' = [mem EXCEPT ![c] = Asked(NoEntry)]

\* redis.get: the key has no limit in it, and a hit is returned as it was stored; a
\* miss goes to MySQL and then to Redis, an error to MySQL only, which leaves no trace.
Read(c, k) ==
  /\ pc[c] = "idle" /\ reads < MaxReads /\ reads' = reads + 1
  /\ \/ cache[k] # NoEntry /\ Reply(c)
     \/ cache[k] = NoEntry /\ Goto(c, "query") /\ mem' = [mem EXCEPT ![c] = Asked(k)]
     \/ Failures /\ Reply(c)
  /\ UNCHANGED <<rest, cache>>

Query(c) ==
  /\ pc[c] = "query" /\ Goto(c, "set")
  /\ mem' = [mem EXCEPT ![c].version = standing]
  /\ UNCHANGED <<rest, cache, reads>>

Entry(m) == [version |-> m.version, crossed |-> m.crossed]

\* redis.set with EX; a failure is logged only. Whatever happened since the query, the
\* result of the query is stored and returned.
Fill(c) ==
  /\ pc[c] = "set"
  /\ \/ cache' = [cache EXCEPT ![mem[c].key] = Entry(mem[c])]
     \/ Failures /\ UNCHANGED cache
  /\ Reply(c)
  /\ UNCHANGED <<rest, reads>>

\* CACHE_TTL seconds have passed.
Expire(k) ==
  /\ cache[k] # NoEntry
  /\ cache' = [cache EXCEPT ![k] = NoEntry]
  /\ UNCHANGED <<rest, readers>>

-----------------------------------------------------------------------------
Finished ==
  /\ reads = MaxReads /\ \A c \in Readers : pc[c] = "idle"
  /\ \A j \in Changes : change[j] = "done"
  /\ \A j \in Jobs : Is(j, "none") \/ Settled(j)
  /\ UNCHANGED vars

Next ==
  \/ \E j \in Changes : CommitQuorum(j) \/ AnnounceQuorum(j) \/ LoseQuorum(j)
       \/ AnnounceCorrection(j) \/ CommitCorrection(j) \/ RollbackCorrection(j)
       \/ DeleteConfirmed(j)
  \/ \E j \in Jobs : TakeSweep(j) \/ SweepCache(j) \/ FinishSweep(j) \/ BreakSweep(j)
       \/ RetrySweep(j)
  \/ \E c \in Readers : \/ \E k \in Keys : Read(c, k)
                        \/ Query(c) \/ Fill(c)
  \/ \E k \in Keys : Expire(k)
  \/ Finished

Spec == Init /\ [][Next]_vars

-----------------------------------------------------------------------------
TypeOK ==
  /\ QueueTypeOK
  /\ standing \in Nat /\ reads \in Nat
  /\ change \in [Changes -> {"idle", "committed", "announced", "done"}]
  /\ cache \in [Keys -> Entries \cup {NoEntry}]
  /\ pc \in [Readers -> {"idle", "query", "set"}]
  /\ mem \in [Readers -> Locals]
  /\ commitOf \in [Changes -> Nat] /\ sweep \in [Changes -> BOOLEAN]

\* Once any job has swept after a change's commit, the only ranking in Redis without the
\* change is one that a reader had in its hands during a sweep: so the job of the next
\* quorum or override also serves the changes whose own job was lost, ran too early or
\* never was. Until then, or until the entries expire, the change may be missing
\* (leaderboard-invalidate.processor.ts:30-46, leaderboard.service.ts:69-78).
OnlyCrossedFillsAreStale ==
  \A j \in Changes, k \in Keys :
    sweep[j] /\ cache[k] # NoEntry /\ cache[k].version < commitOf[j] => cache[k].crossed

\* "And leaderboard-invalidate event is processed ... new winner appears in results"
\* (test-criteria.md 7h): no answer after that lacks the change.
SweptMeansFresh ==
  \A j \in Quorums, k \in Keys :
    sweep[j] /\ cache[k] # NoEntry => cache[k].version >= commitOf[j]
=============================================================================
