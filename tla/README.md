# A verification development of foosball-api

TLA+ models of the API's match services, sign-in and sessions, job queues, leaderboard and
match list, the TLC instances that check them, and TLAPS proofs about all of them.
Paths without a prefix are relative to the repository's root.

## 1. The system

foosball-api is four Node processes over one MySQL 8 database and one Redis 7: the **API**
(`apps/api`), the **auth server** (`apps/auth`), the **worker** (`apps/worker`) and the
**producer** (`apps/producer`). Each may run in several instances. The processes never call
each other: they meet in tables, in the three BullMQ queues `matches`, `leaderboard` and
`audit`, and in the Redis cache.

| Component | State | Operations | Meets | Modelled in |
|---|---|---|---|---|
| Match service (`libs/matches/.../match.service.ts`) | `matches`, `match_players` | create, update, addPlayers, submitResult, delete | confirm, cancel, override through the rows; queue `matches` | `MatchStore`, `MatchService` |
| Confirmation service (`confirmation.service.ts`) | `match_confirmations`, `matches.status` | confirm (transaction, `FOR UPDATE`), cancel | all of the above; queues `matches`, `leaderboard` | `ConfirmationService` |
| Admin override service (`admin-override.service.ts`) | `matches`, `audit_logs` | overrideResult (transaction), deleteMatch | queues `audit`, `leaderboard` | `AdminOverrideService`, `AuditPipeline` |
| Match list (`match.repository.ts`) | none (a cursor held by the client) | findPaginated | every writer of `matches` | `MatchPagination` |
| Refresh tokens (`libs/auth`) | `refresh_tokens` | issue, validate, rotate, invalidate | sign-in, refresh, logout | `RefreshTokens`, `Sessions` |
| Job queues, DLQ (`libs/events`) | BullMQ's records | add, take, complete, fail, stall, retry | API and producer add, worker takes, administrators retry | `JobQueue` |
| Audit log worker | `audit_logs` | process | queue `audit` | `AuditPipeline` |
| Leaderboard cache (`libs/leaderboard`) | eight Redis keys | read, fill, expire | MySQL, the worker's sweeps | `LeaderboardCache` |
| Leaderboard worker | none | sweep | queue `leaderboard` | `LeaderboardCache` |
| Hourly cron of the producer | none | an add that BullMQ refuses | - | no (section 7) |
| Match event worker | none | process (logs only) | queue `matches` | as a queue only |
| Leaderboard ranking queries | none | getUserWins, getPairWins | `matches`, `match_players` | `LeaderboardWins` |
| Users (`libs/users`) | `users` | upsert at sign-in, rename; an operator's UPDATE of `is_admin` | sign-in, refresh, the claims of access tokens | `Sessions` |
| Guards; Azure AD sign-in; migrations; modules, filters, health | - | - | - | no (section 8) |

What is hard here. Every handler is a chain of awaited database and queue calls, and other
requests run between any two of them; only `confirm` and `overrideResult` open a
transaction, and only `confirm` takes the row lock. TypeORM's `save` of an entity loaded
earlier writes back the columns that differ from the row *as re-read at the save*, so a
request can undo what another did since. Events are added to a queue after a commit (a
crash loses them) or before one (a rollback does not take them back). Jobs run at least
once, and the rows they write are not keyed. A cache fill can be older than the sweep it
comes after. A transaction's connection is held until its handler is done, and two handlers ask
the pool for another meanwhile. The hazards, each with its line and the properties that would catch it going
wrong, are listed in `PROJECT.json`.

What makes each component correct:

* **Matches**: a round is closed by the vote that makes a majority of the players, by no
  other, and once; a vote's transaction sees one unchanging match; votes are players'
  votes; scores do not change while players vote on them, and afterwards only with an audit
  row; nothing outlives a deleted match; every request is answered, as far as the connection pool allows.
* **Refresh tokens**: a used token never works again, the chain of replacements goes
  forward and stays with one user, nobody's token is spent by another's, and a session is
  lost only to a failure of its own refresh.
* **Users**: who holds a token has a row; `is_admin` is what the operator last set, except
  where a sign-in crossed that; an access token says what the row said while its request ran.
* **Ranking**: each confirmed, decided match of the period counts once for each winner, and
  once for each pair of winners.
* **Queues**: a job ends done or in the DLQ, and a completed job did its work.
* **Leaderboard cache**: a sweep after a change removes every ranking without it, except
  one that a reader was about to store.
* **Match list**: pages go down without overlap, and a match that is there all the time is
  on one, in a process whose local time is UTC.

## 2. Plan

The modules, in the order they are written; all are done.

1. `MatchStore`, `MatchService`, `ConfirmationService`, `AdminOverrideService`, composed in
   `Matches`; the abstract specification `MatchContract`; `MatchesProofs`.
2. `RefreshTokens`.
3. `JobQueue`, extended by `AuditPipeline` and by `LeaderboardCache`.
4. `MatchPagination`.
5. `RefreshTokensProofs`.
6. `Sessions`: `RefreshTokens` composed with the table `users`, the upsert of a sign-in, the
   rename, the operator's change of `is_admin` and the access tokens; `SessionsProofs`.
7. `LeaderboardWins`: `getUserWins` and `getPairWins` as operators over small tables, against
   a definition by counting; composed with the cache in `Leaderboard`.
8. `JobQueueProofs`, `AuditPipelineProofs`, `LeaderboardProofs`, `MatchPaginationProofs`.
9. `MatchContractProofs`: the refinement of `MatchContract` for disciplined callers, what
   follows from it, and `QuorumIsDecisive` with and without the discipline.

Abstract specifications: `MatchContract` is what README.md and docs/API.md promise of a
match, one atomic step per promise. A contract of the audit trail (one entry per
committed override) is not stated as one to refine: the code does not meet it (section 7).

## 3. From the code to the models

**A request is a process.** In the match modules each session of `Clients` has at most one
request; `pc[c]` is the await it has reached, `call[c]` its input, `mem[c]` its locals: the
entity `findById` returned (`ent`, `seen`), the columns `save` will write (`dirty`), the
votes in the transaction's snapshot (`snap`) and the result read before an override
(`before`), with, for the properties only, how many audit rows there were then (`since`). One action is the code from one await to the next, with the database statement
of that await in it; what runs under the row lock and cannot be observed is one action
(`CommitVote`).

| Action | Code |
|---|---|
| `Rejected`, `Update`, `AddPlayers`, `CheckPlayers`, `InsertPlayers`, `RereadPlayers`, `SubmitResult`, `CheckComplete`, `PublishSubmitted`, `FindToDelete`, `DeleteRow` | `match.service.ts`: each handler's loads, early returns, checks and writes |
| `Confirm`, `FindVoter`, `Connect`, `LockRow`, `AnswerClosed`, `ReadVotes`, `CastVote`, `CommitVote`, `PublishConfirmed`, `PublishInvalidate` | `confirm`: the player check before the transaction, the query runner's connection, `FOR UPDATE`, the status read under it, the votes read for the answer when the round is over, the first consistent read, the insert, the count and commit, the two events after it |
| `Cancel`, `ClearVotes`, `PublishCancelled` | `cancel`: no transaction, two statements |
| `OverrideResult`, `Connect`, `OverrideWrite` ... `AnswerOverride`, `DeleteMatch`, `AuditDelete` | `admin-override.service.ts` |
| `SaveRead`, `SaveOrphans`, `SaveWrite`, `SaveDuplicate` | TypeORM's `Repository.save`: re-read, diff, UPDATE or INSERT (a row deleted meanwhile is inserted again, with the players the entity holds), or a failure because the entity's list of players is older than the table |
| `Fail` | any awaited call throws, or the process dies: an open transaction is rolled back and its lock and connection released |

The row lock is explicit (`lock`): another locking read, an UPDATE or DELETE of the row, and
the insert of a child row (its foreign key) wait for it; plain SELECTs do not. A DELETE of votes waits for an uncommitted
vote (`Uncommitted`). MySQL's REPEATABLE READ shows where it matters: a vote counts the
votes of the snapshot its transaction's first plain read made, which comes after the lock
was granted. A score is a column of its own, as in the table: `PATCH /matches/:id` may give one,
both or `null`, and a `save` writes the ones that differ (`Given`, `Differing`, `Overwrite`). `cascade` on deletion and the unique keys of migrations 004 and 005 are in
`DeleteRow`, `InsertPlayers` and `SlotsDistinct`.

The connection pool is counted, not stored: `Connected` says at which awaits a request keeps a
connection (a query runner's from `connect` to its release in `finally`, after the events and the
answer's read; a `save`'s between its two halves), and a step needs one (`Granted`) unless it is an
`add`. `AwaitsSecond` are the two reads that ask for a second one while the first is held
(`confirmation.service.ts:118`, `admin-override.service.ts:116`). Any other statement borrows
a connection for its one step.

`quorums`, `since`, `presented`, `exchanged`, `replayed`, `crossed`, `commitOf`, `sweep`, `steady`,
`ordered`, `reverted`, `broken` and `roles` are history variables or fields: the code has no such state and no guard reads them.
`requests`, `reads`, `flips` and `retries` count towards bounds.

**RefreshTokens** numbers rows as the table does; a raw token is the number of the row that
has its hash. A client may present any token that was ever sent to anyone, or one that
never existed. `Validate`, `InsertSuccessor`, `Retire` and `IssueSecond` are the four
statements of a refresh: the fourth is the second refresh token `issueTokenPair` inserts
when `refresh` calls it for an access token.

**Sessions** extends `RefreshTokens`: each of its steps is a step of that module with what
happens to the user's row, or a step of the row alone. A sign-in finds the row, lets TypeORM
re-read it, and saves (`FindAccount`, `RereadAccount`, `SaveAccount`: a find, a re-read, an
UPDATE of the differing columns; or one INSERT, which the unique key on `azure_oid` may
refuse); only then does it become the `login` of `RefreshTokens`. A refresh loads the user
between `Validate` and `InsertSuccessor` (`LoadUser`) and signs that entity at the end
(`SessionIssues`). `Rename` is `PATCH /users/me`, one UPDATE; `SetRole` is the operator's SQL,
the only way the repository has to make an administrator. `access` holds the access tokens
clients have, and expires them at any time.

**JobQueue** is BullMQ as the code uses it, a library under no `src/` file of the
repository: ids deduplicate, `attempts` bounds tries, stalled jobs go to another worker,
`job.retry` puts a failed job back. `AuditPipeline` adds the override's transaction and the
processor's insert, also that of a worker that lost its lock on the job and lives on
(`LoseLock`, `OrphanWrites`); `LeaderboardCache` the sources of invalidations, the sweep and the
readers, and the deletions, which invalidate nothing. There MySQL's ranking is a version
number, which is enough to tell which changes a cached ranking lacks.

**LeaderboardWins** has what the version number stands for: the WHERE clause (`Counted`,
`Since`), the joins as sets of rows (`UserRows`, `PairRows`) and the groups with their counts
(`UserWins`, `PairWins`). Days stand for `DATETIME(3)`, so that the first instant of a period
is a day of its own. **Leaderboard** composes the cache and the queries.

**MatchPagination**: one page is one SELECT. `created_at` may lag the id by a millisecond
because the default is evaluated when the INSERT starts. `zone` is the set of offsets from UTC the
serving process has over the year. No `timezone` is configured, so mysql2 takes the column for local
time and `toISOString` writes it in UTC: the cursor is the last row's `created_at` less the
offset (`CursorOf`), and `AfterCursor` compares it with the column as it is.

**Variants.** Next to some definitions stands a second one with the same parameters
(`QuorumExceeded`, `UnlockedAlways`, `RetiredSuccessor`, `SweptOne`, `EarlierOnly`, ...).
Nothing uses it: it is a plausible mistake in that piece of code, and `PROJECT.json` pairs it
with the property that finds it.

## 4. What is checked

| Run | Instance | Properties | What it shows |
|---|---|---|---|
| `voting` | a full 2v2 match in a round, four sessions, a creator who may cancel, a player who may also override, 4 requests, a pool of two, failures | `QuorumIsDecisive`, `QuorumCommittedOnce`, `RequestsAnswered`, `QuorumAnnounced` | votes in any order and overlap close the round exactly at the majority, once; only requests that hold the whole pool and each ask for one connection more wait for each other for ever; a quorum's event follows unless that very request fails |
| `lifecycle` | an empty 1v1 draft, one creator session with partial updates, a player, two administrators who override, 6 requests, failures | `CapacityRespected`, `VotersArePlayers`, `ConfirmedIsFinal`, `VotedResultStable`, `OnlyCrossedOverridesMisreport`, `ImplementsContract` | with one session for the creator, whatever voters and administrators do meanwhile, the handlers implement `MatchContract`; an override's audit row is wrong only if another one was written since it read the match |
| `disorder` | a 1v1 in a round, the creator in two tabs, a voter session, an administrator who overrides and deletes along both routes, 5 requests, failures | `TypeOK`, `LockedRoundStable`, `NoOrphans` | what still holds when nothing serialises the requests |
| `tokens` | two users, two names, two clients, 3 requests, renames, an operator, expiry, failures | `SessionsTypeOK`, `SpentStaysSpent`, `ChainForward`, `OnlyPresentedAreSpent`, `ReplayRejected`, `LostOnlyByFailure`, `TokensHaveAccounts`, `OnlyCrossedSignInsRevert`, `ClaimsWereTrue` | the rotation's invariants, overlapping refreshes of one token included; what a stale sign-in may undo, and what no other request does; that nobody loses a session to another's refresh |
| `audit` | an override and a job of a newer release, 3 attempts, a lost worker, dead or alive, two DLQ retries | `CompletedWrote`, `RowsBounded`, `NewerNeverWritten`, `JobsSettle` | what at-least-once processing guarantees, and how often a row can be written |
| `cache` | a quorum, an override, a deletion; two keys, two readers, two reads, a DLQ retry, failures; and every table of two matches among three users | `OnlyCrossedFillsAreStale`, `UserWinsCount`, `PairWinsCount` | a sweep of any job after a commit leaves only fills that were under way, so the next one also serves changes that have no job of their own; the queries count what they should |
| `pagination` | five matches in three milliseconds, pages of two, one change or deletion, five zones: UTC, east, west, and half the year east or west | `PagesDescend`, `NothingSkipped` | the keyset condition and the order agree, ties and late inserts included; pages repeat nothing unless the process is ever west of UTC and skip nothing unless it is ever east |

Runs that TLC must find violated, each about a sentence of the repository the code does not
keep (the quotes are in `PROJECT.json`, `findings`):

| Run | Property | What happens |
|---|---|---|
| `cancel_race` | `ConfirmedIsFinal` | a cancellation that read the round before the quorum reopens the confirmed match |
| `capacity_race` | `CapacityRespected` | two registrations checked against the same players exceed the capacity |
| `token_exchanged_twice` | `SingleUse` | two overlapping refreshes with one token both succeed |
| `audit_phantom` | `NoRowWithoutOverride` | the worker audits an override that was rolled back |
| `cache_stale_fill` | `SweptMeansFresh` | a reader that queried before the quorum fills the cache after the sweep |

Read `lifecycle` with `cancel_race` and `capacity_race`: the contract holds for a creator
who sends one request at a time *and does not cancel while players vote*; without that it
does not. The two runs show two of the ways it breaks; two tabs that edit at once break `VotedResultStable`
and `QuorumIsDecisive` too (section 5), and overlapping overrides, which the contract allows, have
their own property. `disorder` keeps the same requests and shows what survives.

### Bounds, and why they suffice

* Sessions: three or four. Every interaction in the code is between at most two requests
  and the row; a third lets a third request come between the steps of the two.
* Requests: 4 to 6 per behaviour. A full story from draft to override needs 6; a lost
  update needs 2, a reopened round 4.
* Players: 1v1 (majority 2 of 2) and 2v2 (majority 3 of 4), real values of `MATCH_CAPACITY`;
  a majority that is not everybody needs the second. 4v4 adds nothing the code distinguishes.
* Scores: two values for each side and `null`, so that two overrides can differ in one column or in both.
* Pool: two connections in `voting`, the least at which one request's wait is not all of it; four
  sessions can exhaust it with votes that lost their round and with overrides. Elsewhere ten, mysql2's
  default, which so few cannot exhaust.
* One match: no handler touches two.
* Tokens and users: three requests are a sign-in and two refreshes of its token at once, or
  two first sign-ins and a refresh; two clients make every overlap of two. Two names tell a
  rename from what a sign-in brings. Clients, users and names are symmetric, and no property
  of the run is liveness. A revert that a second sign-in hands on, after the operator has set
  `is_admin` again, was found within these bounds.
* Queue: 3 attempts for `audit`, the default of `queue-config.ts`; 1 for `cache`, where the number of
  tries does not matter but the DLQ does. `MaxStalls` is BullMQ's default, 1, or 0.
* Cache: two keys, so that a sweep of one is told from a sweep of all; two reads, so that
  two fills can follow one sweep, by one reader or overlapping by two. Keys and readers are symmetric.
* Ranking: three users can be in one team, in two, or absent, so that a pair has a third
  player and an opponent; two matches are the least that can add up. The days are the first
  of the week's and of the year's period and the day before the week's. A query depends on
  the tables alone, so the run asks at its start only and does not multiply the cache's states.
* List: five matches are two full pages of two and one more; four pages, because west of UTC a list
  may go on for ever. An offset of one millisecond of three stands for hours: rows lie before the
  displacement, in it and after it.

`CHECK_DEADLOCK` is on everywhere. Each specification has a stuttering action `Finished`
whose guard says when everything within the bound is over; any other state without a
successor is reported.

### Fairness

`Matches!FairSpec` has strong fairness for each request's steps: Node runs the continuation of
every settled await, InnoDB grants row locks and the pool grants connections first come, first
served, so a waiting statement is not overtaken for ever (or ends with a lock wait timeout,
which is `Fail`; the pool has no timeout). Arriving requests and failures
are not fair: nobody has to call, nothing has to fail. `AuditPipeline!FairSpec` has weak
fairness for the worker's steps on each job: the deployment keeps a worker running. Throwing
and dying are not fair, and are bounded by the code itself (`Attempts`, `MaxStalls`).

## 5. What is proved

For every value of the constants that satisfies the named assumptions.

`MatchesProofs` (from `SentinelAssumption`, `WorkloadAssumption`, `ParameterAssumption` and
`StartAssumption` of `MatchStore`):

* `Invariance`: `IInv` is an inductive invariant. It is the type invariant, `Called` (a
  request in flight has a call of its session's workload), `Loaded` (a handler past
  `findById` holds the entity it found), `LockedRoundStable` and `NoOrphans`. Neither of the
  last two is inductive alone: the row is written from the entities handlers hold, so their
  types and `Loaded` are needed, and that a child row's insert finds the match present comes
  from the lock held or the row tested in the same step.
* `TypeCorrect`, `LockedRound`, `Orphans`: its parts, as properties of `Spec`.
* `Voters`: if no session deletes, every vote is a registered player's. The strengthening
  `VotersInv` adds that a voter past `FindVoter` is registered and that no entity a `save`
  holds leads to an insert. The proviso is needed: a stale `save` inserts a deleted match
  again with an older list of players.

Each handler's lemma shows that its step is a move of one request (`Moves`) that stores
well-typed rows (`Stores`) and leaves open votes alone (`KeepsVotes`); `MoveKeepsInv` then
gives the invariant. The lock argument is in `KeepsVotes`: an open vote holds the lock, so
every other writer's guard is false.

* `CommittedOnce`: `QuorumCommittedOnce`, with no proviso: any workload, cancellations, deletions
  and failures included. The strengthening `Announcements` counts the requests that have
  committed a quorum and not yet told the queue: announcements made and still to be made are
  together at most the quorums committed. A vote that commits one moves both sides, its
  `add` moves a request from the one to the other, and a failure between them only loses one.
* `Capacious`: `CapacityRespected`, if one session registers players (`OneRegistrar`) and none
  deletes. `SeatsInv` says that a registration past its check still fits, because no other
  request adds players; `capacity_race` is what two sessions do, and a stale `save` of a
  deleted match would bring its old players back next to new ones.

`MatchContractProofs` (the same assumptions) says which callers may rely on `MatchContract`.
`Disciplined` is what the run `lifecycle` instantiates: nobody deletes the match, nobody
cancels a round, and the creator's edits (`addPlayers`, `update`, `submitResult`) come from one
session. Voters and administrators are any number, and their requests interleave with the
edits and each other at every await. Each part is needed: a deletion takes a confirmed
match away; `cancel_race` is what a cancellation does; with two editing sessions TLC finds `ConfirmedIsFinal`, `VotedResultStable`,
`QuorumIsDecisive` and the refinement violated, by a `save` of an entity loaded in an earlier
status.

* `Soundness`: `ContractInv` says, for every request in flight, what of its memory is still
  true. An edit finds the match as it loaded it and its `dirty` columns are exactly what
  differs (`EditSound`); a vote past the player check sees the players there are, its snapshot
  is the votes there are, and its round is open or decided (`VoteSound`); an override rewrites
  the result and nothing else of a match that stays confirmed (`OverrideSound`). `RowSound` adds
  that a match in `draft` or `playing` has no votes, and that a round has a result and too few votes to
  decide it. None is inductive alone: that an edit is not overtaken by a vote rests on
  `row.status` while it is in flight, and that on the edits being one at a time.
* `Implements`: `Spec => ImplementsContract`. `SaveWrite` of an edit is the contract's
  `SetScore`, `Start` or `Submit`; `InsertPlayers` its `Register`, whose capacity guard is
  `SeatsInv` after the step; `CommitVote` its `Vote`, with the vote and the confirmation at
  once; `CommitOverride` its `Override`; all other steps stutter.
* `Final` and `ResultStable`: `ConfirmedIsFinal` and `VotedResultStable`, from the contract by
  `Implements`, and from `VotersInv` that the row is there.
* `Decisive`: `QuorumIsDecisive`, a conjunct of `ContractInv`.
* `DecisiveRound`: `QuorumIsDecisive` again, without the discipline: whoever cancels, edits,
  registers or overrides, from however many sessions, provided that nobody deletes the match
  or submits a second result. The argument is another one, `RoundInv`: nothing a request
  remembers opens a round, the players a vote read before the lock are players still and
  hence not too many, and its snapshot misses no vote. The run `voting` is an instance.
* `Audited`: `OnlyCrossedOverridesMisreport`, for disciplined callers and any number of overlapping
  overrides. `before_data` is read before the transaction, so the audit row of the second of two
  overlapping overrides may tell of the wrong result (section 7); the theorem says that nothing
  else makes it. `AuditInv` says that an override still `Reporting`, with no audit row written
  since it read the match, has the match's result as its `before`, and as `dirty` columns what
  differs. That holds because in a confirmed match every change counts one more audit row
  (`ConfirmedWriters`).

`RefreshTokensProofs` (from `UserAssumption` and `BoundAssumption` of `RefreshTokens`):

* `Invariance`: `IInv` adds to the types, `ChainForward` and `OnlyPresentedAreSpent` what the
  statements of a refresh rely on from one await to the next (`Held`): the token it
  presented is a row of the user it was validated for, the one it inserted is a later row of
  that user, and a request that presented a used token never gets past `validate`. Without
  `Held`, `Retire` could point anywhere.
* `TypeCorrect`, `Chains`, `Spending`, `Replay`: its parts. `Spent`: the action property
  `SpentStaysSpent`, shown of every step next to the invariant (`Extends`), because the
  invariant needs it too: that a replayed token stays used is what keeps `Replay`.

All hold under every overlap of refreshes and logouts of one token, `token_exchanged_twice`
included: such a token is exchanged twice, but both successors are later tokens of its user.

`SessionsProofs` (the assumptions above and `AccountAssumption`):

* `Implements`: `SessionsSpec => RefreshTokens!Spec`, with the variables of `RefreshTokens` as
  they are. Every step is one of its steps, or changes nothing it knows. Hence
  `TokensInSessions`: what `RefreshTokensProofs` shows holds of whole sessions.
* `SessionsInvariance`: `SInv` adds to the token invariant what a request may rely on about
  the row it holds a copy of (`HeldAccount`): its entity's `is_admin` is one the row had since
  it came; a sign-in past its re-read, if the operator did not set `is_admin` since, has the
  ordered value or that of a user already reverted; a refresh in flight is its token's user's.
  None of the promises is inductive without it, because rows are written from entities.
* `SessionsTypeCorrect`, `Accounted`, `Ordered`, `Truthful`, `Losses`: its parts.

`JobQueueProofs` holds lemmas about any use of the queue: from `QueueAssumption`, every step
keeps `Budgeted`, which bounds the runs of a job by attempts, lost workers and retries, in
each state of the job. It is stronger than the bound it is for: a job that waits or runs has
one run less, and a failed one may have one loss more.

`AuditPipelineProofs` (and `AuditAssumption`): `AuditInvariance`, whose `Kept` says that rows
and orphaned runs together are at most the runs the queue counted, and that a run with effect
wrote; `Completed`, `Bounded`, `Refused` and `AuditTypeCorrect` follow. Counting the orphans
next to the rows is what makes it inductive: a late write moves one from the one to the other.

`LeaderboardProofs` (and `LeaderboardAssumption`, `EntryAssumption`, `WinsAssumption`):

* `CacheInvariance`, whose `HeldAcross` says of a reader about to store a ranking what the
  property says of one stored; `SweepsServe` and `CacheTypeCorrect` follow. `CacheAlone` carries
  them to the composition.
* `UserRankingCounts`, `PairRankingCounts`: `UserWinsCount` and `PairWinsCount`, for any number
  of users and matches. Of a match the argument only uses that a confirmed one has scores and a
  day, whichever they are (`Recorded`). Both are the same bijection: the rows of a
  group (`UserGroup`, `PairGroup`) and the ids of the matches the group should count are as
  many, because a match has one row for each user, and one for each pair in one order.
  `CountedMeansWon` reads the WHERE clause and the join condition as what winning a match in
  the period means. `WinsAssumption` says that a table has finitely many rows and that users
  are ordered by their ids, on which the pair query's `<` rests.

`MatchPaginationProofs` (from `ListAssumption`): a page is cut by how many matches come before
a row, so the lemmas come first. `NewestFirst`: the rows kept come before those cut off.
`WholeRest`: if the read of `limit + 1` rows shows all of them, they are all there is; its proof
takes the newest match not read, of whose predecessors the last has `limit` before it and would
have been cut off. `ListInv` then says how the cursor divides the matches, once for a process never
west of UTC (what is on a page is not after the cursor) and once for one never east of it (a
steady match that is on no page still is). `Descending` and `Complete` follow, each with its
proviso, and `ListTypeCorrect`, for every limit, every set of offsets and however many matches
share a millisecond. In UTC both hold.

## 6. What is only model-checked

Liveness: `RequestsAnswered`, `QuorumAnnounced` and `JobsSettle`. Fairness is stated with
ENABLED, which the provers cannot reason about.

Every invariant and every action property of a passing run is stated by a theorem. Where the
theorem has a proviso, TLC checks the property only on instances that satisfy it, or, in the
runs expected to fail, shows what happens without it. The properties of the failing runs are
false of the code and have no theorem, except `CapacityRespected` and `ConfirmedIsFinal`, which
have one for the callers that keep them.

## 7. Where the code and its documents differ

Besides the five runs above, modelling met these; each follows from a line or two, and the
models have the behaviour:

* A vote committed between `deleteAllConfirmations` and the status save of `cancel`
  (`confirmation.service.ts:243-245`) stays and counts in the next round; README.md:183 says
  cancelling clears all votes.
* The event of a quorum is lost if the process dies or Redis refuses between the commit and
  `add` (`confirmation.service.ts:169-211`); nothing retries it, and the caller gets a 500 for
  a match that is confirmed. Hence the last disjunct of `QuorumAnnounced`.
* Repeating a registration is refused with `SLOT_CONFLICT` (`match.service.ts:131-140`);
  docs/API.md:421 calls it idempotent.
* `DELETE /matches/:id` of a confirmed match writes no audit row (`match.service.ts:102`);
  docs/API.md:406 says one is written.
* A committed override is audited twice, by its transaction and by the worker
  (`admin-override.service.ts:83,100`, `audit-log.processor.ts:47`).
* A refresh inserts a second refresh token that nobody is sent (`auth.service.ts:93`), valid
  for 24 hours.
* The cache key has no limit in it (`leaderboard.service.ts:45-47`): a hit returns as many
  rows as the request that filled the cache asked for.
* The worker takes the cache's prefix from `QUEUE_PREFIX` (`leaderboard-invalidate.processor.ts:9`),
  the API from a literal: with the variable set, sweeps delete nothing that is read.
* A sign-in whose find came before the operator's UPDATE of `is_admin` and whose save re-reads
  the row after it writes the old value back (`user.repository.ts:26-31`); "Login upsert never
  overwrites `is_admin`" (.agentflow/teams/team-01/shared/code-review.md:446). Hence the shape
  of `OnlyCrossedSignInsRevert`.
* A sign-in overwrites a name the user set with `PATCH /users/me` (`user.repository.ts:30`).
* Two overlapping first sign-ins of one account, or an email another account has, make a
  sign-in fail with a 500 (the unique keys of migration 001); `upsert` catches neither.
* The pair ranking has no condition on the match's type (`leaderboard.repository.ts:83-102`):
  two players of a 1v1 on one team count as a pair; docs/API.md:617 speaks of 2v2 and 4v4.
* **Connections.** An override past its commit and a vote that lost its round keep their query
  runner's connection while they wait for another one (`admin-override.service.ts:116`,
  `confirmation.service.ts:118`). mysql2's pool has ten, by default, and lets statements wait without
  limit: ten such requests at once wait for each other, and every later request of the
  process for them, until the process is restarted. In `voting`, without `\/ Starved` in
  `RequestsAnswered`, TLC finds it: a cancellation overtakes two votes, whose answers take
  both connections. A pool larger than the overlapping requests, or answering after the
  release, prevents it.
* **Overlapping overrides.** `before_data` is read before the transaction
  (`admin-override.service.ts:61`) and `save` writes the columns that differ from a row re-read without
  a lock: of two overlapping overrides the later audit row may name a result that was not the
  one replaced, and the two may merge into a score neither asked for (2:0 and 1:3 over 1:0
  give 2:3). docs/API.md:652 promises an entry "written atomically" with a "before/after snapshot".
  Hence the proviso of `OnlyCrossedOverridesMisreport`.
* **The cursor's time zone.** The cursor is off by the process's offset from UTC
  (`match.repository.ts:86,98`; no `timezone` in the API's data source): west of UTC a page
  repeats rows already shown, and a list with more matches in the offset than fit a page never
  ends; east of it, matches of the next hours are on no page. docs/API.md:290-301 describes
  pages that follow each other. Hence the provisos of `PagesDescend` and `NothingSkipped`.
* **The hourly refresh.** `leaderboard-cron.service.ts:33` makes a job id with one colon, which BullMQ 5.76.8
  refuses ("Custom Id cannot contain :"): the add throws each hour and nothing is queued.
  .agentflow/architect/analysis/sprint-01-audit.md:200 calls the component complete. So only
  quorums, overrides and the TTL refresh the ranking.
* An override's jobs are added before its commit (`admin-override.service.ts:100-114`): a sweep that
  runs in between leaves the ranking without the override until another sweep or the TTL.
* `PATCH /matches/:id` with `null` for a score clears it: `@IsOptional` lets `null` pass
  (`update-match.dto.ts:6,13`), and `match.service.ts:86-87` tests for `undefined` only.
* The first registration's `save` (`match.service.ts:155`) is of an entity whose list of players is older
  than the insert before it; if TypeORM then fails on the rows it would detach, the answer is a
  500, the players stay and the match stays a `draft`.
* Neither route that deletes a confirmed match, nor a rename, invalidates the ranking: it shows
  them until another job sweeps or the TTL ends.

## 8. What is not modelled

* `BIGINT` ids as strings or numbers, base64 and JSON of the cursor and the agreement of
  `DATETIME(3)` with ISO milliseconds and their `T` and `Z`; wording of errors; validation of DTOs beyond the
  sets of inputs (in particular one user twice in one `players` list).
* What TypeORM, which is not in the repository, does to a one-to-many list that lacks rows of
  the table: `SaveOrphans` may fail the save or not, and a save that succeeds leaves the
  players alone, because both columns a detached row would lose are `NOT NULL` keys.
* The connection of a single statement: it is taken and given back in one step, also by one that
  waits for the row lock. The lock's holder has its connection and never waits for a second
  one while it holds the lock, so such a wait ends.
* The reads of players for an answer after a `save` or an insert (`match.service.ts:90`), which hold
  nothing else; and a `startTransaction` that throws before the `try`, whose connection is
  never given back (`confirmation.service.ts:106-107`).
* BullMQ's backoff time.
* `users.email` and its unique key, other claims than `is_admin`, and a user's deletion, which
  no code does. That the guards let in exactly who the access token says is their own
  stateless check; in `Matches` an administrator is who the token says.
* The ageing of time windows under the cache: `standing` counts changes of results, not days.
* ORDER BY and LIMIT of the rankings (which of two users with as many wins is cut off is
  MySQL's choice), and `LeaderboardService.invalidateCache`, which only tests call.
* `list`, `get`, `getStatus`, `getAuditLog` and `listFailed` change nothing; `getAuditLog`'s
  content is `audit`.
* The status `cancelled`, which no code sets.
* Azure AD and MSAL (an external service: its answer is the input of `SignIn`), the stateless
  guards, migrations, module wiring, filters and health checks.
