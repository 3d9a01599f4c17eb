----------------------------- MODULE MatchStore -----------------------------
(***************************************************************************)
(* One match as the API keeps it: the row of `matches`, its rows of        *)
(* `match_players` and `match_confirmations`, the audit rows about it, the *)
(* InnoDB lock on the row, and the jobs put on the queues for it; and the  *)
(* HTTP requests being served, each a small sequential process that stops  *)
(* at every awaited database or queue call.                                *)
(*                                                                         *)
(* The handlers are in MatchService, ConfirmationService and               *)
(* AdminOverrideService; this module holds what they share: loading an     *)
(* entity, TypeORM's save, the pool of connections, replying and failing.  *)
(***************************************************************************)
EXTENDS Integers, FiniteSets, Sequences

CONSTANTS
  Clients,       \* sessions; each has at most one request in flight
  Users,         \* users of the system
  Creator,       \* matches.created_by
  Admins,        \* users whose access token carries is_admin
  Slots,         \* (team, slot) pairs
  NoSlot,        \* the user has no row in match_players
  Scores,        \* values of score_a and score_b
  NoScore,       \* the column is NULL
  NotGiven,      \* the request body leaves the field out
  Capacity,      \* MATCH_CAPACITY of the match's type
  Workload,      \* the calls each session may make
  NoCall,        \* a session that has not called yet
  InitRow,       \* the match when the behaviour starts
  InitPlayers,   \* and its players
  NoRow,         \* no such row
  NoClient,      \* nobody holds the row lock
  PoolSize,      \* connections in the process's MySQL pool
  MaxRequests,   \* bound: calls made in one behaviour
  Failures       \* whether awaited calls may fail (and the process may die)

Statuses == {"draft", "playing", "awaiting_confirmation", "confirmed"}
Sides == {"scoreA", "scoreB"}
Results == [Sides -> Scores]
Pairs == [Sides -> Scores \cup {NoScore}]
Bodies == [Sides -> Scores \cup {NoScore, NotGiven}]
NoResult == [s \in Sides |-> NoScore]
Rows == [status : Statuses, result : Pairs, confirmedAt : BOOLEAN]
Rosters == [Users -> Slots \cup {NoSlot}]
Ops == {"addPlayers", "update", "submitResult", "confirm", "cancel",
        "overrideResult", "delete", "deleteMatch"}
\* Only PATCH /matches/:id may give one score alone, or null for one.
Calls == [op : Ops \ {"update"}, user : Users, result : Results, players : Rosters]
           \cup [op : {"update"}, user : Users, result : Bodies, players : Rosters]
AuditRows == [action : {"result_override", "match_delete"}, before : Pairs, after : Pairs]
Jobs == {"match.result_submitted", "match.confirmed", "match.confirmation_cancelled",
         "leaderboard-invalidate", "audit-log-write"}

Registered(p) == {u \in Users : p[u] # NoSlot}
SlotsDistinct(p) == \A u, v \in Registered(p) : p[u] = p[v] => u = v

ASSUME SentinelAssumption ==
  /\ NoSlot \notin Slots /\ NoScore \notin Scores /\ NotGiven \notin Scores \cup {NoScore}
  /\ NoRow \notin Rows /\ NoClient \notin Clients /\ NoCall \notin Calls
ASSUME WorkloadAssumption == Workload \in [Clients -> SUBSET Calls]
ASSUME ParameterAssumption ==
  /\ IsFiniteSet(Users) /\ Capacity \in Nat \ {0} /\ MaxRequests \in Nat
  /\ PoolSize \in Nat \ {0}
  /\ Failures \in BOOLEAN
\* What earlier, finished requests left behind.
ASSUME StartAssumption ==
  /\ InitRow \in Rows /\ InitRow.status # "confirmed" /\ ~InitRow.confirmedAt
  /\ InitPlayers \in Rosters /\ SlotsDistinct(InitPlayers)
  /\ Cardinality(Registered(InitPlayers)) <= Capacity
  /\ InitRow.status = "awaiting_confirmation" =>
       /\ InitRow.result \in Results
       /\ Cardinality(Registered(InitPlayers)) = Capacity

VARIABLES
  row,           \* the row of `matches`, or NoRow once deleted
  players,       \* match_players: the slot of each user
  votes,         \* match_confirmations, committed
  audit,         \* audit_logs about this match, in commit order
  lock,          \* the request whose open transaction holds the row lock
  published,     \* how often each job was added to its queue
  quorums,       \* history: how often a quorum was committed
  requests,      \* bound: calls made so far
  pc,            \* where each session's request is
  call,          \* the call each session made last
  mem            \* what each request remembers between awaits

store == <<row, players, votes, audit, lock>>
vars == <<row, players, votes, audit, lock, published, quorums, requests, pc, call, mem>>

Done == {"idle", "ok", "rejected", "error"}
Labels == {"find", "players", "insert", "reread", "connect", "save", "write", "publish",
           "lock", "snapshot", "vote", "commit", "invalidate", "clear", "audit", "delete"}

\* A request's locals: the entity findById returned, with its players (or, in
\* confirm, what findPlayers returned); the columns save will write; the votes in the
\* transaction's snapshot; the result read before an override, and (history) how many
\* audit rows there were then.
Columns == {"status", "confirmedAt"} \cup Sides
Memory == [ent : Rows \cup {NoRow}, seen : Rosters, dirty : SUBSET (Columns \cup {"insert"}),
           snap : SUBSET Users, before : Pairs, since : Nat]
Blank == [ent |-> NoRow, seen |-> [u \in Users |-> NoSlot], dirty |-> {}, snap |-> {},
          before |-> NoResult, since |-> 0]

Init ==
  /\ row = InitRow /\ players = InitPlayers /\ votes = {} /\ audit = << >>
  /\ lock = NoClient
  /\ published = [j \in Jobs |-> 0] /\ quorums = 0 /\ requests = 0
  /\ pc = [c \in Clients |-> "idle"]
  /\ call = [c \in Clients |-> NoCall]
  /\ mem = [c \in Clients |-> Blank]

-----------------------------------------------------------------------------
(* Steps every handler is built from. *)

At(c, label, op) == pc[c] = label /\ call[c].op = op
Goto(c, label) == pc' = [pc EXCEPT ![c] = label]
Remember(c, m) == mem' = [mem EXCEPT ![c] = m]
\* The handler returns or throws; its locals are gone.
Reply(c, outcome) == Goto(c, outcome) /\ Remember(c, Blank)
PublishLost(job) == UNCHANGED published
Publish(job) == published' = [published EXCEPT ![job] = @ + 1]

\* The row lock as every writer of the row, and every insert of a child row, meets it.
UnlockedAlways == TRUE
Unlocked == lock = NoClient

\* The lock once c's transaction, if it has one, is over.
ReleasedNever(c) == lock
Released(c) == IF lock = c THEN NoClient ELSE lock

\* Who keeps a connection of the pool from one step to the next: a transaction of the
\* handler's own until its query runner is released, which is after the events and the
\* answer's last read; and a save, from its re-read to its write. Every other statement
\* borrows a connection for its one step.
HeldLabels(op) ==
  {"write"} \cup CASE op = "confirm" -> {"lock", "snapshot", "vote", "commit", "publish",
                                        "invalidate", "reread"}
                   [] op = "overrideResult" -> {"save", "audit", "invalidate", "commit", "reread"}
                   [] OTHER -> {}
Connected(c) == pc[c] \notin Done /\ pc[c] \in HeldLabels(call[c].op)

\* The answer's last read asks the pool for a second connection while the first is held.
AwaitsSecond(c) == Connected(c) /\ pc[c] = "reread"

\* The pool makes a statement wait, without limit, until a connection is free.
FreeConnection == Cardinality({c \in Clients : Connected(c)}) < PoolSize
Granted(c) ==
  \/ pc[c] = "publish"
  \/ Connected(c) /\ ~AwaitsSecond(c)
  \/ FreeConnection

\* A session sends a request: only then is its previous answer forgotten.
Arrive(c) ==
  /\ pc[c] \in Done
  /\ requests < MaxRequests
  /\ \E k \in Workload[c] : call' = [call EXCEPT ![c] = k]
  /\ requests' = requests + 1
  /\ Goto(c, "find")
  /\ UNCHANGED <<store, published, quorums, mem>>

\* Repository.save, first half: re-read the row by its id and keep the columns that
\* differ from the entity. A row that is gone is inserted.
Differing(old, new) == {f \in {"status", "confirmedAt"} : old[f] # new[f]}
                         \cup {s \in Sides : old.result[s] # new.result[s]}
Dirty(ent) == IF row = NoRow THEN {"insert"} ELSE Differing(row, ent)

SaveRead(c) ==
  /\ pc[c] = "save"
  /\ Remember(c, [mem[c] EXCEPT !.dirty = Dirty(mem[c].ent)])
  /\ Goto(c, "write")
  /\ UNCHANGED <<store, published, quorums, requests, call>>

\* The save cascades to the entity's players. One that was registered after the entity
\* was loaded is missing from its list, and TypeORM, which then detaches that row, may
\* fail on its match_id (not null, part of the key): nothing of the save is kept. Since
\* addPlayers saves the entity it loaded before its own INSERT, this may be any first
\* registration's answer.
SaveOrphans(c) ==
  /\ pc[c] = "save"
  /\ ~(Registered(players) \subseteq Registered(mem[c].seen))
  /\ Reply(c, "error")
  /\ UNCHANGED <<store, published, quorums, requests, call>>

\* Second half: UPDATE the differing columns, or INSERT the entity with its players.
\* An UPDATE of a row deleted meanwhile matches nothing.
Overwrite(r, m) ==
  IF "insert" \in m.dirty THEN m.ent
  ELSE IF r = NoRow THEN NoRow
  ELSE [status |-> IF "status" \in m.dirty THEN m.ent.status ELSE r.status,
        result |-> [s \in Sides |-> IF s \in m.dirty THEN m.ent.result[s] ELSE r.result[s]],
        confirmedAt |-> IF "confirmedAt" \in m.dirty THEN m.ent.confirmedAt ELSE r.confirmedAt]
Cascaded(p, m) == IF "insert" \in m.dirty THEN m.seen ELSE p
AfterSave(op) == IF op \in {"submitResult", "cancel"} THEN "publish" ELSE "ok"

\* The row came back between the two halves: the INSERT hits the primary key.
Duplicate(c) == "insert" \in mem[c].dirty /\ row # NoRow

SaveWrite(c) ==
  /\ pc[c] = "write" /\ call[c].op # "overrideResult"
  /\ Unlocked \/ mem[c].dirty = {}
  /\ ~Duplicate(c)
  /\ row' = Overwrite(row, mem[c])
  /\ players' = Cascaded(players, mem[c])
  /\ IF AfterSave(call[c].op) = "ok"
       THEN Reply(c, "ok")
       ELSE Goto(c, AfterSave(call[c].op)) /\ UNCHANGED mem
  /\ UNCHANGED <<votes, audit, lock, published, quorums, requests, call>>

SaveDuplicate(c) ==
  /\ pc[c] = "write" /\ Unlocked /\ Duplicate(c)
  /\ Reply(c, "error")
  /\ UNCHANGED <<store, published, quorums, requests, call>>

\* An awaited call throws (the connection, a constraint, Redis), or the process dies.
\* An open transaction is rolled back and its lock released.
Fail(c) ==
  /\ Failures
  /\ pc[c] \notin Done
  /\ Reply(c, "error")
  /\ lock' = Released(c)
  /\ UNCHANGED <<row, players, votes, audit, published, quorums, requests, call>>
=============================================================================
