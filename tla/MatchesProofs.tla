----------------------------- MODULE MatchesProofs -----------------------------
(***************************************************************************)
(* What holds of Matches for every number of sessions, users, results and  *)
(* requests, whatever the workload.                                        *)
(***************************************************************************)
EXTENDS Matches, FiniteSetTheorems, TLAPS

\* A request that is being served has a call, taken from its session's workload.
Called == \A c \in Clients :
  /\ call[c] \in Workload[c] \cup {NoCall}
  /\ pc[c] \notin Done => call[c] # NoCall

\* A handler past findById holds the entity it found.
HasEntity(label, op) ==
  \/ label \in {"save", "write", "insert", "clear"}
  \/ label \in {"players", "reread", "connect"} /\ op # "confirm"
  \/ label \in {"audit", "invalidate", "commit"} /\ op = "overrideResult"
Loaded == \A c \in Clients :
  pc[c] \notin Done /\ HasEntity(pc[c], call[c].op) => mem[c].ent # NoRow

IInv == TypeOK /\ Called /\ Loaded /\ LockedRoundStable /\ NoOrphans

-----------------------------------------------------------------------------
\* The types of the constants, as the assumptions of MatchStore give them.
LEMMA CallType == ASSUME NEW c \in Clients, NEW k \in Workload[c] PROVE k \in Calls
  BY WorkloadAssumption

LEMMA CallFacts ==
  ASSUME NEW k \in Calls
  PROVE  /\ k.op \in Ops /\ k.user \in Users /\ k.players \in Rosters
         /\ k.result \in IF k.op = "update" THEN Bodies ELSE Results
  BY DEF Calls, Ops

LEMMA PairFacts ==
  /\ Results \subseteq Pairs /\ NoResult \in Pairs
  /\ \A dto \in Bodies, old \in Pairs : Given(dto, old) \in Pairs
  BY DEF Results, Pairs, NoResult, Bodies, Given

LEMMA InitInv == Init => IInv
<1> SUFFICES ASSUME Init PROVE IInv
  OBVIOUS
<1> USE DEF Init
<1>1. Blank \in Memory
  BY PairFacts DEF Blank, Memory, Rosters
<1>2. TypeOK
  BY <1>1, StartAssumption DEF TypeOK, Done, Labels
<1>3. Called /\ Loaded /\ LockedRoundStable
  BY DEF Called, Loaded, LockedRoundStable, InVote, Done
<1>4. NoOrphans
  BY StartAssumption, SentinelAssumption DEF NoOrphans
<1> QED BY <1>2, <1>3, <1>4 DEF IInv

-----------------------------------------------------------------------------
\* Every step of a request moves that request alone: its label becomes l, its memory m.
\* Such a step keeps the invariant if what it stores is well typed and leaves no orphan,
\* if it leaves the row and the lock of any other open vote alone, and if l and m fit
\* each other.
VoteLabels == {"snapshot", "vote", "commit"}

Moves(c, l, m) ==
  /\ pc[c] \notin Done
  /\ l \in Done \cup Labels /\ m \in Memory
  /\ pc' = [pc EXCEPT ![c] = l] /\ mem' = [mem EXCEPT ![c] = m]
  /\ call' = call /\ requests' = requests
  /\ l \notin Done /\ HasEntity(l, call[c].op) => m.ent # NoRow

Stores ==
  /\ row' \in Rows \cup {NoRow} /\ players' \in Rosters /\ votes' \in SUBSET Users
  /\ audit' \in Seq(AuditRows) /\ lock' \in Clients \cup {NoClient}
  /\ published' \in [Jobs -> Nat] /\ quorums' \in Nat
  /\ NoOrphans'

KeepsVotes(c, l, m) ==
  /\ \A d \in Clients \ {c} : InVote(d) => lock' = d /\ row' = row
  /\ call[c].op = "confirm" /\ l \in VoteLabels =>
       lock' = c /\ Awaiting(row') /\ row' = m.ent

LEMMA MoveKeepsInv ==
  ASSUME IInv, NEW c \in Clients, NEW l, NEW m,
         Moves(c, l, m), Stores, KeepsVotes(c, l, m)
  PROVE  IInv'
<1> USE DEF IInv, Moves, Stores
<1>1. TypeOK'
  BY DEF TypeOK
<1>2. Called'
  BY DEF Called, TypeOK
<1>3. Loaded'
  BY DEF Loaded, TypeOK
<1>4. LockedRoundStable'
  <2> SUFFICES ASSUME NEW d \in Clients, InVote(d)'
               PROVE  lock' = d /\ Awaiting(row') /\ row' = mem'[d].ent
    BY DEF LockedRoundStable
  <2>1. CASE d = c
    BY <2>1 DEF InVote, KeepsVotes, VoteLabels, TypeOK
  <2>2. CASE d # c
    BY <2>2 DEF InVote, KeepsVotes, LockedRoundStable, TypeOK
  <2> QED BY <2>1, <2>2
<1> QED BY <1>1, <1>2, <1>3, <1>4

\* What a step may rely on: its call and its memory are well typed, and so is the entity.
LEMMA RequestFacts ==
  ASSUME IInv, NEW c \in Clients, pc[c] \notin Done
  PROVE  /\ call[c] \in Calls /\ mem[c] \in Memory /\ pc[c] \in Labels
         /\ HasEntity(pc[c], call[c].op) => mem[c].ent \in Rows
  BY WorkloadAssumption DEF IInv, TypeOK, Called, Loaded, Memory

\* A quiet step stores nothing: it reads, it publishes or it answers.
LEMMA QuietKeepsInv ==
  ASSUME IInv, NEW c \in Clients, NEW l, NEW m, Moves(c, l, m),
         UNCHANGED <<store, quorums>>, published' \in [Jobs -> Nat],
         call[c].op = "confirm" /\ l \in VoteLabels =>
           lock = c /\ Awaiting(row) /\ row = m.ent
  PROVE  IInv'
<1>1. Stores
  BY DEF Stores, store, IInv, TypeOK, NoOrphans
<1>2. KeepsVotes(c, l, m)
  BY DEF KeepsVotes, store, IInv, LockedRoundStable
<1> QED BY <1>1, <1>2, MoveKeepsInv

\* Editing an entity, or what is remembered, keeps its type.
LEMMA RowEdits ==
  ASSUME NEW r \in Rows
  PROVE  /\ \A x \in Pairs : [r EXCEPT !.result = x] \in Rows
         /\ \A st \in Statuses :
              /\ [r EXCEPT !.status = st] \in Rows
              /\ [r EXCEPT !.status = st, !.confirmedAt = TRUE] \in Rows
  BY DEF Rows

LEMMA MemoryEdits ==
  ASSUME NEW m \in Memory
  PROVE  /\ \A p \in Rosters : [m EXCEPT !.seen = p] \in Memory
         /\ \A x \in Pairs : [m EXCEPT !.before = x] \in Memory
         /\ \A e \in Rows \cup {NoRow} :
              /\ [m EXCEPT !.ent = e] \in Memory
              /\ \A p \in Rosters : [m EXCEPT !.ent = e, !.seen = p] \in Memory
  BY DEF Memory

\* TypeORM's UPDATE of some columns, or its INSERT, leaves a row.
LEMMA OverwriteType ==
  ASSUME NEW r \in Rows \cup {NoRow}, NEW m \in Memory, m.ent \in Rows
  PROVE  /\ Overwrite(r, m) \in Rows \cup {NoRow}
         /\ r # NoRow \/ "insert" \in m.dirty => Overwrite(r, m) \in Rows
<1>1. r # NoRow => [s \in Sides |-> IF s \in m.dirty THEN m.ent.result[s] ELSE r.result[s]] \in Pairs
  BY DEF Rows, Pairs
<1> QED BY <1>1 DEF Overwrite, Rows

LEMMA BlankFacts == Blank \in Memory /\ "commit" \notin Done /\ "players" \notin Done
  BY PairFacts DEF Blank, Memory, Rosters, Done

LEMMA ReplyKeepsInv ==
  ASSUME IInv, NEW c \in Clients, pc[c] \notin Done, NEW out \in Done, Reply(c, out),
         UNCHANGED <<store, quorums, requests, call>>, published' \in [Jobs -> Nat]
  PROVE  IInv'
<1>1. Moves(c, out, Blank)
  BY BlankFacts DEF Moves, Reply, Goto, Remember
<1>2. out \notin VoteLabels
  BY DEF Done, VoteLabels
<1> QED BY <1>1, <1>2, QuietKeepsInv

LEMMA PublishType ==
  ASSUME IInv, NEW job \in Jobs, Publish(job)
  PROVE  published' \in [Jobs -> Nat]
  BY DEF Publish, IInv, TypeOK

LEMMA UnpublishedType == ASSUME IInv, UNCHANGED published PROVE published' \in [Jobs -> Nat]
  BY DEF IInv, TypeOK

-----------------------------------------------------------------------------
LEMMA MatchServiceKeepsInv ==
  ASSUME IInv, NEW c \in Clients, MatchServiceStep(c)
  PROVE  IInv'
<1> USE DEF At, Goto, Remember
<1>1. CASE Rejected(c)
  BY <1>1, ReplyKeepsInv, UnpublishedType DEF Rejected, Refuse, Done
<1>2. CASE Update(c)
  <2> DEFINE e == [row EXCEPT !.result = Given(call[c].result, @)]
             m == [mem[c] EXCEPT !.ent = e, !.seen = players]
  <2>0. row \in Rows /\ call[c].result \in Bodies /\ mem[c] \in Memory /\ players \in Rosters
    BY <1>2, RequestFacts, CallFacts DEF Update, MayEdit, Done, IInv, TypeOK
  <2>1. row.result \in Pairs /\ e = [row EXCEPT !.result = Given(call[c].result, row.result)]
    BY <2>0 DEF Rows
  <2>3. e \in Rows /\ m \in Memory /\ m.ent = e
    BY <2>0, <2>1, RowEdits, PairFacts, MemoryEdits DEF Memory
  <2>2. Moves(c, "save", m)
    BY <1>2, <2>3, SentinelAssumption DEF Update, Load, Moves, Done, Labels
  <2> QED BY <1>2, <2>2, QuietKeepsInv, UnpublishedType DEF Update, VoteLabels
<1>3. CASE AddPlayers(c) \/ SubmitResult(c)
  <2> DEFINE m == [mem[c] EXCEPT !.ent = row, !.seen = players]
  <2>0. row \in Rows /\ mem[c] \in Memory /\ players \in Rosters
    BY <1>3, RequestFacts DEF AddPlayers, SubmitResult, MayEdit, Done, IInv, TypeOK
  <2>1. m \in Memory /\ m.ent = row
    BY <2>0, MemoryEdits DEF Memory
  <2>2. Moves(c, "players", m)
    BY <1>3, <2>0, <2>1, SentinelAssumption
    DEF AddPlayers, SubmitResult, Load, Moves, Done, Labels
  <2> QED BY <1>3, <2>2, QuietKeepsInv, UnpublishedType DEF AddPlayers, SubmitResult, VoteLabels
<1>4. CASE CheckPlayers(c)
  <2>1. CASE Reply(c, "rejected")
    BY <1>4, <2>1, ReplyKeepsInv, UnpublishedType DEF CheckPlayers, Done
  <2>2. CASE Goto(c, "insert") /\ UNCHANGED mem
    <3>0. mem[c] \in Memory /\ mem[c].ent \in Rows
      BY <1>4, RequestFacts DEF CheckPlayers, Done, HasEntity
    <3>1. Moves(c, "insert", mem[c])
      BY <1>4, <2>2, <3>0, SentinelAssumption DEF CheckPlayers, Moves, Done, Labels, IInv, TypeOK
    <3> QED BY <1>4, <3>1, QuietKeepsInv, UnpublishedType DEF CheckPlayers, VoteLabels
  <2> QED BY <1>4, <2>1, <2>2 DEF CheckPlayers
<1>5. CASE InsertPlayers(c)
  <2> DEFINE after == Seated(players, call[c].players)
  <2>0. after \in Rosters /\ mem[c] \in Memory /\ mem[c].ent \in Rows
    BY <1>5, RequestFacts, CallFacts
    DEF InsertPlayers, Done, Seated, Rosters, HasEntity, IInv, TypeOK
  <2>1. CASE Reply(c, "error") /\ UNCHANGED players
    BY <1>5, <2>1, ReplyKeepsInv, UnpublishedType DEF InsertPlayers, Done, store
  <2>2. CASE row # NoRow /\ players' = after /\ Goto(c, "reread") /\ UNCHANGED mem
    <3>1. Moves(c, "reread", mem[c])
      BY <1>5, <2>2, <2>0, SentinelAssumption DEF InsertPlayers, Moves, Done, Labels, IInv, TypeOK
    <3>2. Stores
      BY <1>5, <2>2, <2>0 DEF InsertPlayers, Stores, IInv, TypeOK, NoOrphans
    <3>3. KeepsVotes(c, "reread", mem[c])
      BY <1>5 DEF InsertPlayers, KeepsVotes, VoteLabels, IInv, LockedRoundStable
    <3> QED BY <3>1, <3>2, <3>3, MoveKeepsInv
  <2> QED BY <1>5, <2>1, <2>2 DEF InsertPlayers
<1>6. CASE RereadPlayers(c)
  <2> DEFINE e == [mem[c].ent EXCEPT !.status = "playing"]
             m == [mem[c] EXCEPT !.ent = e]
  <2>1. CASE Reply(c, "ok")
    BY <1>6, <2>1, ReplyKeepsInv, UnpublishedType DEF RereadPlayers, Done
  <2>2. CASE Goto(c, "save") /\ Remember(c, m)
    <3>0. mem[c] \in Memory /\ mem[c].ent \in Rows
      BY <1>6, RequestFacts DEF RereadPlayers, Done, HasEntity
    <3>1. e \in Rows /\ m \in Memory /\ m.ent = e
      BY <3>0, RowEdits, MemoryEdits DEF Memory, Statuses
    <3>2. Moves(c, "save", m)
      BY <1>6, <2>2, <3>1, SentinelAssumption DEF RereadPlayers, Moves, Done, Labels
    <3> QED BY <1>6, <3>2, QuietKeepsInv, UnpublishedType DEF RereadPlayers, VoteLabels
  <2> QED BY <1>6, <2>1, <2>2 DEF RereadPlayers
<1>7. CASE CheckComplete(c)
  <2> DEFINE e == [mem[c].ent EXCEPT !.status = "awaiting_confirmation", !.result = call[c].result]
             m == [mem[c] EXCEPT !.ent = e]
  <2>1. CASE Reply(c, "rejected")
    BY <1>7, <2>1, ReplyKeepsInv, UnpublishedType DEF CheckComplete, Done
  <2>2. CASE Goto(c, "save") /\ Remember(c, m)
    <3>0. mem[c] \in Memory /\ mem[c].ent \in Rows /\ call[c].result \in Results
      BY <1>7, RequestFacts, CallFacts DEF CheckComplete, Done, HasEntity
    <3>1. e \in Rows
      BY <3>0, PairFacts DEF Rows, Statuses
    <3>2. m \in Memory /\ m.ent = e
      BY <3>0, <3>1, MemoryEdits DEF Memory
    <3>3. Moves(c, "save", m)
      BY <1>7, <2>2, <3>1, <3>2, SentinelAssumption DEF CheckComplete, Moves, Done, Labels
    <3> QED BY <1>7, <3>3, QuietKeepsInv, UnpublishedType DEF CheckComplete, VoteLabels
  <2> QED BY <1>7, <2>1, <2>2 DEF CheckComplete
<1>8. CASE PublishSubmitted(c)
  BY <1>8, ReplyKeepsInv, PublishType DEF PublishSubmitted, Done, Jobs
<1>9. CASE FindToDelete(c)
  <2>1. CASE Reply(c, "rejected")
    BY <1>9, <2>1, ReplyKeepsInv, UnpublishedType DEF FindToDelete, Done
  <2>2. CASE Goto(c, "delete") /\ UNCHANGED mem
    <3>1. Moves(c, "delete", mem[c])
      BY <1>9, <2>2, RequestFacts
      DEF FindToDelete, Moves, Done, Labels, IInv, TypeOK, HasEntity
    <3> QED BY <1>9, <3>1, QuietKeepsInv, UnpublishedType DEF FindToDelete, VoteLabels
  <2> QED BY <1>9, <2>1, <2>2 DEF FindToDelete
<1>10. CASE DeleteRow(c)
  <2>1. Moves(c, "ok", Blank)
    BY <1>10, BlankFacts DEF DeleteRow, Reply, Moves, Done
  <2>2. Stores
    BY <1>10 DEF DeleteRow, Stores, IInv, TypeOK, NoOrphans, Registered, Rosters
  <2>3. KeepsVotes(c, "ok", Blank)
    BY <1>10, SentinelAssumption
    DEF DeleteRow, Unlocked, KeepsVotes, VoteLabels, IInv, LockedRoundStable
  <2> QED BY <2>1, <2>2, <2>3, MoveKeepsInv
<1> QED BY <1>1, <1>2, <1>3, <1>4, <1>5, <1>6, <1>7, <1>8, <1>9, <1>10 DEF MatchServiceStep

LEMMA ConfirmationServiceKeepsInv ==
  ASSUME IInv, NEW c \in Clients, ConfirmationServiceStep(c)
  PROVE  IInv'
<1> USE DEF At, Goto, Remember
<1>1. CASE Confirm(c)
  <2>1. CASE Reply(c, "rejected")
    BY <1>1, <2>1, ReplyKeepsInv, UnpublishedType DEF Confirm, Done
  <2>2. CASE Goto(c, "players") /\ UNCHANGED mem
    <3>1. Moves(c, "players", mem[c])
      BY <1>1, <2>2, RequestFacts DEF Confirm, Moves, Done, Labels, IInv, TypeOK, HasEntity
    <3> QED BY <1>1, <3>1, QuietKeepsInv, UnpublishedType DEF Confirm, VoteLabels
  <2> QED BY <1>1, <2>1, <2>2 DEF Confirm
<1>2. CASE FindVoter(c)
  <2> DEFINE m == [mem[c] EXCEPT !.seen = players]
  <2>1. CASE Reply(c, "rejected")
    BY <1>2, <2>1, ReplyKeepsInv, UnpublishedType DEF FindVoter, Done
  <2>2. CASE Goto(c, "connect") /\ Remember(c, m)
    <3>1. m \in Memory
      BY <1>2, RequestFacts, MemoryEdits DEF FindVoter, Done, IInv, TypeOK
    <3>2. Moves(c, "connect", m)
      BY <1>2, <2>2, <3>1 DEF FindVoter, Moves, Done, Labels, HasEntity
    <3> QED BY <1>2, <3>2, QuietKeepsInv, UnpublishedType DEF FindVoter, VoteLabels
  <2> QED BY <1>2, <2>1, <2>2 DEF FindVoter
<1>3. CASE LockRow(c)
  <2> DEFINE m == [mem[c] EXCEPT !.ent = row]
  <2>1. CASE Goto(c, "reread") /\ UNCHANGED <<lock, mem>>
    <3>1. Moves(c, "reread", mem[c])
      BY <1>3, <2>1, RequestFacts DEF LockRow, Moves, Done, Labels, HasEntity, IInv, TypeOK
    <3> QED BY <1>3, <2>1, <3>1, QuietKeepsInv, UnpublishedType DEF LockRow, VoteLabels, store
  <2>2. CASE RoundOpen(row) /\ lock' = c /\ Goto(c, "snapshot") /\ Remember(c, m)
    <3>0. row \in Rows /\ mem[c] \in Memory
      BY <1>3, <2>2, RequestFacts DEF LockRow, RoundOpen, Awaiting, Done, IInv, TypeOK
    <3>1. m \in Memory /\ m.ent = row
      BY <3>0, MemoryEdits DEF Memory
    <3>2. Moves(c, "snapshot", m)
      BY <1>3, <2>2, <3>1 DEF LockRow, Moves, Done, Labels, HasEntity
    <3>3. Stores
      BY <1>3, <2>2 DEF LockRow, Stores, IInv, TypeOK, NoOrphans
    <3>4. KeepsVotes(c, "snapshot", m)
      BY <1>3, <2>2, <3>1, SentinelAssumption
      DEF LockRow, Unlocked, RoundOpen, KeepsVotes, IInv, LockedRoundStable
    <3> QED BY <3>2, <3>3, <3>4, MoveKeepsInv
  <2> QED BY <1>3, <2>1, <2>2 DEF LockRow
<1>4. CASE ReadVotes(c)
  <2> DEFINE m == [mem[c] EXCEPT !.snap = votes]
  <2>0. mem[c] \in Memory /\ InVote(c)
    BY <1>4, RequestFacts, SentinelAssumption DEF ReadVotes, Done, InVote
  <2>1. m \in Memory /\ m.ent = mem[c].ent
    BY <2>0 DEF Memory, IInv, TypeOK
  <2>2. Moves(c, "vote", m)
    BY <1>4, <2>1 DEF ReadVotes, Moves, Done, Labels, HasEntity
  <2> QED BY <1>4, <2>0, <2>1, <2>2, QuietKeepsInv, UnpublishedType
      DEF ReadVotes, IInv, LockedRoundStable
<1>5. CASE CastVote(c)
  <2>0. mem[c] \in Memory /\ InVote(c)
    BY <1>5, RequestFacts, SentinelAssumption DEF CastVote, Done, InVote
  <2>1. Moves(c, "commit", mem[c])
    BY <1>5, <2>0 DEF CastVote, Moves, Done, Labels, HasEntity, IInv, TypeOK
  <2> QED BY <1>5, <2>0, <2>1, QuietKeepsInv, UnpublishedType
      DEF CastVote, IInv, LockedRoundStable
<1>6. CASE CommitVote(c)
  <2> DEFINE e == [mem[c].ent EXCEPT !.status = "confirmed", !.confirmedAt = TRUE]
  <2>0. /\ mem[c] \in Memory /\ call[c].user \in Users
        /\ lock = c /\ Awaiting(row) /\ row = mem[c].ent
    BY <1>6, RequestFacts, CallFacts, SentinelAssumption
    DEF CommitVote, Done, InVote, IInv, LockedRoundStable
  <2>1. row \in Rows /\ e \in Rows
    BY <2>0, RowEdits DEF Awaiting, IInv, TypeOK, Statuses
  <2>2. row' \in Rows /\ quorums' \in Nat
    BY <1>6, <2>1 DEF CommitVote, IInv, TypeOK
  <2>3. votes' \in SUBSET Users
    BY <1>6, <2>0 DEF CommitVote, Counted, Memory, IInv, TypeOK
  <2>4. Stores
    BY <1>6, <2>2, <2>3, SentinelAssumption
    DEF CommitVote, Released, Stores, IInv, TypeOK, NoOrphans
  <2>5. PICK l \in {"publish", "ok"}, m \in {mem[c], Blank} :
          pc' = [pc EXCEPT ![c] = l] /\ mem' = [mem EXCEPT ![c] = m]
    BY <1>6 DEF CommitVote, Reply, IInv, TypeOK
  <2>6. Moves(c, l, m)
    BY <1>6, <2>0, <2>5, BlankFacts DEF CommitVote, Moves, Done, Labels, HasEntity
  <2>7. KeepsVotes(c, l, m)
    BY <2>0, <2>5 DEF KeepsVotes, VoteLabels, IInv, LockedRoundStable
  <2> QED BY <2>4, <2>6, <2>7, MoveKeepsInv
<1>7. CASE PublishConfirmed(c)
  <2>1. Moves(c, "invalidate", mem[c])
    BY <1>7, RequestFacts DEF PublishConfirmed, Moves, Done, Labels, HasEntity, IInv, TypeOK
  <2> QED BY <1>7, <2>1, QuietKeepsInv, PublishType DEF PublishConfirmed, VoteLabels, Jobs
<1>8. CASE PublishInvalidate(c)
  BY <1>8, ReplyKeepsInv, PublishType DEF PublishInvalidate, Done, Jobs
<1>9. CASE Cancel(c)
  <2> DEFINE e == Reopened(row)
             m == [mem[c] EXCEPT !.ent = e, !.seen = players]
  <2>1. CASE Reply(c, "rejected")
    BY <1>9, <2>1, ReplyKeepsInv, UnpublishedType DEF Cancel, Done
  <2>2. CASE Awaiting(row) /\ Goto(c, "clear") /\ Remember(c, m)
    <3>0. row \in Rows /\ mem[c] \in Memory /\ players \in Rosters
      BY <1>9, <2>2, RequestFacts DEF Cancel, Awaiting, Done, IInv, TypeOK
    <3>1. e \in Rows
      BY <3>0, RowEdits DEF Reopened, Statuses
    <3>2. m \in Memory /\ m.ent = e
      BY <3>0, <3>1, MemoryEdits DEF Memory
    <3>3. Moves(c, "clear", m)
      BY <1>9, <2>2, <3>1, <3>2, SentinelAssumption DEF Cancel, Moves, Done, Labels
    <3> QED BY <1>9, <3>3, QuietKeepsInv, UnpublishedType DEF Cancel, VoteLabels
  <2> QED BY <1>9, <2>1, <2>2 DEF Cancel
<1>10. CASE ClearVotes(c)
  <2>0. mem[c] \in Memory /\ mem[c].ent \in Rows
    BY <1>10, RequestFacts DEF ClearVotes, Done, HasEntity
  <2>1. Moves(c, "save", mem[c])
    BY <1>10, <2>0, SentinelAssumption DEF ClearVotes, Moves, Done, Labels, IInv, TypeOK
  <2>2. Stores
    BY <1>10 DEF ClearVotes, Stores, IInv, TypeOK, NoOrphans
  <2>3. KeepsVotes(c, "save", mem[c])
    BY <1>10 DEF ClearVotes, KeepsVotes, VoteLabels, IInv, LockedRoundStable
  <2> QED BY <2>1, <2>2, <2>3, MoveKeepsInv
<1>11. CASE PublishCancelled(c)
  BY <1>11, ReplyKeepsInv, PublishType DEF PublishCancelled, Done, Jobs
<1>12. CASE AnswerClosed(c)
  BY <1>12, ReplyKeepsInv, UnpublishedType DEF AnswerClosed, Done
<1> QED BY <1>1, <1>2, <1>3, <1>4, <1>5, <1>6, <1>7, <1>8, <1>9, <1>10, <1>11, <1>12
    DEF ConfirmationServiceStep

LEMMA AdminOverrideServiceKeepsInv ==
  ASSUME IInv, NEW c \in Clients, AdminOverrideServiceStep(c)
  PROVE  IInv'
<1> USE DEF At, Goto, Remember
<1>1. CASE OverrideResult(c)
  <2> DEFINE e == [row EXCEPT !.result = call[c].result]
             m == [mem[c] EXCEPT !.ent = e, !.seen = players, !.before = row.result,
                                 !.since = Len(audit)]
  <2>1. CASE Reply(c, "rejected")
    BY <1>1, <2>1, ReplyKeepsInv, UnpublishedType DEF OverrideResult, Done
  <2>2. CASE row # NoRow /\ Goto(c, "connect") /\ Remember(c, m)
    <3>0. /\ row \in Rows /\ mem[c] \in Memory /\ players \in Rosters
          /\ call[c].result \in Results /\ Len(audit) \in Nat
      BY <1>1, <2>2, RequestFacts, CallFacts DEF OverrideResult, Done, IInv, TypeOK
    <3>1. e \in Rows /\ row.result \in Pairs
      BY <3>0, RowEdits, PairFacts DEF Rows
    <3>2. m \in Memory /\ m.ent = e
      BY <3>0, <3>1 DEF Memory
    <3>3. Moves(c, "connect", m)
      BY <1>1, <2>2, <3>1, <3>2, SentinelAssumption DEF OverrideResult, Moves, Done, Labels
    <3> QED BY <1>1, <3>3, QuietKeepsInv, UnpublishedType DEF OverrideResult, VoteLabels
  <2> QED BY <1>1, <2>1, <2>2 DEF OverrideResult, BeforeData
<1>2. CASE OverrideWrite(c)
  <2>0. mem[c] \in Memory /\ mem[c].ent \in Rows
    BY <1>2, RequestFacts DEF OverrideWrite, Done, HasEntity
  <2>1. Moves(c, "audit", mem[c])
    BY <1>2, <2>0, SentinelAssumption DEF OverrideWrite, Moves, Done, Labels, IInv, TypeOK
  <2>2. Stores
    BY <1>2 DEF OverrideWrite, Stores, IInv, TypeOK, NoOrphans
  <2>3. KeepsVotes(c, "audit", mem[c])
    BY <1>2, SentinelAssumption
    DEF OverrideWrite, Unlocked, KeepsVotes, VoteLabels, IInv, LockedRoundStable
  <2> QED BY <2>1, <2>2, <2>3, MoveKeepsInv
<1>3. CASE PublishAudit(c)
  <2>0. mem[c] \in Memory /\ mem[c].ent \in Rows
    BY <1>3, RequestFacts DEF PublishAudit, Done, HasEntity
  <2>1. Moves(c, "invalidate", mem[c])
    BY <1>3, <2>0, SentinelAssumption DEF PublishAudit, Moves, Done, Labels, IInv, TypeOK
  <2> QED BY <1>3, <2>1, QuietKeepsInv, PublishType DEF PublishAudit, VoteLabels, Jobs
<1>4. CASE PublishOverridden(c)
  <2>0. mem[c] \in Memory /\ mem[c].ent \in Rows
    BY <1>4, RequestFacts DEF PublishOverridden, Done, HasEntity
  <2>1. Moves(c, "commit", mem[c])
    BY <1>4, <2>0, SentinelAssumption DEF PublishOverridden, Moves, Done, Labels, IInv, TypeOK
  <2> QED BY <1>4, <2>1, QuietKeepsInv, PublishType DEF PublishOverridden, VoteLabels, Jobs
<1>5. CASE CommitOverride(c)
  <2>0. /\ mem[c] \in Memory /\ mem[c].ent \in Rows
        /\ call[c].result \in Results
    BY <1>5, RequestFacts, CallFacts DEF CommitOverride, Done, HasEntity
  <2>1. /\ Overwrite(row, mem[c]) \in Rows \cup {NoRow}
        /\ row # NoRow \/ "insert" \in mem[c].dirty => Overwrite(row, mem[c]) \in Rows
    BY <2>0, OverwriteType DEF IInv, TypeOK
  <2>2. Moves(c, "reread", mem[c])
    BY <1>5, <2>0, SentinelAssumption DEF CommitOverride, Moves, Done, Labels, IInv, TypeOK
  <2>3. audit' \in Seq(AuditRows) /\ players' \in Rosters
    BY <1>5, <2>0, PairFacts DEF CommitOverride, Cascaded, AuditRows, Memory, IInv, TypeOK
  <2>4. NoOrphans'
    BY <1>5, <2>1, SentinelAssumption DEF CommitOverride, Cascaded, NoOrphans, IInv
  <2>5. Stores
    BY <1>5, <2>1, <2>3, <2>4 DEF CommitOverride, Released, Stores, IInv, TypeOK
  <2>6. KeepsVotes(c, "reread", mem[c])
    BY <1>5 DEF CommitOverride, Released, KeepsVotes, VoteLabels, IInv, LockedRoundStable
  <2> QED BY <2>2, <2>5, <2>6, MoveKeepsInv
<1>6. CASE AnswerOverride(c)
  BY <1>6, ReplyKeepsInv, UnpublishedType DEF AnswerOverride, Done
<1>7. CASE DeleteMatch(c)
  <2>1. CASE Reply(c, "rejected")
    BY <1>7, <2>1, ReplyKeepsInv, UnpublishedType DEF DeleteMatch, Done
  <2>2. PICK l \in {"audit", "delete"}, m \in Memory :
          \/ pc' = [pc EXCEPT ![c] = l] /\ mem' = [mem EXCEPT ![c] = m]
          \/ Reply(c, "rejected")
    <3>0. mem[c] \in Memory
      BY <1>7, RequestFacts DEF DeleteMatch, Done
    <3>1. row # NoRow => row.result \in Pairs
      BY DEF IInv, TypeOK, Rows
    <3> QED BY <1>7, <3>0, <3>1, MemoryEdits DEF DeleteMatch, IInv, TypeOK
  <2>3. CASE pc' = [pc EXCEPT ![c] = l] /\ mem' = [mem EXCEPT ![c] = m]
    <3>1. Moves(c, l, m)
      BY <1>7, <2>3 DEF DeleteMatch, Moves, Done, Labels, HasEntity
    <3> QED BY <1>7, <3>1, QuietKeepsInv, UnpublishedType DEF DeleteMatch, VoteLabels
  <2> QED BY <2>1, <2>2, <2>3
<1>8. CASE AuditDelete(c)
  <2>0. mem[c] \in Memory
    BY <1>8, RequestFacts DEF AuditDelete, Done
  <2>1. Moves(c, "delete", mem[c])
    BY <1>8, <2>0 DEF AuditDelete, Moves, Done, Labels, HasEntity, IInv, TypeOK
  <2>2. audit' \in Seq(AuditRows)
    BY <1>8, <2>0, PairFacts DEF AuditDelete, AuditRows, Memory, IInv, TypeOK
  <2>3. Stores
    BY <1>8, <2>2 DEF AuditDelete, Stores, IInv, TypeOK, NoOrphans
  <2>4. KeepsVotes(c, "delete", mem[c])
    BY <1>8 DEF AuditDelete, KeepsVotes, VoteLabels, IInv, LockedRoundStable
  <2> QED BY <2>1, <2>3, <2>4, MoveKeepsInv
<1> QED BY <1>1, <1>2, <1>3, <1>4, <1>5, <1>6, <1>7, <1>8 DEF AdminOverrideServiceStep

LEMMA SaveKeepsInv ==
  ASSUME IInv, NEW c \in Clients,
         SaveRead(c) \/ SaveOrphans(c) \/ SaveWrite(c) \/ SaveDuplicate(c)
  PROVE  IInv'
<1> USE DEF Goto, Remember
<1>0. mem[c] \in Memory /\ mem[c].ent \in Rows
  BY RequestFacts DEF SaveRead, SaveOrphans, SaveWrite, SaveDuplicate, Done, HasEntity
<1>1. CASE SaveRead(c)
  <2> DEFINE m == [mem[c] EXCEPT !.dirty = Dirty(mem[c].ent)]
  <2>1. m \in Memory /\ m.ent = mem[c].ent
    BY <1>0 DEF Memory, Dirty, Differing, Columns
  <2>2. Moves(c, "write", m)
    BY <1>0, <1>1, <2>1, SentinelAssumption DEF SaveRead, Moves, Done, Labels
  <2> QED BY <1>1, <2>2, QuietKeepsInv, UnpublishedType DEF SaveRead, VoteLabels
<1>2. CASE SaveWrite(c)
  <2>1. /\ Overwrite(row, mem[c]) \in Rows \cup {NoRow}
        /\ row # NoRow \/ "insert" \in mem[c].dirty => Overwrite(row, mem[c]) \in Rows
    BY <1>0, OverwriteType DEF IInv, TypeOK
  <2>2. Stores
    BY <1>0, <1>2, <2>1, SentinelAssumption
    DEF SaveWrite, Cascaded, Stores, Memory, NoOrphans, IInv, TypeOK
  <2>3. PICK l \in {"publish", "ok"}, m \in {mem[c], Blank} :
          pc' = [pc EXCEPT ![c] = l] /\ mem' = [mem EXCEPT ![c] = m]
    BY <1>2 DEF SaveWrite, AfterSave, Reply, IInv, TypeOK
  <2>4. Moves(c, l, m)
    BY <1>0, <1>2, <2>3, BlankFacts DEF SaveWrite, Moves, Done, Labels, HasEntity
  <2>5. mem[c].dirty = {} => row' = row
    BY <1>2 DEF SaveWrite, Overwrite, Rows, Pairs, IInv, TypeOK
  <2>6. KeepsVotes(c, l, m)
    BY <1>2, <2>3, <2>5, SentinelAssumption
    DEF SaveWrite, Unlocked, KeepsVotes, VoteLabels, IInv, LockedRoundStable
  <2> QED BY <2>2, <2>4, <2>6, MoveKeepsInv
<1>3. CASE SaveDuplicate(c)
  BY <1>3, ReplyKeepsInv, UnpublishedType DEF SaveDuplicate, Done
<1>4. CASE SaveOrphans(c)
  BY <1>4, ReplyKeepsInv, UnpublishedType DEF SaveOrphans, Done
<1> QED BY <1>1, <1>2, <1>3, <1>4

LEMMA ConnectKeepsInv ==
  ASSUME IInv, NEW c \in Clients, Connect(c)
  PROVE  IInv'
<1> DEFINE l == IF call[c].op = "confirm" THEN "lock" ELSE "save"
<1>1. Moves(c, l, mem[c])
  BY RequestFacts, SentinelAssumption
  DEF Connect, Goto, Moves, Done, Labels, HasEntity, IInv, TypeOK, Loaded
<1> QED BY <1>1, QuietKeepsInv, UnpublishedType DEF Connect, VoteLabels

LEMMA FailKeepsInv ==
  ASSUME IInv, NEW c \in Clients, Fail(c)
  PROVE  IInv'
<1>1. Moves(c, "error", Blank)
  BY BlankFacts DEF Fail, Reply, Goto, Remember, Moves, Done
<1>2. Stores
  BY DEF Fail, Released, Stores, NoOrphans, IInv, TypeOK
<1>3. KeepsVotes(c, "error", Blank)
  BY DEF Fail, Released, KeepsVotes, VoteLabels, IInv, LockedRoundStable
<1> QED BY <1>1, <1>2, <1>3, MoveKeepsInv

LEMMA ArriveKeepsInv ==
  ASSUME IInv, NEW c \in Clients, Arrive(c)
  PROVE  IInv'
<1> USE DEF IInv, Arrive, store
<1>1. PICK k \in Workload[c] : call' = [call EXCEPT ![c] = k]
  OBVIOUS
<1>2. k \in Calls /\ k # NoCall
  BY CallType, SentinelAssumption
<1>3. TypeOK'
  BY <1>1, <1>2 DEF TypeOK, Goto, Labels
<1>4. Called'
  BY <1>1, <1>2 DEF Called, TypeOK, Goto
<1>5. Loaded'
  BY <1>1 DEF Loaded, HasEntity, TypeOK, Goto
<1>6. LockedRoundStable'
  BY <1>1 DEF LockedRoundStable, InVote, TypeOK, Goto
<1>7. NoOrphans'
  BY DEF NoOrphans
<1> QED BY <1>3, <1>4, <1>5, <1>6, <1>7

LEMMA NextKeepsInv == IInv /\ [Next]_vars => IInv'
<1> SUFFICES ASSUME IInv, [Next]_vars PROVE IInv'
  OBVIOUS
<1>1. ASSUME NEW c \in Clients, Arrive(c) PROVE IInv'
  BY <1>1, ArriveKeepsInv
<1>2. ASSUME NEW c \in Clients, Step(c) PROVE IInv'
  BY <1>2, MatchServiceKeepsInv, ConfirmationServiceKeepsInv,
     AdminOverrideServiceKeepsInv, SaveKeepsInv, ConnectKeepsInv DEF Step
<1>3. ASSUME NEW c \in Clients, Fail(c) PROVE IInv'
  BY <1>3, FailKeepsInv
<1>4. CASE UNCHANGED vars
  BY <1>4 DEF vars, IInv, TypeOK, Called, Loaded, LockedRoundStable, InVote, NoOrphans
<1> QED BY <1>1, <1>2, <1>3, <1>4 DEF Next, Finished

-----------------------------------------------------------------------------
\* The inductive invariant holds of every behaviour.
THEOREM Invariance == Spec => []IInv
  BY InitInv, NextKeepsInv, PTL DEF Spec

\* Every variable keeps its type, for every number of sessions, users and requests and
\* every mix of calls.
THEOREM TypeCorrect == Spec => []TypeOK
  BY Invariance, PTL DEF IInv

\* Whatever else is being served, an open vote sees the match it locked until it commits
\* (confirmation.service.ts:101-153).
THEOREM LockedRound == Spec => []LockedRoundStable
  BY Invariance, PTL DEF IInv

\* No player and no vote is left of a deleted match, not even by requests that passed
\* their checks before the deletion (match.service.ts:142, confirmation.service.ts:136).
THEOREM Orphans == Spec => []NoOrphans
  BY Invariance, PTL DEF IInv

-----------------------------------------------------------------------------
(* Votes belong to players. Deletion is left out: a save that was already under way when *)
(* the match was deleted puts the match back with the players it had loaded.             *)

DeletionCalls == {"delete", "deleteMatch"}
NoDeletion == \A c \in Clients : \A k \in Workload[c] : k.op \notin DeletionCalls

\* Players only arrive; so the row stays, nothing is re-inserted, and a voter who was
\* found among the players is one when the vote is committed.
VotersInv ==
  /\ row # NoRow
  /\ VotersArePlayers
  /\ \A c \in Clients :
       /\ "insert" \notin mem[c].dirty
       /\ pc[c] # "delete"
       /\ pc[c] \in {"connect", "lock"} \cup VoteLabels /\ call[c].op = "confirm" =>
            call[c].user \in Registered(players)

\* A step that takes no seat away, whose votes are players', and that plans no insert.
LEMMA KeepsVoters ==
  ASSUME IInv, VotersInv, NEW c \in Clients, NEW l, NEW m,
         pc' = [pc EXCEPT ![c] = l], mem' = [mem EXCEPT ![c] = m], call' = call,
         row' # NoRow, Registered(players) \subseteq Registered(players'),
         votes' \subseteq Registered(players'), "insert" \notin m.dirty, l # "delete",
         l \in {"connect", "lock"} \cup VoteLabels /\ call[c].op = "confirm" =>
           call[c].user \in Registered(players)
  PROVE  VotersInv'
<1> USE DEF VotersInv, IInv, TypeOK
<1>1. ASSUME NEW d \in Clients
      PROVE  /\ "insert" \notin mem'[d].dirty /\ pc'[d] # "delete"
             /\ pc'[d] \in {"connect", "lock"} \cup VoteLabels /\ call'[d].op = "confirm" =>
                  call'[d].user \in Registered(players')
  BY <1>1
<1>2. VotersArePlayers' /\ Registered(players)' = Registered(players')
  BY DEF VotersArePlayers, Registered
<1> QED BY <1>1, <1>2

\* The same when nothing is stored.
LEMMA QuietKeepsVoters ==
  ASSUME IInv, VotersInv, NEW c \in Clients, NEW l, NEW m,
         pc' = [pc EXCEPT ![c] = l], mem' = [mem EXCEPT ![c] = m], call' = call,
         row' = row, players' = players, votes' = votes,
         "insert" \notin m.dirty, l # "delete",
         l \in {"connect", "lock"} \cup VoteLabels /\ call[c].op = "confirm" =>
           call[c].user \in Registered(players)
  PROVE  VotersInv'
<1>1. row' # NoRow /\ votes' \subseteq Registered(players')
  BY DEF VotersInv, VotersArePlayers, Registered
<1>2. Registered(players) \subseteq Registered(players')
  BY DEF Registered
<1> QED BY <1>1, <1>2, KeepsVoters, Zenon

LEMMA ReplyKeepsVoters ==
  ASSUME IInv, VotersInv, NEW c \in Clients, NEW out \in Done, Reply(c, out),
         UNCHANGED <<row, players, votes, call>>
  PROVE  VotersInv'
<1>1. pc' = [pc EXCEPT ![c] = out] /\ mem' = [mem EXCEPT ![c] = Blank]
  BY DEF Reply, Goto, Remember
<1>2. "insert" \notin Blank.dirty /\ out # "delete" /\ out \notin {"connect", "lock"} \cup VoteLabels
  BY DEF Blank, Done, VoteLabels
<1> QED BY <1>1, <1>2, QuietKeepsVoters

LEMMA MatchServiceKeepsVoters ==
  ASSUME IInv, VotersInv, NoDeletion, NEW c \in Clients, MatchServiceStep(c)
  PROVE  VotersInv'
<1> USE DEF At, Goto, Remember, store
<1>0. mem[c] \in Memory /\ call[c].op \notin DeletionCalls /\ "insert" \notin mem[c].dirty
  BY RequestFacts DEF MatchServiceStep, Rejected, Update, AddPlayers, CheckPlayers, InsertPlayers,
     RereadPlayers, SubmitResult, CheckComplete, PublishSubmitted, FindToDelete, DeleteRow,
     Done, NoDeletion, IInv, Called, VotersInv
<1>1. CASE Rejected(c)
  BY <1>1, ReplyKeepsVoters DEF Rejected, Refuse, Done
<1>2. CASE Update(c)
  <2> DEFINE m == [mem[c] EXCEPT !.ent = [row EXCEPT !.result = Given(call[c].result, @)],
                                 !.seen = players]
  <2>1. m.dirty = mem[c].dirty
    BY <1>0 DEF Memory
  <2> QED BY <1>0, <1>2, <2>1, QuietKeepsVoters DEF Update, Load, VoteLabels
<1>3. CASE AddPlayers(c) \/ SubmitResult(c)
  <2> DEFINE m == [mem[c] EXCEPT !.ent = row, !.seen = players]
  <2>1. m.dirty = mem[c].dirty
    BY <1>0 DEF Memory
  <2> QED BY <1>0, <1>3, <2>1, QuietKeepsVoters DEF AddPlayers, SubmitResult, Load, VoteLabels
<1>4. CASE CheckPlayers(c)
  <2>1. CASE Reply(c, "rejected")
    BY <1>4, <2>1, ReplyKeepsVoters DEF CheckPlayers, Done
  <2>2. CASE pc' = [pc EXCEPT ![c] = "insert"] /\ mem' = [mem EXCEPT ![c] = mem[c]]
    BY <1>0, <1>4, <2>2, QuietKeepsVoters DEF CheckPlayers, VoteLabels
  <2> QED BY <1>4, <2>1, <2>2 DEF CheckPlayers, IInv, TypeOK
<1>5. CASE InsertPlayers(c)
  <2>1. CASE Reply(c, "error") /\ UNCHANGED players
    BY <1>5, <2>1, ReplyKeepsVoters DEF InsertPlayers, Done
  <2>2. CASE /\ players' = Seated(players, call[c].players)
             /\ pc' = [pc EXCEPT ![c] = "reread"] /\ mem' = [mem EXCEPT ![c] = mem[c]]
    <3>1. Registered(players) \subseteq Registered(players')
      BY <2>2 DEF Registered, Seated
    <3> QED BY <1>0, <1>5, <2>2, <3>1, KeepsVoters
        DEF InsertPlayers, VoteLabels, VotersInv, VotersArePlayers
  <2> QED BY <1>5, <2>1, <2>2 DEF InsertPlayers, IInv, TypeOK
<1>6. CASE RereadPlayers(c)
  <2> DEFINE m == [mem[c] EXCEPT !.ent = [@ EXCEPT !.status = "playing"]]
  <2>1. CASE Reply(c, "ok")
    BY <1>6, <2>1, ReplyKeepsVoters DEF RereadPlayers, Done
  <2>2. CASE pc' = [pc EXCEPT ![c] = "save"] /\ mem' = [mem EXCEPT ![c] = m]
    <3>1. m.dirty = mem[c].dirty
      BY <1>0 DEF Memory
    <3> QED BY <1>0, <1>6, <2>2, <3>1, QuietKeepsVoters DEF RereadPlayers, VoteLabels
  <2> QED BY <1>6, <2>1, <2>2 DEF RereadPlayers
<1>7. CASE CheckComplete(c)
  <2> DEFINE m == [mem[c] EXCEPT !.ent =
                     [@ EXCEPT !.status = "awaiting_confirmation", !.result = call[c].result]]
  <2>1. CASE Reply(c, "rejected")
    BY <1>7, <2>1, ReplyKeepsVoters DEF CheckComplete, Done
  <2>2. CASE pc' = [pc EXCEPT ![c] = "save"] /\ mem' = [mem EXCEPT ![c] = m]
    <3>1. m.dirty = mem[c].dirty
      BY <1>0 DEF Memory
    <3> QED BY <1>0, <1>7, <2>2, <3>1, QuietKeepsVoters DEF CheckComplete, VoteLabels
  <2> QED BY <1>7, <2>1, <2>2 DEF CheckComplete
<1>8. CASE PublishSubmitted(c)
  BY <1>8, ReplyKeepsVoters DEF PublishSubmitted, Done
<1>9. CASE FindToDelete(c) \/ DeleteRow(c)
  BY <1>0, <1>9 DEF FindToDelete, DeleteRow, VotersInv, DeletionCalls
<1> QED BY <1>1, <1>2, <1>3, <1>4, <1>5, <1>6, <1>7, <1>8, <1>9 DEF MatchServiceStep

LEMMA ConfirmationServiceKeepsVoters ==
  ASSUME IInv, VotersInv, NEW c \in Clients, ConfirmationServiceStep(c)
  PROVE  VotersInv'
<1> USE DEF At, Goto, Remember, store
<1>0. mem[c] \in Memory /\ "insert" \notin mem[c].dirty
  BY RequestFacts DEF ConfirmationServiceStep, Confirm, FindVoter, LockRow, ReadVotes, CastVote,
     CommitVote, PublishConfirmed, PublishInvalidate, Cancel, ClearVotes, PublishCancelled,
     AnswerClosed, Done, VotersInv
<1>1. CASE Confirm(c)
  <2>1. CASE Reply(c, "rejected")
    BY <1>1, <2>1, ReplyKeepsVoters DEF Confirm, Done
  <2>2. CASE pc' = [pc EXCEPT ![c] = "players"] /\ mem' = [mem EXCEPT ![c] = mem[c]]
    BY <1>0, <1>1, <2>2, QuietKeepsVoters DEF Confirm, VoteLabels
  <2> QED BY <1>1, <2>1, <2>2 DEF Confirm, IInv, TypeOK
<1>2. CASE FindVoter(c)
  <2> DEFINE m == [mem[c] EXCEPT !.seen = players]
  <2>1. CASE Reply(c, "rejected")
    BY <1>2, <2>1, ReplyKeepsVoters DEF FindVoter, Done
  <2>2. CASE IsPlayer(c) /\ pc' = [pc EXCEPT ![c] = "connect"] /\ mem' = [mem EXCEPT ![c] = m]
    <3>1. m.dirty = mem[c].dirty
      BY <1>0 DEF Memory
    <3> QED BY <1>0, <1>2, <2>2, <3>1, QuietKeepsVoters DEF FindVoter, IsPlayer
  <2> QED BY <1>2, <2>1, <2>2 DEF FindVoter
<1>3. CASE LockRow(c)
  <2> DEFINE m == [mem[c] EXCEPT !.ent = row]
  <2>1. CASE pc' = [pc EXCEPT ![c] = "reread"] /\ mem' = [mem EXCEPT ![c] = mem[c]]
    BY <1>0, <1>3, <2>1, QuietKeepsVoters DEF LockRow, VoteLabels
  <2>2. CASE pc' = [pc EXCEPT ![c] = "snapshot"] /\ mem' = [mem EXCEPT ![c] = m]
    <3>1. m.dirty = mem[c].dirty
      BY <1>0 DEF Memory
    <3> QED BY <1>0, <1>3, <2>2, <3>1, QuietKeepsVoters DEF LockRow, VotersInv
  <2> QED BY <1>3, <2>1, <2>2 DEF LockRow, IInv, TypeOK
<1>4. CASE ReadVotes(c)
  <2> DEFINE m == [mem[c] EXCEPT !.snap = votes]
  <2>1. m.dirty = mem[c].dirty
    BY <1>0 DEF Memory
  <2> QED BY <1>0, <1>4, <2>1, QuietKeepsVoters DEF ReadVotes, VotersInv, VoteLabels
<1>5. CASE CastVote(c)
  <2>1. mem' = [mem EXCEPT ![c] = mem[c]]
    BY <1>5 DEF CastVote, IInv, TypeOK
  <2> QED BY <1>0, <1>5, <2>1, QuietKeepsVoters DEF CastVote, VotersInv, VoteLabels
<1>6. CASE CommitVote(c)
  <2>0. /\ mem[c].ent \in Rows /\ call[c].user \in Registered(players)
        /\ row # NoRow /\ votes \subseteq Registered(players)
    BY <1>6, RequestFacts, SentinelAssumption
    DEF CommitVote, Done, VotersInv, VotersArePlayers, VoteLabels, InVote, IInv,
        LockedRoundStable, TypeOK, Awaiting
  <2>1. row' # NoRow
    <3>1. [mem[c].ent EXCEPT !.status = "confirmed", !.confirmedAt = TRUE] \in Rows
      BY <2>0, RowEdits DEF Statuses
    <3> QED BY <1>6, <2>0, <3>1, SentinelAssumption DEF CommitVote
  <2>2. players' = players /\ Registered(players') = Registered(players)
    BY <1>6 DEF CommitVote, Registered
  <2>3. votes' \subseteq Registered(players')
    BY <1>6, <2>0, <2>2 DEF CommitVote, Counted
  <2>4. PICK l \in {"publish", "ok"}, m \in {mem[c], Blank} :
          pc' = [pc EXCEPT ![c] = l] /\ mem' = [mem EXCEPT ![c] = m]
    BY <1>6 DEF CommitVote, Reply, IInv, TypeOK
  <2>5. "insert" \notin m.dirty
    BY <1>0 DEF Blank
  <2> QED BY <1>6, <2>1, <2>2, <2>3, <2>4, <2>5, KeepsVoters DEF CommitVote, VoteLabels
<1>7. CASE PublishConfirmed(c)
  <2>1. mem' = [mem EXCEPT ![c] = mem[c]]
    BY <1>7 DEF PublishConfirmed, IInv, TypeOK
  <2> QED BY <1>0, <1>7, <2>1, QuietKeepsVoters DEF PublishConfirmed, VoteLabels
<1>8. CASE PublishInvalidate(c) \/ PublishCancelled(c) \/ AnswerClosed(c)
  BY <1>8, ReplyKeepsVoters DEF PublishInvalidate, PublishCancelled, AnswerClosed, Done
<1>9. CASE Cancel(c)
  <2> DEFINE m == [mem[c] EXCEPT !.ent = Reopened(row), !.seen = players]
  <2>1. CASE Reply(c, "rejected")
    BY <1>9, <2>1, ReplyKeepsVoters DEF Cancel, Done
  <2>2. CASE pc' = [pc EXCEPT ![c] = "clear"] /\ mem' = [mem EXCEPT ![c] = m]
    <3>1. m.dirty = mem[c].dirty
      BY <1>0 DEF Memory
    <3> QED BY <1>0, <1>9, <2>2, <3>1, QuietKeepsVoters DEF Cancel, VoteLabels
  <2> QED BY <1>9, <2>1, <2>2 DEF Cancel
<1>10. CASE ClearVotes(c)
  <2>1. mem' = [mem EXCEPT ![c] = mem[c]] /\ row' # NoRow
    BY <1>10 DEF ClearVotes, IInv, TypeOK, VotersInv
  <2>2. Registered(players') = Registered(players)
    BY <1>10 DEF ClearVotes, Registered
  <2> QED BY <1>0, <1>10, <2>1, <2>2, KeepsVoters DEF ClearVotes, VoteLabels
<1> QED BY <1>1, <1>2, <1>3, <1>4, <1>5, <1>6, <1>7, <1>8, <1>9, <1>10
    DEF ConfirmationServiceStep

LEMMA AdminOverrideServiceKeepsVoters ==
  ASSUME IInv, VotersInv, NoDeletion, NEW c \in Clients, AdminOverrideServiceStep(c)
  PROVE  VotersInv'
<1> USE DEF At, Goto, Remember, store
<1>0. mem[c] \in Memory /\ call[c].op \notin DeletionCalls /\ "insert" \notin mem[c].dirty
  BY RequestFacts DEF AdminOverrideServiceStep, OverrideResult, OverrideWrite, PublishAudit,
     PublishOverridden, CommitOverride, AnswerOverride, DeleteMatch, AuditDelete,
     Done, NoDeletion, IInv, Called, VotersInv
<1>1. CASE OverrideResult(c)
  <2> DEFINE m == [mem[c] EXCEPT !.ent = [row EXCEPT !.result = call[c].result],
                                 !.seen = players, !.before = row.result,
                                 !.since = Len(audit)]
  <2>1. CASE Reply(c, "rejected")
    BY <1>1, <2>1, ReplyKeepsVoters DEF OverrideResult, Done
  <2>2. CASE pc' = [pc EXCEPT ![c] = "connect"] /\ mem' = [mem EXCEPT ![c] = m]
    <3>1. m.dirty = mem[c].dirty
      BY <1>0 DEF Memory
    <3> QED BY <1>0, <1>1, <2>2, <3>1, QuietKeepsVoters DEF OverrideResult, VoteLabels
  <2> QED BY <1>1, <2>1, <2>2 DEF OverrideResult, BeforeData
<1>2. CASE OverrideWrite(c) \/ PublishAudit(c) \/ PublishOverridden(c)
  <2>1. mem' = [mem EXCEPT ![c] = mem[c]]
    BY <1>2 DEF OverrideWrite, PublishAudit, PublishOverridden, IInv, TypeOK
  <2> QED BY <1>0, <1>2, <2>1, QuietKeepsVoters
      DEF OverrideWrite, PublishAudit, PublishOverridden, VoteLabels
<1>3. CASE CommitOverride(c)
  <2>0. mem[c].ent \in Rows /\ row \in Rows \cup {NoRow} /\ row # NoRow
    BY <1>3, RequestFacts DEF CommitOverride, Done, HasEntity, VotersInv, IInv, TypeOK
  <2>1. row' # NoRow
    BY <1>0, <1>3, <2>0, OverwriteType, SentinelAssumption DEF CommitOverride
  <2>2. players' = players /\ Registered(players') = Registered(players)
    BY <1>0, <1>3 DEF CommitOverride, Cascaded, Registered
  <2>3. mem' = [mem EXCEPT ![c] = mem[c]]
    BY <1>3 DEF CommitOverride, IInv, TypeOK
  <2> QED BY <1>0, <1>3, <2>1, <2>2, <2>3, KeepsVoters
      DEF CommitOverride, VoteLabels, VotersInv, VotersArePlayers
<1>4. CASE AnswerOverride(c)
  BY <1>4, ReplyKeepsVoters DEF AnswerOverride, Done
<1>5. CASE DeleteMatch(c) \/ AuditDelete(c)
  BY <1>0, <1>5 DEF DeleteMatch, AuditDelete, DeletionCalls
<1> QED BY <1>1, <1>2, <1>3, <1>4, <1>5 DEF AdminOverrideServiceStep

LEMMA SaveKeepsVoters ==
  ASSUME IInv, VotersInv, NEW c \in Clients,
         SaveRead(c) \/ SaveOrphans(c) \/ SaveWrite(c) \/ SaveDuplicate(c)
  PROVE  VotersInv'
<1> USE DEF Goto, Remember, store
<1>0. /\ mem[c] \in Memory /\ mem[c].ent \in Rows /\ "insert" \notin mem[c].dirty
      /\ row \in Rows \cup {NoRow} /\ row # NoRow
  BY RequestFacts
  DEF SaveRead, SaveOrphans, SaveWrite, SaveDuplicate, Done, HasEntity, VotersInv, IInv, TypeOK
<1>1. CASE SaveRead(c)
  <2> DEFINE m == [mem[c] EXCEPT !.dirty = Dirty(mem[c].ent)]
  <2>1. "insert" \notin m.dirty
    BY <1>0 DEF Memory, Dirty, Differing, Sides
  <2> QED BY <1>1, <2>1, QuietKeepsVoters DEF SaveRead, VoteLabels
<1>2. CASE SaveWrite(c)
  <2>1. row' # NoRow
    BY <1>0, <1>2, OverwriteType, SentinelAssumption DEF SaveWrite
  <2>2. players' = players /\ Registered(players') = Registered(players)
    BY <1>0, <1>2 DEF SaveWrite, Cascaded, Registered
  <2>3. PICK l \in {"publish", "ok"}, m \in {mem[c], Blank} :
          pc' = [pc EXCEPT ![c] = l] /\ mem' = [mem EXCEPT ![c] = m]
    BY <1>2 DEF SaveWrite, AfterSave, Reply, IInv, TypeOK
  <2>4. "insert" \notin m.dirty
    BY <1>0 DEF Blank
  <2> QED BY <1>2, <2>1, <2>2, <2>3, <2>4, KeepsVoters
      DEF SaveWrite, VoteLabels, VotersInv, VotersArePlayers
<1>3. CASE SaveDuplicate(c)
  BY <1>3, ReplyKeepsVoters DEF SaveDuplicate, Done
<1>4. CASE SaveOrphans(c)
  BY <1>4, ReplyKeepsVoters DEF SaveOrphans, Done
<1> QED BY <1>1, <1>2, <1>3, <1>4

LEMMA ConnectKeepsVoters ==
  ASSUME IInv, VotersInv, NEW c \in Clients, Connect(c)
  PROVE  VotersInv'
<1> DEFINE l == IF call[c].op = "confirm" THEN "lock" ELSE "save"
<1>1. /\ pc' = [pc EXCEPT ![c] = l] /\ mem' = [mem EXCEPT ![c] = mem[c]]
      /\ "insert" \notin mem[c].dirty /\ l # "delete"
  BY DEF Connect, Goto, IInv, TypeOK, VotersInv
<1>2. l \in {"connect", "lock"} \cup VoteLabels /\ call[c].op = "confirm" =>
        call[c].user \in Registered(players)
  BY DEF Connect, VotersInv
<1> QED BY <1>1, <1>2, QuietKeepsVoters DEF Connect, store

LEMMA NextKeepsVoters == NoDeletion /\ IInv /\ VotersInv /\ [Next]_vars => VotersInv'
<1> SUFFICES ASSUME NoDeletion, IInv, VotersInv, [Next]_vars PROVE VotersInv'
  OBVIOUS
<1>1. ASSUME NEW c \in Clients, Arrive(c) PROVE VotersInv'
  <2>1. PICK k \in Workload[c] : call' = [call EXCEPT ![c] = k]
    BY <1>1 DEF Arrive
  <2>2. /\ pc' = [pc EXCEPT ![c] = "find"]
        /\ UNCHANGED <<row, players, votes, mem>>
    BY <1>1 DEF Arrive, Goto, store
  <2>3. VotersArePlayers'
    BY <2>2 DEF VotersInv, VotersArePlayers, Registered
  <2>4. Registered(players)' = Registered(players)
    BY <2>2 DEF Registered
  <2> QED BY <2>1, <2>2, <2>3, <2>4 DEF VotersInv, VoteLabels, IInv, TypeOK
<1>2. ASSUME NEW c \in Clients, Step(c) PROVE VotersInv'
  BY <1>2, MatchServiceKeepsVoters, ConfirmationServiceKeepsVoters,
     AdminOverrideServiceKeepsVoters, SaveKeepsVoters, ConnectKeepsVoters DEF Step
<1>3. ASSUME NEW c \in Clients, Fail(c) PROVE VotersInv'
  BY <1>3, ReplyKeepsVoters DEF Fail, Done
<1>4. CASE UNCHANGED vars
  BY <1>4 DEF vars, VotersInv, VotersArePlayers, Registered
<1> QED BY <1>1, <1>2, <1>3, <1>4 DEF Next, Finished

LEMMA VotersInvariance == ASSUME NoDeletion PROVE Spec => []VotersInv
<1>1. Init => VotersInv
  BY StartAssumption, SentinelAssumption
  DEF Init, VotersInv, VotersArePlayers, Blank, VoteLabels
<1>2. IInv /\ VotersInv /\ [Next]_vars => VotersInv'
  BY NextKeepsVoters
<1> QED BY <1>1, <1>2, Invariance, PTL DEF Spec

\* As long as nobody deletes the match, every vote kept is a registered player's, although
\* the player check, the vote and the registrations are steps of different requests
\* (confirmation.service.ts:92-99, 136-139; match.service.ts:142-150).
THEOREM Voters == ASSUME NoDeletion PROVE Spec => []VotersArePlayers
<1>1. VotersInv => VotersArePlayers
  BY DEF VotersInv
<1> QED BY <1>1, VotersInvariance, PTL

-----------------------------------------------------------------------------
(* The quorum is committed once, whatever the workload. *)

\* The requests that committed a quorum and have not told the queue yet.
Publishing == {c \in Clients : At(c, "publish", "confirm")}

\* Each announcement answers a commit of its own: those made and those still to be made
\* are not more than the quorums committed.
Announcements ==
  /\ IsFiniteSet(Publishing)
  /\ published["match.confirmed"] + Cardinality(Publishing) <= quorums

\* What a step other than the two that concern a quorum leaves alone.
Unannounced(c) ==
  /\ quorums' = quorums /\ call' = call
  /\ published'["match.confirmed"] = published["match.confirmed"]
  /\ \E l : pc' = [pc EXCEPT ![c] = l] /\ (l = "publish" => call[c].op # "confirm")

LEMMA OtherJobs ==
  ASSUME IInv, NEW job \in Jobs \ {"match.confirmed"}, Publish(job)
  PROVE  published'["match.confirmed"] = published["match.confirmed"]
  BY DEF Publish, IInv, TypeOK, Jobs

LEMMA OtherSteps ==
  ASSUME IInv, NEW c \in Clients, Step(c) \/ Fail(c)
  PROVE  \/ Unannounced(c)
         \/ CommitVote(c) /\ QuorumReached(c)
         \/ PublishConfirmed(c)
<1> USE DEF Goto, Reply, Unannounced, At
<1>1. CASE MatchServiceStep(c)
  <2>1. CASE PublishSubmitted(c)
    BY <2>1, OtherJobs DEF PublishSubmitted, Jobs
  <2>2. CASE ~PublishSubmitted(c)
    BY <1>1, <2>2
    DEF MatchServiceStep, Rejected, Refuse, Update, AddPlayers, CheckPlayers, InsertPlayers,
        RereadPlayers, SubmitResult, CheckComplete, FindToDelete, DeleteRow
  <2> QED BY <2>1, <2>2
<1>2. CASE ConfirmationServiceStep(c)
  <2>1. CASE PublishInvalidate(c) \/ PublishCancelled(c)
    BY <2>1, OtherJobs DEF PublishInvalidate, PublishCancelled, Jobs
  <2>2. CASE CommitVote(c) /\ ~QuorumReached(c)
    BY <2>2 DEF CommitVote
  <2>3. CASE Confirm(c) \/ FindVoter(c) \/ LockRow(c) \/ AnswerClosed(c) \/ ReadVotes(c) \/ CastVote(c)
    BY <2>3 DEF Confirm, FindVoter, LockRow, AnswerClosed, ReadVotes, CastVote
  <2>4. CASE Cancel(c) \/ ClearVotes(c)
    BY <2>4 DEF Cancel, ClearVotes
  <2> QED BY <1>2, <2>1, <2>2, <2>3, <2>4 DEF ConfirmationServiceStep
<1>3. CASE AdminOverrideServiceStep(c)
  <2>1. CASE PublishAudit(c) \/ PublishOverridden(c)
    BY <2>1, OtherJobs DEF PublishAudit, PublishOverridden, Jobs
  <2>2. CASE OverrideResult(c) \/ OverrideWrite(c) \/ CommitOverride(c) \/ AnswerOverride(c)
    BY <2>2 DEF OverrideResult, OverrideWrite, CommitOverride, AnswerOverride
  <2>3. CASE DeleteMatch(c) \/ AuditDelete(c)
    BY <2>3 DEF DeleteMatch, AuditDelete
  <2> QED BY <1>3, <2>1, <2>2, <2>3 DEF AdminOverrideServiceStep
<1>4. CASE Connect(c) \/ SaveRead(c) \/ SaveOrphans(c) \/ SaveWrite(c) \/ SaveDuplicate(c)
  BY <1>4 DEF Connect, SaveRead, SaveOrphans, SaveWrite, SaveDuplicate, AfterSave
<1>5. CASE Fail(c)
  <2>1. pc' = [pc EXCEPT ![c] = "error"] /\ published' = published /\ quorums' = quorums /\ call' = call
    BY <1>5 DEF Fail
  <2>2. \E l : pc' = [pc EXCEPT ![c] = l] /\ (l = "publish" => call[c].op # "confirm")
    <3> WITNESS "error"
    <3> QED BY <2>1
  <2> QED BY <2>1, <2>2
<1> QED BY <1>1, <1>2, <1>3, <1>4, <1>5 DEF Step

LEMMA NextKeepsAnnouncements ==
  ASSUME IInv, Announcements, [Next]_vars
  PROVE  Announcements'
<1> USE DEF Announcements
<1>0. /\ Cardinality(Publishing) \in Nat /\ quorums \in Nat
      /\ published["match.confirmed"] \in Nat
  BY FS_CardinalityType DEF IInv, TypeOK, Jobs
<1>1. ASSUME NEW c \in Clients, Step(c) \/ Fail(c)
      PROVE  Announcements'
  <2>1. CASE Unannounced(c)
    <3>1. Publishing' \in SUBSET Publishing
      BY <2>1 DEF Unannounced, Publishing, At, IInv, TypeOK
    <3>2. IsFiniteSet(Publishing') /\ Cardinality(Publishing') <= Cardinality(Publishing)
      BY <3>1, FS_Subset
    <3>3. Cardinality(Publishing') \in Nat
      BY <3>2, FS_CardinalityType
    <3> QED BY <1>0, <2>1, <3>2, <3>3 DEF Unannounced
  <2>2. CASE CommitVote(c) /\ QuorumReached(c)
    <3>1. Publishing' = Publishing \cup {c}
      BY <2>2 DEF CommitVote, Publishing, At, Goto, IInv, TypeOK
    <3>2. quorums' = quorums + 1 /\ published' = published
      BY <2>2 DEF CommitVote
    <3>3. /\ IsFiniteSet(Publishing')
          /\ Cardinality(Publishing') \in {Cardinality(Publishing), Cardinality(Publishing) + 1}
      BY <3>1, FS_AddElement
    <3> QED BY <1>0, <3>2, <3>3
  <2>3. CASE PublishConfirmed(c)
    <3>1. Publishing' = Publishing \ {c} /\ c \in Publishing
      BY <2>3 DEF PublishConfirmed, Publishing, At, Goto, IInv, TypeOK
    <3>2. /\ quorums' = quorums
          /\ published'["match.confirmed"] = published["match.confirmed"] + 1
      BY <2>3 DEF PublishConfirmed, Publish, IInv, TypeOK, Jobs
    <3>3. IsFiniteSet(Publishing') /\ Cardinality(Publishing') = Cardinality(Publishing) - 1
      BY <3>1, FS_RemoveElement
    <3> QED BY <1>0, <3>2, <3>3
  <2> QED BY <1>1, <2>1, <2>2, <2>3, OtherSteps
<1>2. ASSUME NEW c \in Clients, Arrive(c)
      PROVE  Announcements'
  <2>1. Publishing' = Publishing
    BY <1>2 DEF Arrive, Publishing, At, Goto, Done, IInv, TypeOK
  <2> QED BY <1>2, <2>1 DEF Arrive
<1>3. CASE UNCHANGED vars
  BY <1>3 DEF vars, Publishing, At
<1> QED BY <1>1, <1>2, <1>3 DEF Next, Finished

\* Only a vote that reaches the quorum counts one, and it holds the row it found open.
LEMMA QuorumStep ==
  ASSUME IInv, Announcements, [Next]_vars, quorums' # quorums
  PROVE  Awaiting(row) /\ Confirmed(row') /\ published["match.confirmed"] <= quorums
<1>1. PICK c \in Clients : CommitVote(c) /\ QuorumReached(c)
  <2>1. ASSUME NEW c \in Clients, Step(c) \/ Fail(c)
        PROVE  CommitVote(c) /\ QuorumReached(c)
    BY <2>1, OtherSteps DEF Unannounced, PublishConfirmed
  <2> QED BY <2>1 DEF Next, Arrive, Finished, vars
<1>2. Awaiting(row) /\ row = mem[c].ent
  BY <1>1, SentinelAssumption DEF CommitVote, At, InVote, IInv, LockedRoundStable, TypeOK, Done, Called
<1>3. row' = [row EXCEPT !.status = "confirmed", !.confirmedAt = TRUE] /\ row \in Rows
  BY <1>1, <1>2 DEF CommitVote, Awaiting, IInv, TypeOK
<1>4. Confirmed(row')
  <2>1. row' \in Rows /\ row'.status = "confirmed"
    BY <1>3, RowEdits DEF Rows, Statuses
  <2> QED BY <2>1, SentinelAssumption DEF Confirmed
<1>5. Cardinality(Publishing) \in Nat /\ published["match.confirmed"] \in Nat /\ quorums \in Nat
  BY FS_CardinalityType DEF Announcements, IInv, TypeOK, Jobs
<1> QED BY <1>2, <1>4, <1>5 DEF Announcements

\* Two votes that complete a quorum together do not both commit it, and its event is not
\* published more often than it was committed, whoever calls whatever meanwhile
\* (confirmation.service.ts:101-153, 169).
THEOREM CommittedOnce == Spec => QuorumCommittedOnce
<1>1. Init => Announcements
  <2>1. Init => Publishing = {}
    BY DEF Init, Publishing, At
  <2>2. Init => published["match.confirmed"] = 0 /\ quorums = 0
    BY DEF Init, Jobs
  <2> QED BY <2>1, <2>2, FS_EmptySet DEF Announcements
<1>2. IInv /\ Announcements /\ [Next]_vars => Announcements'
  BY NextKeepsAnnouncements
<1>3. IInv /\ Announcements /\ [Next]_vars =>
        [quorums' # quorums =>
           /\ Awaiting(row) /\ Confirmed(row')
           /\ published["match.confirmed"] <= quorums]_vars
  BY QuorumStep
<1> QED BY <1>1, <1>2, <1>3, Invariance, PTL DEF Spec, QuorumCommittedOnce
-----------------------------------------------------------------------------
(* The capacity is kept if one session registers the players: the run capacity_race has two. *)

\* Calls of these operations, when their caller is one of these users, come from one session.
OneSession(ops, callers) ==
  \A c, d \in Clients : \A k \in Workload[c], l \in Workload[d] :
    k.op \in ops /\ l.op \in ops /\ k.user \in callers /\ l.user \in callers => c = d

OneRegistrar == OneSession({"addPlayers"}, {Creator})

\* A registration past its check still fits: nobody else adds players.
SeatsInv ==
  /\ CapacityRespected
  /\ \A c \in Clients : call[c].op = "addPlayers" =>
       /\ pc[c] \in {"players", "insert"} => call[c].user = Creator
       /\ pc[c] = "insert" => Fits(players, call[c].players)

LEMMA RegisteredFinite ==
  ASSUME NEW p \in Rosters
  PROVE  IsFiniteSet(Registered(p)) /\ Cardinality(Registered(p)) \in Nat
<1>1. Registered(p) \in SUBSET Users
  BY DEF Registered
<1> QED BY <1>1, FS_Subset, FS_CardinalityType, ParameterAssumption

\* Seating the players of a request adds at most as many.
LEMMA SeatedAdds ==
  ASSUME NEW old \in Rosters, NEW dto \in Rosters, Fits(old, dto)
  PROVE  Cardinality(Registered(Seated(old, dto))) <= Capacity
<1>1. Seated(old, dto) \in Rosters
  BY DEF Seated, Rosters
<1>2. Registered(Seated(old, dto)) \in SUBSET (Registered(old) \cup Registered(dto))
  BY DEF Registered, Seated, Rosters
<1>3. /\ IsFiniteSet(Registered(old)) /\ IsFiniteSet(Registered(dto))
      /\ Cardinality(Registered(old)) \in Nat /\ Cardinality(Registered(dto)) \in Nat
      /\ Cardinality(Registered(Seated(old, dto))) \in Nat
  BY <1>1, RegisteredFinite
<1>4. /\ IsFiniteSet(Registered(old) \cup Registered(dto))
      /\ Cardinality(Registered(old) \cup Registered(dto)) =
           Cardinality(Registered(old)) + Cardinality(Registered(dto))
             - Cardinality(Registered(old) \cap Registered(dto))
  BY <1>3, FS_Union
<1>5. Cardinality(Registered(old) \cap Registered(dto)) \in Nat
  BY <1>3, FS_Intersection, FS_CardinalityType
<1>6. /\ Cardinality(Registered(Seated(old, dto))) <= Cardinality(Registered(old) \cup Registered(dto))
      /\ Cardinality(Registered(old) \cup Registered(dto)) \in Nat
  BY <1>2, <1>4, FS_Subset, FS_CardinalityType
<1> QED BY <1>3, <1>4, <1>5, <1>6, ParameterAssumption DEF Fits

\* Every step but the INSERT of players leaves the seats as they are, and passes on to the
\* INSERT only what fits.
SeatsKept(c) ==
  /\ players' = players /\ call' = call
  /\ \E l : /\ pc' = [pc EXCEPT ![c] = l]
            /\ call[c].op = "addPlayers" /\ l = "players" => call[c].user = Creator
            /\ call[c].op = "addPlayers" /\ l = "insert" =>
                 pc[c] = "players" /\ Fits(players, call[c].players)

LEMMA SeatsOtherSteps ==
  ASSUME IInv, VotersInv, NoDeletion, NEW c \in Clients, Step(c) \/ Fail(c)
  PROVE  SeatsKept(c) \/ InsertPlayers(c)
<1> USE DEF Goto, SeatsKept, At, store
<1>1. CASE \E out \in Done : Reply(c, out) /\ players' = players /\ call' = call
  BY <1>1 DEF Reply, Done
<1>2. CASE MatchServiceStep(c)
  <2>1. CASE Rejected(c) \/ PublishSubmitted(c)
    BY <1>1, <2>1 DEF Rejected, Refuse, PublishSubmitted, Done
  <2>2. CASE Update(c) \/ AddPlayers(c) \/ SubmitResult(c)
    BY <2>2 DEF Update, AddPlayers, SubmitResult, MayEdit
  <2>3. CASE CheckPlayers(c)
    BY <1>1, <2>3 DEF CheckPlayers, Done
  <2>4. CASE RereadPlayers(c) \/ CheckComplete(c)
    BY <1>1, <2>4 DEF RereadPlayers, CheckComplete, Done
  <2>5. CASE FindToDelete(c)
    BY <1>1, <2>5 DEF FindToDelete, Done
  <2>6. ~DeleteRow(c)
    BY DEF DeleteRow, VotersInv
  <2> QED BY <1>2, <2>1, <2>2, <2>3, <2>4, <2>5, <2>6 DEF MatchServiceStep
<1>3. CASE ConfirmationServiceStep(c)
  <2>1. CASE Confirm(c) \/ FindVoter(c) \/ LockRow(c) \/ AnswerClosed(c) \/ ReadVotes(c) \/ CastVote(c)
    BY <1>1, <2>1 DEF Confirm, FindVoter, LockRow, AnswerClosed, ReadVotes, CastVote, Done
  <2>2. CASE CommitVote(c) \/ PublishConfirmed(c) \/ PublishInvalidate(c)
    BY <1>1, <2>2 DEF CommitVote, PublishConfirmed, PublishInvalidate, Done
  <2>3. CASE Cancel(c) \/ ClearVotes(c) \/ PublishCancelled(c)
    BY <1>1, <2>3 DEF Cancel, ClearVotes, PublishCancelled, Done
  <2> QED BY <1>3, <2>1, <2>2, <2>3 DEF ConfirmationServiceStep
<1>4. CASE AdminOverrideServiceStep(c)
  <2>1. CASE CommitOverride(c)
    BY <2>1 DEF CommitOverride, Cascaded, VotersInv
  <2>2. CASE OverrideResult(c) \/ OverrideWrite(c) \/ PublishAudit(c) \/ PublishOverridden(c)
    BY <1>1, <2>2 DEF OverrideResult, OverrideWrite, PublishAudit, PublishOverridden, Done
  <2>3. CASE AnswerOverride(c) \/ DeleteMatch(c) \/ AuditDelete(c)
    BY <1>1, <2>3 DEF AnswerOverride, DeleteMatch, AuditDelete, Done
  <2> QED BY <1>4, <2>1, <2>2, <2>3 DEF AdminOverrideServiceStep
<1>5. CASE Connect(c) \/ SaveRead(c) \/ SaveOrphans(c) \/ SaveDuplicate(c)
  BY <1>1, <1>5 DEF Connect, SaveRead, SaveOrphans, SaveDuplicate, Done
<1>6. CASE SaveWrite(c)
  <2>1. players' = players /\ call' = call
    BY <1>6 DEF SaveWrite, Cascaded, VotersInv
  <2> QED BY <1>1, <1>6, <2>1 DEF SaveWrite, AfterSave, Done
<1>7. CASE Fail(c)
  BY <1>1, <1>7 DEF Fail, Done
<1> QED BY <1>2, <1>3, <1>4, <1>5, <1>6, <1>7 DEF Step

LEMMA NextKeepsSeats ==
  ASSUME NoDeletion, OneRegistrar, IInv, VotersInv, SeatsInv, [Next]_vars
  PROVE  SeatsInv'
<1> USE DEF SeatsInv
<1>1. ASSUME NEW c \in Clients, Step(c) \/ Fail(c)
      PROVE  SeatsInv'
  <2>1. CASE SeatsKept(c)
    <3>1. CapacityRespected'
      BY <2>1 DEF SeatsKept, CapacityRespected, Registered
    <3>2. ASSUME NEW d \in Clients, call'[d].op = "addPlayers"
          PROVE  /\ pc'[d] \in {"players", "insert"} => call'[d].user = Creator
                 /\ pc'[d] = "insert" => Fits(players', call'[d].players)
      BY <2>1, <3>2 DEF SeatsKept, IInv, TypeOK
    <3> QED BY <3>1, <3>2 DEF Fits, Registered
  <2>2. CASE InsertPlayers(c)
    <3>1. /\ At(c, "insert", "addPlayers") /\ Fits(players, call[c].players)
          /\ call[c].user = Creator /\ call[c] \in Workload[c]
      BY <2>2 DEF InsertPlayers, At, IInv, Called, Done
    <3>2. players \in Rosters /\ call[c].players \in Rosters /\ Cardinality(Registered(players)) <= Capacity
      BY <3>1, CallType, CallFacts DEF IInv, TypeOK, CapacityRespected
    <3>3. players' = players \/ players' = Seated(players, call[c].players)
      BY <2>2 DEF InsertPlayers
    <3>4. Cardinality(Registered(players')) <= Capacity
      BY <3>1, <3>2, <3>3, SeatedAdds
    <3>5. call' = call /\ \E l \in {"reread", "error"} : pc' = [pc EXCEPT ![c] = l]
      BY <2>2 DEF InsertPlayers, Goto, Reply
    <3>6. ASSUME NEW d \in Clients, call'[d].op = "addPlayers", pc'[d] \in {"players", "insert"}
          PROVE  d # c /\ call'[d].user = Creator /\ pc[d] = pc'[d]
      BY <3>5, <3>6 DEF IInv, TypeOK
    <3>7. ASSUME NEW d \in Clients, call'[d].op = "addPlayers", pc'[d] = "insert"
          PROVE  FALSE
      <4>1. d # c /\ call[d].user = Creator /\ call[d].op = "addPlayers" /\ pc[d] = "insert"
        BY <3>5, <3>6, <3>7
      <4>2. call[d] \in Workload[d]
        BY <4>1 DEF IInv, Called, Done
      <4> QED BY <3>1, <4>1, <4>2 DEF OneRegistrar, OneSession, At
    <3>8. CapacityRespected'
      BY <3>4 DEF CapacityRespected, Registered
    <3> QED BY <3>6, <3>7, <3>8
  <2> QED BY <1>1, <2>1, <2>2, SeatsOtherSteps
<1>2. ASSUME NEW c \in Clients, Arrive(c)
      PROVE  SeatsInv'
  <2>1. players' = players /\ pc' = [pc EXCEPT ![c] = "find"]
    BY <1>2 DEF Arrive, store, Goto
  <2>2. \A d \in Clients \ {c} : call'[d] = call[d] /\ pc'[d] = pc[d]
    BY <1>2, <2>1 DEF Arrive, IInv, TypeOK
  <2>3. pc'[c] = "find"
    BY <2>1 DEF IInv, TypeOK
  <2>4. CapacityRespected'
    BY <2>1 DEF CapacityRespected, Registered
  <2> QED BY <2>1, <2>2, <2>3, <2>4 DEF Fits, Registered
<1>3. CASE UNCHANGED vars
  BY <1>3 DEF vars, CapacityRespected, Fits, Registered
<1> QED BY <1>1, <1>2, <1>3 DEF Next, Finished

LEMMA SeatsInvariance == ASSUME NoDeletion, OneRegistrar PROVE Spec => []SeatsInv
<1>1. Init => SeatsInv
  BY StartAssumption DEF Init, SeatsInv, CapacityRespected
<1>2. IInv /\ VotersInv /\ SeatsInv /\ [Next]_vars => SeatsInv'
  BY NextKeepsSeats
<1> QED BY <1>1, <1>2, VotersInvariance, Invariance, PTL DEF Spec

\* "Total players must not exceed capacity" (docs/API.md:426): true of every interleaving,
\* if the creator registers from one session and nobody deletes the match. The check and
\* the INSERT are two steps (match.service.ts:122-150).
THEOREM Capacious == ASSUME NoDeletion, OneRegistrar PROVE Spec => []CapacityRespected
<1>1. SeatsInv => CapacityRespected
  BY DEF SeatsInv
<1> QED BY <1>1, SeatsInvariance, PTL
=============================================================================
