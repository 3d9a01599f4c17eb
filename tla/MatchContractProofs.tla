------------------------- MODULE MatchContractProofs -------------------------
(***************************************************************************)
(* Under which discipline of the callers the three services keep what the  *)
(* API promises of a match (MatchContract), for any number of sessions,    *)
(* users, results and requests.                                            *)
(*                                                                         *)
(* The handlers work on what they loaded before their awaits.  Sound says  *)
(* what is still true of it when they act, as long as the creator edits    *)
(* from one session and nobody cancels a round or deletes the match: the   *)
(* run cancel_race shows one thing a cancellation does, and the run        *)
(* capacity_race one thing a second editing session does.                  *)
(***************************************************************************)
EXTENDS MatchesProofs

\* The discipline.
Edits == {"addPlayers", "update", "submitResult"}
NoCancellation == \A c \in Clients : \A k \in Workload[c] : k.op # "cancel"
OneEditor == OneSession(Edits, {Creator})
Disciplined == NoDeletion /\ NoCancellation /\ OneEditor

\* The requests that hold something they read of the match and will act on it.
Editing(l, k) == l \in {"players", "insert", "reread", "save", "write"} /\ k.op \in Edits
Casting(l, k) == l \in {"players", "connect", "lock", "snapshot", "vote", "commit"} /\ k.op = "confirm"
Overriding(l, k) ==
  /\ l \in {"connect", "save", "write", "audit", "invalidate", "commit"}
  /\ k.op = "overrideResult"
Saving(l) == l \in {"save", "write"}

\* An edit finds the match as it loaded it: it is the creator's only one, and nobody else
\* writes to a match that is not voted on.
EditSound(l, k, m) ==
  Editing(l, k) =>
    /\ k.user = Creator
    /\ row.status \in {"draft", "playing"}
    /\ ~Saving(l) => m.ent = row
    /\ Saving(l) /\ k.op = "update" => m.ent = [row EXCEPT !.result = Given(k.result, row.result)]
    /\ Saving(l) /\ k.op = "addPlayers" =>
         /\ m.ent = [row EXCEPT !.status = "playing"]
         /\ row.status = "draft" /\ Registered(players) # {}
    /\ Saving(l) /\ k.op = "submitResult" =>
         /\ m.ent = [row EXCEPT !.status = "awaiting_confirmation", !.result = k.result]
         /\ Complete(players)
    /\ l = "write" => m.dirty = Differing(row, m.ent)

\* The round a vote found is still the round, or is decided; and its snapshot is what the
\* votes are.
VoteSound(l, k, m) ==
  Casting(l, k) =>
    /\ row.status \in {"awaiting_confirmation", "confirmed"}
    /\ l # "players" => m.seen = players
    /\ l \in {"vote", "commit"} => m.snap = votes

\* An override rewrites the result of a match that stays confirmed, and nothing else.
OverrideSound(l, k, m) ==
  Overriding(l, k) =>
    /\ row.status = "confirmed"
    /\ m.ent = [row EXCEPT !.result = k.result]
    /\ l \notin {"connect", "save"} => m.dirty \subseteq Sides

Sound(l, k, m) ==
  /\ Saving(l) => k.op \in Edits \cup {"overrideResult"}
  /\ l = "connect" => k.op \in {"confirm", "overrideResult"}
  /\ EditSound(l, k, m) /\ VoteSound(l, k, m) /\ OverrideSound(l, k, m)

\* A round has a result, opens without votes and is open while the votes do not decide it.
RowSound ==
  /\ row.status \in {"draft", "playing"} => votes = {}
  /\ row.status \in {"awaiting_confirmation", "confirmed"} => row.result \in Results
  /\ row.status = "awaiting_confirmation" =>
       Cardinality(votes) < Quorum(Cardinality(Registered(players)))

ContractInv == RowSound /\ \A c \in Clients : Sound(pc[c], call[c], mem[c])

-----------------------------------------------------------------------------
\* A step that stores nothing keeps the invariant if what it remembers is sound.
StepsTo(c, l, m) == pc' = [pc EXCEPT ![c] = l] /\ mem' = [mem EXCEPT ![c] = m] /\ call' = call

LEMMA QuietIsSound ==
  ASSUME IInv, ContractInv, NEW c \in Clients, NEW l, NEW m, StepsTo(c, l, m),
         row' = row, players' = players, votes' = votes, Sound(l, call[c], m)
  PROVE  ContractInv'
<1>1. RowSound'
  BY DEF ContractInv, RowSound, Registered
<1>2. ASSUME NEW d \in Clients
      PROVE  Sound(pc[d], call[d], mem[d])'
  <2>1. Sound(pc'[d], call'[d], mem'[d])
    BY DEF StepsTo, ContractInv, IInv, TypeOK
  <2> QED BY <2>1 DEF Sound, EditSound, VoteSound, OverrideSound, Registered, Complete, Differing
<1> QED BY <1>1, <1>2 DEF ContractInv

\* A request that holds nothing is sound whatever the match.
LEMMA IdleIsSound ==
  ASSUME NEW l, NEW k, NEW m, ~Editing(l, k), ~Casting(l, k), ~Overriding(l, k), ~Saving(l),
         l # "connect"
  PROVE  Sound(l, k, m) /\ Sound(l, k, m)'
  BY DEF Sound, EditSound, VoteSound, OverrideSound

LEMMA ReplyIsSound ==
  ASSUME IInv, ContractInv, NEW c \in Clients, NEW out \in Done, Reply(c, out),
         UNCHANGED <<row, players, votes, call>>
  PROVE  ContractInv'
<1>1. StepsTo(c, out, Blank)
  BY DEF StepsTo, Reply, Goto, Remember
<1>2. Sound(out, call[c], Blank)
  BY IdleIsSound DEF Done, Editing, Casting, Overriding, Saving
<1> QED BY <1>1, <1>2, QuietIsSound

\* What TypeORM computes to differ is enough: the UPDATE leaves the entity.
LEMMA OverwriteLeavesEntity ==
  ASSUME NEW r \in Rows, NEW m, m.ent \in Rows, m.dirty = Differing(r, m.ent)
  PROVE  Overwrite(r, m) = m.ent /\ "insert" \notin m.dirty
<1>1. r # NoRow /\ "insert" \notin m.dirty
  BY SentinelAssumption DEF Differing, Sides
<1>2. [s \in Sides |-> IF s \in m.dirty THEN m.ent.result[s] ELSE r.result[s]] = m.ent.result
  BY DEF Differing, Rows, Pairs, Sides
<1>3. /\ "status" \in m.dirty <=> r.status # m.ent.status
      /\ "confirmedAt" \in m.dirty <=> r.confirmedAt # m.ent.confirmedAt
  BY DEF Differing, Sides
<1> QED BY <1>1, <1>2, <1>3 DEF Overwrite, Rows

\* Two edits in flight are one: the creator has one session for them.
LEMMA OneEdit ==
  ASSUME OneEditor, IInv, ContractInv, NEW c \in Clients, NEW d \in Clients,
         Editing(pc[c], call[c]), Editing(pc[d], call[d])
  PROVE  c = d
<1>1. /\ call[c] \in Workload[c] /\ call[d] \in Workload[d]
      /\ call[c].op \in Edits /\ call[d].op \in Edits
  BY DEF Editing, IInv, Called, Done
<1>2. call[c].user = Creator /\ call[d].user = Creator
  BY DEF ContractInv, Sound, EditSound
<1> QED BY <1>1, <1>2 DEF OneEditor, OneSession

\* While an edit is in flight no other request holds anything.
LEMMA EditsAlone ==
  ASSUME OneEditor, IInv, ContractInv, NEW c \in Clients, Editing(pc[c], call[c]),
         NEW d \in Clients \ {c}
  PROVE  /\ ~Editing(pc[d], call[d]) /\ ~Casting(pc[d], call[d]) /\ ~Overriding(pc[d], call[d])
         /\ ~Saving(pc[d])
<1>1. ~Editing(pc[d], call[d])
  BY OneEdit
<1>2. row.status \in {"draft", "playing"}
  BY DEF ContractInv, Sound, EditSound
<1> QED BY <1>1, <1>2 DEF ContractInv, Sound, VoteSound, OverrideSound, Saving, Editing, Overriding

\* The row while the invariant holds.
LEMMA RowThere ==
  ASSUME IInv, VotersInv
  PROVE  row \in Rows /\ players \in Rosters /\ votes \in SUBSET Users
  BY DEF IInv, TypeOK, VotersInv

-----------------------------------------------------------------------------
LEMMA MatchServiceIsSound ==
  ASSUME NoDeletion, OneEditor, IInv, VotersInv, ContractInv,
         NEW c \in Clients, MatchServiceStep(c)
  PROVE  ContractInv'
<1> USE DEF At, Goto, Remember, store, StepsTo
<1>0. /\ mem[c] \in Memory /\ call[c] \in Calls /\ call[c].op \notin DeletionCalls
      /\ Sound(pc[c], call[c], mem[c])
  BY RequestFacts DEF MatchServiceStep, Rejected, Update, AddPlayers, CheckPlayers, InsertPlayers,
     RereadPlayers, SubmitResult, CheckComplete, PublishSubmitted, FindToDelete, DeleteRow,
     Done, NoDeletion, IInv, Called, ContractInv
<1>00. mem' = [mem EXCEPT ![c] = mem[c]] <=> mem' = mem
  BY DEF IInv, TypeOK
<1>000. row \in Rows
  BY RowThere
<1>1. CASE Rejected(c) \/ PublishSubmitted(c)
  BY <1>1, ReplyIsSound DEF Rejected, Refuse, PublishSubmitted, Done
<1>2. CASE Update(c)
  <2> DEFINE m == [mem[c] EXCEPT !.ent = [row EXCEPT !.result = Given(call[c].result, @)],
                                 !.seen = players]
  <2>1. m.ent = [row EXCEPT !.result = Given(call[c].result, row.result)]
    BY <1>0, <1>000 DEF Memory, Rows
  <2>2. Sound("save", call[c], m)
    BY <1>2, <1>000, <2>1
    DEF Update, MayEdit, Locked, Rows, Statuses, Sound, EditSound, VoteSound, OverrideSound,
        Editing, Casting, Overriding, Saving, Edits
  <2> QED BY <1>2, <2>2, QuietIsSound DEF Update, Load
<1>3. CASE AddPlayers(c) \/ SubmitResult(c)
  <2> DEFINE m == [mem[c] EXCEPT !.ent = row, !.seen = players]
  <2>1. m.ent = row
    BY <1>0 DEF Memory
  <2>2. Sound("players", call[c], m)
    BY <1>3, <1>000, <2>1
    DEF AddPlayers, SubmitResult, MayEdit, Locked, Rows, Statuses, Sound, EditSound, VoteSound,
        OverrideSound, Editing, Casting, Overriding, Saving, Edits
  <2> QED BY <1>3, <2>2, QuietIsSound DEF AddPlayers, SubmitResult, Load
<1>4. CASE CheckPlayers(c)
  <2>1. CASE Reply(c, "rejected")
    BY <1>4, <2>1, ReplyIsSound DEF CheckPlayers, Done
  <2>2. CASE Goto(c, "insert") /\ UNCHANGED mem
    <3>1. Sound("insert", call[c], mem[c])
      BY <1>0, <1>4 DEF CheckPlayers, Sound, EditSound, VoteSound, OverrideSound, Editing, Casting,
         Overriding, Saving, Edits
    <3> QED BY <1>00, <1>4, <2>2, <3>1, QuietIsSound DEF CheckPlayers
  <2> QED BY <1>4, <2>1, <2>2 DEF CheckPlayers
<1>5. CASE InsertPlayers(c)
  <2>1. CASE Reply(c, "error") /\ UNCHANGED players
    BY <1>5, <2>1, ReplyIsSound DEF InsertPlayers, Done
  <2>2. CASE Goto(c, "reread") /\ UNCHANGED mem
    <3>0. Editing(pc[c], call[c]) /\ Editing("reread", call[c])
      BY <1>5 DEF InsertPlayers, Editing, Edits
    <3>1. row.status \in {"draft", "playing"} /\ mem[c].ent = row /\ call[c].user = Creator
      BY <1>0, <1>5, <3>0 DEF InsertPlayers, Sound, EditSound, Saving
    <3>2. row' = row /\ votes' = votes /\ call' = call /\ pc' = [pc EXCEPT ![c] = "reread"] /\ mem' = mem
      BY <1>5, <2>2 DEF InsertPlayers
    <3>3. RowSound'
      BY <3>1, <3>2 DEF RowSound, ContractInv
    <3>4. ASSUME NEW d \in Clients
          PROVE  Sound(pc[d], call[d], mem[d])'
      <4>1. CASE d = c
        <5>1. pc'[d] = "reread" /\ call'[d] = call[c] /\ mem'[d] = mem[c]
          BY <3>2, <4>1 DEF IInv, TypeOK
        <5> QED BY <1>5, <3>1, <3>2, <5>1
            DEF InsertPlayers, Sound, EditSound, VoteSound, OverrideSound, Editing, Casting,
                Overriding, Saving, Edits
      <4>2. CASE d # c
        <5>1. pc'[d] = pc[d] /\ call'[d] = call[d]
          BY <3>2, <4>2 DEF IInv, TypeOK
        <5>2. ~Editing(pc[d], call[d]) /\ ~Casting(pc[d], call[d]) /\ ~Overriding(pc[d], call[d])
              /\ ~Saving(pc[d])
          BY <3>0, <4>2, EditsAlone
        <5>3. pc[d] # "connect"
          BY <5>2 DEF ContractInv, Sound, Casting, Overriding
        <5> QED BY <5>1, <5>2, <5>3 DEF Sound, EditSound, VoteSound, OverrideSound, Editing, Casting,
               Overriding, Saving
      <4> QED BY <4>1, <4>2
    <3> QED BY <3>3, <3>4 DEF ContractInv
  <2> QED BY <1>5, <2>1, <2>2 DEF InsertPlayers
<1>6. CASE RereadPlayers(c)
  <2> DEFINE m == [mem[c] EXCEPT !.ent = [@ EXCEPT !.status = "playing"]]
  <2>1. CASE Reply(c, "ok")
    BY <1>6, <2>1, ReplyIsSound DEF RereadPlayers, Done
  <2>2. CASE /\ mem[c].ent.status = "draft" /\ Registered(players) # {}
             /\ Goto(c, "save") /\ Remember(c, m)
    <3>1. m.ent = [mem[c].ent EXCEPT !.status = "playing"]
      BY <1>0 DEF Memory
    <3>2. Sound("save", call[c], m)
      BY <1>0, <1>6, <2>2, <3>1
      DEF RereadPlayers, Sound, EditSound, VoteSound, OverrideSound, Editing, Casting,
          Overriding, Saving, Edits
    <3> QED BY <1>6, <2>2, <3>2, QuietIsSound DEF RereadPlayers
  <2> QED BY <1>6, <2>1, <2>2 DEF RereadPlayers
<1>7. CASE CheckComplete(c)
  <2> DEFINE m == [mem[c] EXCEPT !.ent =
                     [@ EXCEPT !.status = "awaiting_confirmation", !.result = call[c].result]]
  <2>1. CASE Reply(c, "rejected")
    BY <1>7, <2>1, ReplyIsSound DEF CheckComplete, Done
  <2>2. CASE Complete(players) /\ Goto(c, "save") /\ Remember(c, m)
    <3>1. m.ent = [mem[c].ent EXCEPT !.status = "awaiting_confirmation", !.result = call[c].result]
      BY <1>0 DEF Memory
    <3>2. Sound("save", call[c], m)
      BY <1>0, <1>7, <2>2, <3>1
      DEF CheckComplete, Sound, EditSound, VoteSound, OverrideSound, Editing, Casting,
          Overriding, Saving, Edits
    <3> QED BY <1>7, <2>2, <3>2, QuietIsSound DEF CheckComplete
  <2> QED BY <1>7, <2>1, <2>2 DEF CheckComplete
<1>8. CASE FindToDelete(c) \/ DeleteRow(c)
  BY <1>0, <1>8 DEF FindToDelete, DeleteRow, VotersInv, DeletionCalls
<1> QED BY <1>1, <1>2, <1>3, <1>4, <1>5, <1>6, <1>7, <1>8 DEF MatchServiceStep

LEMMA ConfirmationServiceIsSound ==
  ASSUME NoCancellation, IInv, VotersInv, ContractInv,
         NEW c \in Clients, ConfirmationServiceStep(c)
  PROVE  ContractInv'
<1> USE DEF At, Goto, Remember, store, StepsTo
<1>0. /\ mem[c] \in Memory /\ call[c] \in Calls /\ call[c].op # "cancel"
      /\ Sound(pc[c], call[c], mem[c])
  BY RequestFacts DEF ConfirmationServiceStep, Confirm, FindVoter, LockRow, ReadVotes, CastVote,
     CommitVote, PublishConfirmed, PublishInvalidate, Cancel, ClearVotes, PublishCancelled,
     AnswerClosed, Done, NoCancellation, IInv, Called, ContractInv
<1>00. mem' = [mem EXCEPT ![c] = mem[c]] <=> mem' = mem
  BY DEF IInv, TypeOK
<1>1. CASE Confirm(c)
  <2>1. CASE Reply(c, "rejected")
    BY <1>1, <2>1, ReplyIsSound DEF Confirm, Done
  <2>2. CASE Awaiting(row) /\ Goto(c, "players") /\ UNCHANGED mem
    <3>1. Sound("players", call[c], mem[c])
      BY <1>1, <2>2 DEF Confirm, Awaiting, Sound, EditSound, VoteSound, OverrideSound, Editing,
         Casting, Overriding, Saving, Edits
    <3> QED BY <1>00, <1>1, <2>2, <3>1, QuietIsSound DEF Confirm
  <2> QED BY <1>1, <2>1, <2>2 DEF Confirm
<1>2. CASE FindVoter(c)
  <2> DEFINE m == [mem[c] EXCEPT !.seen = players]
  <2>1. CASE Reply(c, "rejected")
    BY <1>2, <2>1, ReplyIsSound DEF FindVoter, Done
  <2>2. CASE Goto(c, "connect") /\ Remember(c, m)
    <3>1. m.seen = players
      BY <1>0 DEF Memory
    <3>2. Sound("connect", call[c], m)
      BY <1>0, <1>2, <3>1 DEF FindVoter, Sound, EditSound, VoteSound, OverrideSound, Editing,
         Casting, Overriding, Saving, Edits
    <3> QED BY <1>2, <2>2, <3>2, QuietIsSound DEF FindVoter
  <2> QED BY <1>2, <2>1, <2>2 DEF FindVoter
<1>3. CASE LockRow(c)
  <2> DEFINE m == [mem[c] EXCEPT !.ent = row]
  <2>1. CASE Goto(c, "reread") /\ UNCHANGED mem
    <3>1. Sound("reread", call[c], mem[c])
      BY <1>3, IdleIsSound DEF LockRow, Editing, Casting, Overriding, Saving, Edits
    <3> QED BY <1>00, <1>3, <2>1, <3>1, QuietIsSound DEF LockRow
  <2>2. CASE Goto(c, "snapshot") /\ Remember(c, m)
    <3>1. m.seen = mem[c].seen
      BY <1>0 DEF Memory
    <3>2. Sound("snapshot", call[c], m)
      BY <1>0, <1>3, <3>1 DEF LockRow, Sound, EditSound, VoteSound, OverrideSound, Editing,
         Casting, Overriding, Saving, Edits
    <3> QED BY <1>3, <2>2, <3>2, QuietIsSound DEF LockRow
  <2> QED BY <1>3, <2>1, <2>2 DEF LockRow
<1>4. CASE ReadVotes(c)
  <2> DEFINE m == [mem[c] EXCEPT !.snap = votes]
  <2>1. m.seen = mem[c].seen /\ m.snap = votes
    BY <1>0 DEF Memory
  <2>2. Sound("vote", call[c], m)
    BY <1>0, <1>4, <2>1 DEF ReadVotes, Sound, EditSound, VoteSound, OverrideSound, Editing,
       Casting, Overriding, Saving, Edits
  <2> QED BY <1>4, <2>2, QuietIsSound DEF ReadVotes
<1>5. CASE CastVote(c)
  <2>1. Sound("commit", call[c], mem[c])
    BY <1>0, <1>5 DEF CastVote, Sound, EditSound, VoteSound, OverrideSound, Editing,
       Casting, Overriding, Saving, Edits
  <2> QED BY <1>00, <1>5, <2>1, QuietIsSound DEF CastVote
<1>6. CASE CommitVote(c)
  <2>1. /\ lock = c /\ row.status = "awaiting_confirmation" /\ row = mem[c].ent /\ row \in Rows
        /\ mem[c].seen = players /\ mem[c].snap = votes /\ row.result \in Results
    BY <1>0, <1>6, SentinelAssumption
    DEF CommitVote, InVote, Awaiting, IInv, LockedRoundStable, TypeOK, Done, Called, Sound,
        VoteSound, Casting, ContractInv, RowSound
  <2>2. votes' = Counted(c) /\ players' = players /\ call' = call
    BY <1>6, <2>1 DEF CommitVote, Counted
  <2>3. \/ row' = row /\ ~QuorumReached(c)
        \/ row' = [row EXCEPT !.status = "confirmed", !.confirmedAt = TRUE]
    BY <1>6, <2>1 DEF CommitVote
  <2>4. row'.status \in {"awaiting_confirmation", "confirmed"} /\ row'.result = row.result
    BY <2>1, <2>3 DEF Rows
  <2>5. RowSound'
    <3>1. CASE row' = row /\ ~QuorumReached(c)
      <4>1. /\ IsFiniteSet(votes') /\ Cardinality(votes') \in Nat
            /\ Cardinality(Registered(players)) \in Nat
        <5>1. votes' \in SUBSET Users /\ players \in Rosters
          BY <1>0, <2>2, RowThere, CallFacts DEF Counted, Memory
        <5> QED BY <5>1, FS_Subset, FS_CardinalityType, RegisteredFinite, ParameterAssumption
      <4>2. Cardinality(votes') < Quorum(Cardinality(Registered(players)))
        BY <2>1, <2>2, <3>1, <4>1 DEF QuorumReached, Quorum
      <4> QED BY <2>1, <2>2, <3>1, <4>2 DEF RowSound, Registered, Quorum
    <3>2. CASE row' = [row EXCEPT !.status = "confirmed", !.confirmedAt = TRUE]
      <4>1. row'.status = "confirmed"
        BY <2>1, <3>2 DEF Rows
      <4> QED BY <2>1, <2>4, <4>1 DEF RowSound
    <3> QED BY <2>3, <3>1, <3>2
  <2>6. ASSUME NEW d \in Clients
        PROVE  Sound(pc[d], call[d], mem[d])'
    <3>1. CASE d = c
      <4>1. pc'[c] \in {"publish", "ok"} /\ call'[c].op = "confirm"
        BY <1>6 DEF CommitVote, Reply, IInv, TypeOK
      <4> QED BY <3>1, <4>1 DEF Sound, EditSound, VoteSound, OverrideSound, Editing,
               Casting, Overriding, Saving, Edits
    <3>2. CASE d # c
      <4>1. pc'[d] = pc[d] /\ call'[d] = call[d] /\ mem'[d] = mem[d]
        BY <1>6, <3>2 DEF CommitVote, Reply, IInv, TypeOK
      <4>2. Sound(pc[d], call[d], mem[d]) /\ ~Editing(pc[d], call[d]) /\ ~Overriding(pc[d], call[d])
        BY <2>1 DEF ContractInv, Sound, EditSound, OverrideSound
      <4>3. Casting(pc[d], call[d]) => pc[d] \notin {"vote", "commit"}
        BY <2>1, <3>2 DEF IInv, LockedRoundStable, InVote, Called, Casting, Done
      <4> QED BY <2>2, <2>4, <4>1, <4>2, <4>3
          DEF Sound, EditSound, VoteSound, OverrideSound, Editing, Casting, Overriding, Saving
    <3> QED BY <3>1, <3>2
  <2> QED BY <2>5, <2>6 DEF ContractInv
<1>7. CASE PublishConfirmed(c)
  <2>1. Sound("invalidate", call[c], mem[c])
    BY <1>7, IdleIsSound DEF PublishConfirmed, Editing, Casting, Overriding, Saving
  <2> QED BY <1>00, <1>7, <2>1, QuietIsSound DEF PublishConfirmed
<1>8. CASE PublishInvalidate(c) \/ PublishCancelled(c) \/ AnswerClosed(c)
  BY <1>8, ReplyIsSound DEF PublishInvalidate, PublishCancelled, AnswerClosed, Done
<1>9. CASE Cancel(c) \/ ClearVotes(c)
  BY <1>0, <1>9 DEF Cancel, ClearVotes
<1> QED BY <1>1, <1>2, <1>3, <1>4, <1>5, <1>6, <1>7, <1>8, <1>9 DEF ConfirmationServiceStep

\* The override's UPDATE changes the result or nothing.
LEMMA OverrideWrites ==
  ASSUME IInv, VotersInv, ContractInv, NEW c \in Clients, CommitOverride(c)
  PROVE  /\ row \in Rows /\ row.status = "confirmed" /\ row.result \in Results
         /\ call[c].result \in Results
         /\ row' = row \/ \E x \in Results : row' = [row EXCEPT !.result = x]
         /\ players' = players /\ votes' = votes
<1>1. /\ row.status = "confirmed" /\ row.result \in Results /\ row \in Rows
      /\ mem[c].ent = [row EXCEPT !.result = call[c].result] /\ mem[c].dirty \subseteq Sides
      /\ call[c].result \in Results
  BY RequestFacts, RowThere, CallFacts
  DEF CommitOverride, At, Done, ContractInv, Sound, OverrideSound, Overriding, RowSound
<1>2. row # NoRow /\ "insert" \notin mem[c].dirty
  BY <1>1, SentinelAssumption DEF Sides
<1> DEFINE x == [s \in Sides |-> IF s \in mem[c].dirty THEN mem[c].ent.result[s] ELSE row.result[s]]
<1>3. mem[c].ent.result = call[c].result
  BY <1>1 DEF Rows
<1>4. x \in Results
  BY <1>1, <1>3 DEF Results
<1>5. "status" \notin mem[c].dirty /\ "confirmedAt" \notin mem[c].dirty
  BY <1>1 DEF Sides
<1>6. Overwrite(row, mem[c]) = [row EXCEPT !.result = x]
  BY <1>1, <1>2, <1>5 DEF Overwrite, Rows
<1> HIDE DEF x
<1> QED BY <1>1, <1>2, <1>4, <1>6 DEF CommitOverride, Cascaded

LEMMA AdminOverrideServiceIsSound ==
  ASSUME NoDeletion, IInv, VotersInv, ContractInv, NEW c \in Clients, AdminOverrideServiceStep(c)
  PROVE  ContractInv'
<1> USE DEF At, Goto, Remember, store, StepsTo
<1>0. /\ mem[c] \in Memory /\ call[c] \in Calls /\ call[c].op \notin DeletionCalls
      /\ Sound(pc[c], call[c], mem[c])
  BY RequestFacts DEF AdminOverrideServiceStep, OverrideResult, OverrideWrite, PublishAudit,
     PublishOverridden, CommitOverride, AnswerOverride, DeleteMatch, AuditDelete,
     Done, NoDeletion, IInv, Called, ContractInv
<1>00. mem' = [mem EXCEPT ![c] = mem[c]] <=> mem' = mem
  BY DEF IInv, TypeOK
<1>1. CASE OverrideResult(c)
  <2> DEFINE m == [mem[c] EXCEPT !.ent = [row EXCEPT !.result = call[c].result],
                                 !.seen = players, !.before = row.result,
                                 !.since = Len(audit)]
  <2>1. CASE Reply(c, "rejected")
    BY <1>1, <2>1, ReplyIsSound DEF OverrideResult, Done
  <2>2. CASE row.status = "confirmed" /\ Goto(c, "connect") /\ Remember(c, m)
    <3>1. m.ent = [row EXCEPT !.result = call[c].result]
      BY <1>0 DEF Memory
    <3>2. Sound("connect", call[c], m)
      BY <1>1, <2>2, <3>1 DEF OverrideResult, Sound, EditSound, VoteSound, OverrideSound, Editing,
         Casting, Overriding, Saving, Edits
    <3> QED BY <1>1, <2>2, <3>2, QuietIsSound DEF OverrideResult
  <2> QED BY <1>1, <2>1, <2>2 DEF OverrideResult, BeforeData
<1>2. CASE OverrideWrite(c) \/ PublishAudit(c) \/ PublishOverridden(c)
  <2> DEFINE l == IF pc[c] = "write" THEN "audit"
                  ELSE IF pc[c] = "audit" THEN "invalidate" ELSE "commit"
  <2>1. pc' = [pc EXCEPT ![c] = l]
    BY <1>2 DEF OverrideWrite, PublishAudit, PublishOverridden
  <2>2. Sound(l, call[c], mem[c])
    BY <1>0, <1>2 DEF OverrideWrite, PublishAudit, PublishOverridden, Sound, EditSound, VoteSound,
       OverrideSound, Editing, Casting, Overriding, Saving, Edits
  <2>3. UNCHANGED <<row, players, votes, call, mem>>
    BY <1>2 DEF OverrideWrite, PublishAudit, PublishOverridden
  <2> QED BY <1>00, <2>1, <2>2, <2>3, QuietIsSound
<1>3. CASE CommitOverride(c)
  <2>1. /\ row \in Rows /\ row.status = "confirmed" /\ row.result \in Results
        /\ call[c].result \in Results
    BY <1>3, OverrideWrites
  <2>2. players' = players /\ votes' = votes /\ call' = call
    BY <1>3, OverrideWrites DEF CommitOverride
  <2>3. row' = row \/ \E x \in Results : row' = [row EXCEPT !.result = x]
    BY <1>3, OverrideWrites
  <2>4. row' \in Rows /\ row'.status = "confirmed" /\ row'.result \in Results
    <3>1. Results \subseteq Pairs
      BY DEF Results, Pairs
    <3>2. CASE row' = row
      BY <2>1, <3>2
    <3>3. CASE \E x \in Results : row' = [row EXCEPT !.result = x]
      BY <2>1, <3>1, <3>3 DEF Rows
    <3> QED BY <2>3, <3>2, <3>3
  <2>5. RowSound'
    BY <2>4 DEF RowSound
  <2>6. ASSUME NEW d \in Clients
        PROVE  Sound(pc[d], call[d], mem[d])'
    <3>1. CASE d = c
      <4>1. pc'[c] = "reread" /\ call'[c].op = "overrideResult"
        BY <1>3 DEF CommitOverride, IInv, TypeOK
      <4> QED BY <3>1, <4>1 DEF Sound, EditSound, VoteSound, OverrideSound, Editing,
               Casting, Overriding, Saving, Edits
    <3>2. CASE d # c
      <4>1. pc'[d] = pc[d] /\ call'[d] = call[d] /\ mem'[d] = mem[d]
        BY <1>3, <3>2 DEF CommitOverride, IInv, TypeOK
      <4>2. Sound(pc[d], call[d], mem[d]) /\ ~Editing(pc[d], call[d])
        BY <2>1 DEF ContractInv, Sound, EditSound
      <4>3. [row' EXCEPT !.result = call[d].result] = [row EXCEPT !.result = call[d].result]
        BY <2>1, <2>3 DEF Rows
      <4>4. Overriding(pc[d], call[d]) =>
              /\ mem[d].ent = [row' EXCEPT !.result = call[d].result]
              /\ pc[d] \notin {"connect", "save"} => mem[d].dirty \subseteq Sides
        BY <4>2, <4>3 DEF Sound, OverrideSound
      <4> QED BY <2>2, <2>4, <4>1, <4>2, <4>4
          DEF Sound, EditSound, VoteSound, OverrideSound, Saving, Editing, Casting, Overriding
    <3> QED BY <3>1, <3>2
  <2> QED BY <2>5, <2>6 DEF ContractInv
<1>4. CASE AnswerOverride(c)
  BY <1>4, ReplyIsSound DEF AnswerOverride, Done
<1>5. CASE DeleteMatch(c) \/ AuditDelete(c)
  BY <1>0, <1>5 DEF DeleteMatch, AuditDelete, DeletionCalls
<1> QED BY <1>1, <1>2, <1>3, <1>4, <1>5 DEF AdminOverrideServiceStep

\* The edits' UPDATE: the row becomes the entity, and nothing else is touched.
LEMMA EditWrites ==
  ASSUME IInv, VotersInv, ContractInv, NEW c \in Clients, SaveWrite(c)
  PROVE  /\ Editing(pc[c], call[c]) /\ row \in Rows /\ mem[c].ent \in Rows
         /\ row' = mem[c].ent /\ players' = players /\ votes' = votes /\ audit' = audit
         /\ call[c] \in Calls
<1>1. mem[c].ent \in Rows /\ call[c] \in Calls /\ row \in Rows
  BY RequestFacts, RowThere DEF SaveWrite, Done, HasEntity
<1>2. Editing(pc[c], call[c])
  BY DEF SaveWrite, ContractInv, Sound, Editing, Saving
<1>3. mem[c].dirty = Differing(row, mem[c].ent)
  BY <1>2 DEF SaveWrite, ContractInv, Sound, EditSound
<1>4. Overwrite(row, mem[c]) = mem[c].ent /\ "insert" \notin mem[c].dirty
  BY <1>1, <1>3, OverwriteLeavesEntity
<1> QED BY <1>1, <1>2, <1>4 DEF SaveWrite, Cascaded

LEMMA SaveIsSound ==
  ASSUME OneEditor, IInv, VotersInv, ContractInv, NEW c \in Clients,
         SaveRead(c) \/ SaveOrphans(c) \/ SaveWrite(c) \/ SaveDuplicate(c)
  PROVE  ContractInv'
<1> USE DEF Goto, Remember, store, StepsTo
<1>0. /\ mem[c] \in Memory /\ call[c] \in Calls /\ mem[c].ent \in Rows /\ row \in Rows
      /\ Sound(pc[c], call[c], mem[c])
  BY RequestFacts, RowThere
  DEF SaveRead, SaveOrphans, SaveWrite, SaveDuplicate, HasEntity, Done, ContractInv
<1>1. CASE SaveRead(c)
  <2> DEFINE m == [mem[c] EXCEPT !.dirty = Dirty(mem[c].ent)]
  <2>1. m.ent = mem[c].ent /\ m.dirty = Differing(row, mem[c].ent)
    BY <1>0, SentinelAssumption DEF Memory, Dirty
  <2>2. mem[c].ent = [row EXCEPT !.result = call[c].result] => Differing(row, mem[c].ent) \subseteq Sides
    BY <1>0 DEF Differing, Rows
  <2>3. Sound("write", call[c], m)
    BY <1>0, <1>1, <2>1, <2>2 DEF SaveRead, Sound, EditSound, VoteSound, OverrideSound, Editing,
       Casting, Overriding, Saving, Edits
  <2> QED BY <1>1, <2>3, QuietIsSound DEF SaveRead
<1>2. CASE SaveWrite(c)
  <2>1. /\ Editing(pc[c], call[c])
        /\ row' = mem[c].ent /\ players' = players /\ votes' = votes
    BY <1>2, EditWrites
  <2>2. /\ row.status \in {"draft", "playing"} /\ votes = {}
        /\ call[c].op = "submitResult" => call[c].result \in Results
    BY <1>0, <2>1, CallFacts DEF Sound, EditSound, ContractInv, RowSound
  <2>3. RowSound'
    <3>1. CASE call[c].op = "update"
      <4>1. row' = [row EXCEPT !.result = Given(call[c].result, row.result)]
        BY <1>0, <1>2, <2>1, <3>1 DEF SaveWrite, Sound, EditSound, Saving
      <4> QED BY <1>0, <2>1, <2>2, <4>1 DEF RowSound, Rows
    <3>2. CASE call[c].op = "addPlayers"
      <4>1. row' = [row EXCEPT !.status = "playing"]
        BY <1>0, <1>2, <2>1, <3>2 DEF SaveWrite, Sound, EditSound, Saving
      <4> QED BY <1>0, <2>1, <2>2, <4>1 DEF RowSound, Rows
    <3>3. CASE call[c].op = "submitResult"
      <4>1. row' = [row EXCEPT !.status = "awaiting_confirmation", !.result = call[c].result]
        BY <1>0, <1>2, <2>1, <3>3 DEF SaveWrite, Sound, EditSound, Saving
      <4>2. row'.status = "awaiting_confirmation" /\ row'.result = call[c].result
        BY <1>0, <4>1 DEF Rows
      <4>3. Cardinality(votes) = 0 /\ Cardinality(Registered(players)) \in Nat
        BY <2>2, FS_EmptySet, RegisteredFinite, RowThere
      <4>4. Cardinality(votes) < Quorum(Cardinality(Registered(players)))
        BY <4>3 DEF Quorum
      <4>5. Registered(players)' = Registered(players) /\ row'.result \in Results
        BY <2>1, <2>2, <3>3, <4>2 DEF Registered
      <4> HIDE DEF Goto, Remember, store, StepsTo
      <4> QED BY <2>1, <4>2, <4>4, <4>5 DEF RowSound
    <3> QED BY <2>1, <3>1, <3>2, <3>3 DEF Editing, Edits
  <2>4. ASSUME NEW d \in Clients
        PROVE  Sound(pc[d], call[d], mem[d])'
    <3>1. CASE d = c
      <4>1. pc'[c] \in {"publish", "ok"} /\ call'[c] = call[c] /\ call[c].op \in Edits
        BY <1>2, <2>1 DEF SaveWrite, AfterSave, Reply, IInv, TypeOK, Editing
      <4> QED BY <3>1, <4>1 DEF Sound, EditSound, VoteSound, OverrideSound, Editing,
               Casting, Overriding, Saving, Edits
    <3>2. CASE d # c
      <4>1. pc'[d] = pc[d] /\ call'[d] = call[d]
        BY <1>2, <3>2 DEF SaveWrite, Reply, IInv, TypeOK
      <4>2. ~Editing(pc[d], call[d]) /\ ~Casting(pc[d], call[d]) /\ ~Overriding(pc[d], call[d])
            /\ ~Saving(pc[d])
        BY <2>1, <3>2, EditsAlone
      <4>3. pc[d] # "connect"
        BY <4>2 DEF ContractInv, Sound, Casting, Overriding
      <4> QED BY <4>1, <4>2, <4>3 DEF Sound, EditSound, VoteSound, OverrideSound, Editing, Casting,
             Overriding, Saving
    <3> QED BY <3>1, <3>2
  <2> QED BY <2>3, <2>4 DEF ContractInv
<1>3. CASE SaveDuplicate(c)
  BY <1>3, ReplyIsSound DEF SaveDuplicate, Done
<1>4. CASE SaveOrphans(c)
  BY <1>4, ReplyIsSound DEF SaveOrphans, Done
<1> QED BY <1>1, <1>2, <1>3, <1>4

LEMMA ConnectIsSound ==
  ASSUME IInv, ContractInv, NEW c \in Clients, Connect(c)
  PROVE  ContractInv'
<1> DEFINE l == IF call[c].op = "confirm" THEN "lock" ELSE "save"
<1>1. StepsTo(c, l, mem[c])
  BY DEF Connect, Goto, StepsTo, IInv, TypeOK
<1>2. Sound("connect", call[c], mem[c])
  BY DEF Connect, ContractInv
<1>3. CASE call[c].op = "confirm"
  BY <1>1, <1>2, <1>3, QuietIsSound
  DEF Connect, store, Sound, EditSound, VoteSound, OverrideSound, Editing, Casting, Overriding,
      Saving, Edits
<1>4. CASE call[c].op = "overrideResult"
  BY <1>1, <1>2, <1>4, QuietIsSound
  DEF Connect, store, Sound, EditSound, VoteSound, OverrideSound, Editing, Casting, Overriding,
      Saving, Edits
<1>5. call[c].op \in {"confirm", "overrideResult"}
  BY <1>2 DEF Sound
<1> QED BY <1>3, <1>4, <1>5

LEMMA NextIsSound ==
  ASSUME NoDeletion, NoCancellation, OneEditor, IInv, VotersInv, ContractInv, [Next]_vars
  PROVE  ContractInv'
<1>1. ASSUME NEW c \in Clients, Step(c) PROVE ContractInv'
  BY <1>1, MatchServiceIsSound, ConfirmationServiceIsSound, AdminOverrideServiceIsSound,
     SaveIsSound, ConnectIsSound DEF Step
<1>2. ASSUME NEW c \in Clients, Fail(c) PROVE ContractInv'
  BY <1>2, ReplyIsSound DEF Fail, Done
<1>3. ASSUME NEW c \in Clients, Arrive(c) PROVE ContractInv'
  <2>1. UNCHANGED <<row, players, votes, mem>> /\ pc' = [pc EXCEPT ![c] = "find"]
    BY <1>3 DEF Arrive, store, Goto
  <2>2. RowSound'
    BY <2>1 DEF ContractInv, RowSound, Registered
  <2>3. ASSUME NEW d \in Clients
        PROVE  Sound(pc[d], call[d], mem[d])'
    <3>1. CASE d = c
      <4>1. pc'[d] = "find"
        BY <2>1, <3>1 DEF IInv, TypeOK
      <4> QED BY <4>1 DEF Sound, EditSound, VoteSound, OverrideSound, Editing, Casting,
             Overriding, Saving
    <3>2. CASE d # c
      <4>1. pc'[d] = pc[d] /\ call'[d] = call[d] /\ mem'[d] = mem[d]
        BY <1>3, <2>1, <3>2 DEF Arrive, IInv, TypeOK
      <4>2. Sound(pc[d], call[d], mem[d])
        BY DEF ContractInv
      <4> QED BY <2>1, <4>1, <4>2, SMTT(30) DEF Sound, EditSound, VoteSound, OverrideSound, Editing,
             Casting, Overriding, Saving, Registered, Complete, Differing
    <3> QED BY <3>1, <3>2
  <2> QED BY <2>2, <2>3 DEF ContractInv
<1>4. CASE UNCHANGED vars
  <2>1. RowSound'
    BY <1>4 DEF vars, ContractInv, RowSound, Registered
  <2> QED BY <1>4, <2>1 DEF vars, ContractInv, Sound, EditSound, VoteSound, OverrideSound, Editing,
         Casting, Overriding, Saving, Registered, Complete, Differing
<1> QED BY <1>1, <1>2, <1>3, <1>4 DEF Next, Finished

LEMMA InitIsSound == Init => ContractInv
<1> SUFFICES ASSUME Init PROVE ContractInv
  OBVIOUS
<1>1. Cardinality(votes) = 0 /\ Cardinality(Registered(players)) \in Nat
  BY FS_EmptySet, RegisteredFinite, StartAssumption DEF Init
<1>2. Cardinality(votes) < Quorum(Cardinality(Registered(players)))
  BY <1>1 DEF Quorum
<1>3. RowSound
  BY <1>2, StartAssumption DEF Init, RowSound
<1>4. \A c \in Clients : Sound(pc[c], call[c], mem[c])
  BY IdleIsSound DEF Init, Editing, Casting, Overriding, Saving
<1> QED BY <1>3, <1>4 DEF ContractInv

\* What is remembered stays sound in every interleaving the discipline leaves.
THEOREM Soundness == ASSUME Disciplined PROVE Spec => [](IInv /\ VotersInv /\ ContractInv)
<1>1. Spec => []VotersInv
  BY VotersInvariance DEF Disciplined
<1>2. IInv /\ VotersInv /\ ContractInv /\ [Next]_vars => ContractInv'
  BY NextIsSound DEF Disciplined
<1> QED BY <1>1, <1>2, InitIsSound, Invariance, PTL DEF Spec

-----------------------------------------------------------------------------
(* The refinement, and what follows from the contract. *)

\* Under the discipline four steps store something a caller sees.
LEMMA Writers ==
  ASSUME NoDeletion, NoCancellation, IInv, VotersInv, NEW c \in Clients, Step(c) \/ Fail(c)
  PROVE  \/ UNCHANGED <<row, players, votes, audit>>
         \/ SaveWrite(c) \/ InsertPlayers(c) \/ CommitVote(c) \/ CommitOverride(c)
<1> USE DEF store
<1>0. pc[c] \notin Done => call[c].op \notin DeletionCalls \cup {"cancel"}
  BY DEF NoDeletion, NoCancellation, IInv, Called
<1>1. CASE MatchServiceStep(c)
  <2>1. CASE DeleteRow(c)
    BY <2>1 DEF DeleteRow, VotersInv
  <2> QED BY <1>1, <2>1 DEF MatchServiceStep, Rejected, Refuse, Update, AddPlayers, CheckPlayers,
         RereadPlayers, SubmitResult, CheckComplete, PublishSubmitted, FindToDelete
<1>2. CASE ConfirmationServiceStep(c)
  <2>1. CASE ClearVotes(c)
    BY <1>0, <2>1 DEF ClearVotes, At, Done
  <2> QED BY <1>2, <2>1 DEF ConfirmationServiceStep, Confirm, FindVoter, LockRow, AnswerClosed,
         ReadVotes, CastVote, PublishConfirmed, PublishInvalidate, Cancel, PublishCancelled
<1>3. CASE AdminOverrideServiceStep(c)
  <2>1. CASE AuditDelete(c)
    BY <1>0, <2>1 DEF AuditDelete, At, Done, DeletionCalls
  <2> QED BY <1>3, <2>1 DEF AdminOverrideServiceStep, OverrideResult, OverrideWrite, PublishAudit,
         PublishOverridden, AnswerOverride, DeleteMatch
<1>4. CASE Connect(c) \/ SaveRead(c) \/ SaveOrphans(c) \/ SaveWrite(c) \/ SaveDuplicate(c) \/ Fail(c)
  BY <1>4 DEF Connect, SaveRead, SaveOrphans, SaveDuplicate, Fail
<1> QED BY <1>1, <1>2, <1>3, <1>4 DEF Step

\* The players a step seats, seen from the contract.
LEMMA SeatedIsRegistered == Contract!Seated = Registered(players)
  BY DEF Contract!Seated, Registered

\* The contract counts with an instance of FiniteSets of its own.
LEMMA ContractCardinality == \A S : Contract!Cardinality(S) = Cardinality(S)
  BY DEF Contract!Cardinality, Cardinality

LEMMA EditRefines ==
  ASSUME IInv, VotersInv, ContractInv, NEW c \in Clients, SaveWrite(c)
  PROVE  Contract!SetScore \/ Contract!Start \/ Contract!Submit
<1>1. /\ Editing(pc[c], call[c]) /\ row \in Rows /\ row.result \in Pairs
      /\ call[c].result \in IF call[c].op = "update" THEN Bodies ELSE Results
      /\ row' = mem[c].ent /\ players' = players /\ votes' = votes /\ audit' = audit
  BY EditWrites, CallFacts DEF Rows
<1>2. EditSound(pc[c], call[c], mem[c]) /\ pc[c] = "write"
  BY DEF SaveWrite, ContractInv, Sound
<1>3. CASE call[c].op = "update"
  <2>1. row' = [row EXCEPT !.result = Given(call[c].result, row.result)]
    BY <1>1, <1>2, <1>3 DEF EditSound, Saving
  <2>2. row'.status = row.status /\ row'.result \in Pairs
    BY <1>1, <1>3, <2>1, PairFacts DEF Rows
  <2> QED BY <1>1, <1>2, <2>2 DEF EditSound, Contract!SetScore, Contract!Editable
<1>4. CASE call[c].op = "addPlayers"
  <2>1. row' = [row EXCEPT !.status = "playing"] /\ row.status = "draft" /\ Registered(players) # {}
    BY <1>1, <1>2, <1>4 DEF EditSound, Saving
  <2>2. row'.status = "playing" /\ row'.result = row.result
    BY <1>1, <2>1 DEF Rows
  <2> QED BY <1>1, <2>1, <2>2, SeatedIsRegistered DEF Contract!Start
<1>5. CASE call[c].op = "submitResult"
  <2>1. /\ row' = [row EXCEPT !.status = "awaiting_confirmation", !.result = call[c].result]
        /\ Complete(players) /\ row.status \in {"draft", "playing"}
    BY <1>1, <1>2, <1>5 DEF EditSound, Saving
  <2>2. row'.status = "awaiting_confirmation" /\ row'.result = call[c].result
    BY <1>1, <2>1 DEF Rows
  <2>3. votes = {}
    BY <2>1 DEF ContractInv, RowSound
  <2>4. row'.result \in Results /\ Len(audit') = Len(audit)
    BY <1>1, <1>5, <2>2
  <2>5. Contract!Cardinality(Contract!Seated) >= Capacity
    BY <2>1, SeatedIsRegistered, ContractCardinality DEF Complete
  <2>6. players' = players /\ votes' = votes
    BY <1>1
  <2>7. Contract!Submit
    BY <2>1, <2>2, <2>3, <2>4, <2>5, <2>6 DEF Contract!Submit, Contract!Editable
  <2> QED BY <2>7
<1> QED BY <1>1, <1>3, <1>4, <1>5 DEF Editing, Edits

LEMMA RegistrationRefines ==
  ASSUME IInv, VotersInv, ContractInv, SeatsInv', NEW c \in Clients, InsertPlayers(c)
  PROVE  Contract!Register \/ UNCHANGED Contract!vars
<1>1. CASE UNCHANGED players
  BY <1>1 DEF InsertPlayers, Contract!vars
<1>2. CASE players' = Seated(players, call[c].players) /\ SlotsDistinct(players')
  <2>1. row.status \in {"draft", "playing"}
    BY DEF InsertPlayers, At, ContractInv, Sound, EditSound, Editing, Edits
  <2>2. players \in Rosters /\ call[c].players \in Rosters
    BY RequestFacts, RowThere, CallFacts DEF InsertPlayers, At, Done
  <2>3. players' \in [Users -> Slots \cup {NoSlot}]
    BY <1>2, <2>2 DEF Seated, Rosters
  <2>4. \A u \in Contract!Seated : players'[u] # NoSlot
    BY <1>2, <2>2 DEF Contract!Seated, Seated
  <2>5. \A u, v \in Users : players'[u] = players'[v] /\ players'[u] # NoSlot => u = v
    BY <1>2 DEF SlotsDistinct, Registered
  <2>6. Contract!Cardinality({u \in Users : players'[u] # NoSlot}) <= Capacity
    BY ContractCardinality DEF SeatsInv, CapacityRespected, Registered
  <2> QED BY <2>1, <2>3, <2>4, <2>5, <2>6 DEF InsertPlayers, Contract!Register, Contract!Editable
<1> QED BY <1>1, <1>2 DEF InsertPlayers

LEMMA VoteRefines ==
  ASSUME IInv, VotersInv, ContractInv, NEW c \in Clients, CommitVote(c)
  PROVE  \E u \in Users : Contract!Vote(u)
<1> DEFINE u == call[c].user
<1>1. /\ row.status = "awaiting_confirmation" /\ row = mem[c].ent /\ row \in Rows
      /\ mem[c].seen = players /\ mem[c].snap = votes /\ u \in Registered(players)
  BY SentinelAssumption
  DEF CommitVote, At, InVote, Awaiting, IInv, LockedRoundStable, TypeOK, Done, Called, Sound,
      VoteSound, Casting, ContractInv, VotersInv, VoteLabels
<1>2. votes' = votes \cup {u} /\ Counted(c) = votes' /\ players' = players /\ audit' = audit
  BY <1>1 DEF CommitVote, Counted
<1>3. u \in Users
  BY <1>1 DEF Registered
<1>4. Contract!Majority(votes') <=> QuorumReached(c)
  <2>1. votes' \in SUBSET Users /\ players \in Rosters
    BY <1>2, <1>3, RowThere
  <2>2. Cardinality(votes') \in Nat /\ Cardinality(Registered(players)) \in Nat
    BY <2>1, FS_Subset, FS_CardinalityType, RegisteredFinite, ParameterAssumption
  <2> QED BY <1>1, <1>2, <2>2, SeatedIsRegistered, ContractCardinality
      DEF Contract!Majority, QuorumReached, Quorum
<1>5. row'.status = (IF Contract!Majority(votes') THEN "confirmed" ELSE row.status)
      /\ row'.result = row.result
  BY <1>1, <1>4 DEF CommitVote, Rows
<1>6. Contract!Vote(u)
  BY <1>1, <1>2, <1>5, SeatedIsRegistered DEF Contract!Vote
<1> QED BY <1>3, <1>6

LEMMA OverrideRefines ==
  ASSUME IInv, VotersInv, ContractInv, NEW c \in Clients, CommitOverride(c)
  PROVE  Contract!Override
<1>1. row'.status = row.status /\ row'.result \in Results
  BY OverrideWrites DEF Rows
<1>2. Len(audit') = Len(audit) + 1
  <2>1. audit \in Seq(AuditRows)
    BY DEF IInv, TypeOK
  <2> QED BY <2>1 DEF CommitOverride
<1> QED BY <1>1, <1>2, OverrideWrites DEF Contract!Override

LEMMA NextRefines ==
  ASSUME Disciplined, IInv, VotersInv, ContractInv, SeatsInv', [Next]_vars
  PROVE  [Contract!Next]_(Contract!vars)
<1>1. ASSUME NEW c \in Clients, Step(c) \/ Fail(c)
      PROVE  [Contract!Next]_(Contract!vars)
  <2>1. CASE UNCHANGED <<row, players, votes, audit>>
    BY <2>1 DEF Contract!vars
  <2> QED BY <1>1, <2>1, Writers, EditRefines, RegistrationRefines, VoteRefines, OverrideRefines
      DEF Disciplined, Contract!Next
<1>2. CASE (\E c \in Clients : Arrive(c)) \/ UNCHANGED vars
  BY <1>2 DEF Arrive, store, vars, Contract!vars
<1> QED BY <1>1, <1>2 DEF Next, Finished

\* Under the discipline the services implement the contract: every step they take of the
\* database, seen through the committed rows, is one of its atomic steps, or none
\* (match.service.ts:53-192, confirmation.service.ts:79-200, admin-override.service.ts:37-110).
THEOREM Implements == ASSUME Disciplined PROVE Spec => ImplementsContract
<1>1. Init => Contract!Init
  BY StartAssumption DEF Init, Contract!Init, Rows, Statuses, Rosters
<1>2. OneRegistrar
  BY DEF Disciplined, OneEditor, OneRegistrar, OneSession, Edits
<1>3. Spec => []SeatsInv
  BY <1>2, SeatsInvariance DEF Disciplined
<1>4. IInv /\ VotersInv /\ ContractInv /\ SeatsInv' /\ [Next]_vars => [Contract!Next]_(Contract!vars)
  BY NextRefines
<1> QED BY <1>1, <1>3, <1>4, Soundness, PTL DEF Spec, ImplementsContract, Contract!Spec

\* No round of any number is left open with the votes that decide it
\* (confirmation.service.ts:141-153).
THEOREM Decisive == ASSUME Disciplined PROVE Spec => []QuorumIsDecisive
<1>1. ContractInv => QuorumIsDecisive
  BY DEF ContractInv, RowSound, QuorumIsDecisive, Awaiting
<1> QED BY <1>1, Soundness, PTL

\* "Immutable once confirmed" (README.md:9): it follows from the contract.
THEOREM Final == ASSUME Disciplined PROVE Spec => ConfirmedIsFinal
<1>1. VotersInv' /\ [Contract!Next]_(Contract!vars) => [Confirmed(row) => Confirmed(row')]_vars
  BY DEF Contract!Next, Contract!vars, Contract!Register, Contract!Start, Contract!SetScore,
     Contract!Submit, Contract!DropVotes, Contract!Reopen, Contract!Override, Contract!Vote,
     Contract!Editable, Confirmed, VotersInv
<1> QED BY <1>1, Implements, Soundness, PTL DEF ImplementsContract, Contract!Spec, ConfirmedIsFinal

\* The scores do not change under the votes (match.service.ts:78, 112, 169;
\* confirmation.service.ts:150-153): it follows from the contract.
THEOREM ResultStable == ASSUME Disciplined PROVE Spec => VotedResultStable
<1>1. VotersInv' /\ [Contract!Next]_(Contract!vars) =>
        [Awaiting(row) => row' # NoRow /\ row'.result = row.result]_vars
  BY DEF Contract!Next, Contract!vars, Contract!Register, Contract!Start, Contract!SetScore,
     Contract!Submit, Contract!DropVotes, Contract!Reopen, Contract!Override, Contract!Vote,
     Contract!Editable, Awaiting, VotersInv
<1> QED BY <1>1, Implements, Soundness, PTL DEF ImplementsContract, Contract!Spec, VotedResultStable

-----------------------------------------------------------------------------
(* Overrides and their audit rows. *)

\* As long as no audit row was written since an override loaded the match, it will say
\* from which result it changes the match, and write every score that differs.
Reporting(l, m) ==
  /\ m.since <= Len(audit)
  /\ Len(audit) = m.since =>
       /\ m.before = row.result
       /\ l \notin {"connect", "save"} => m.dirty = Differing(row, m.ent)
AuditInv == \A c \in Clients :
  Overriding(pc[c], call[c]) => Reporting(pc[c], mem[c])

\* A request's step moves that request alone.
LEMMA OthersWait ==
  ASSUME IInv, NEW c \in Clients, Step(c) \/ Fail(c), NEW d \in Clients \ {c}
  PROVE  pc'[d] = pc[d] /\ call'[d] = call[d] /\ mem'[d] = mem[d]
<1> USE DEF Goto, Remember, Reply, IInv, TypeOK
<1>1. CASE MatchServiceStep(c)
  BY <1>1 DEF MatchServiceStep, Rejected, Refuse, Update, AddPlayers, Load, CheckPlayers,
     InsertPlayers, RereadPlayers, SubmitResult, CheckComplete, PublishSubmitted, FindToDelete,
     DeleteRow
<1>2. CASE ConfirmationServiceStep(c)
  BY <1>2 DEF ConfirmationServiceStep, Confirm, FindVoter, LockRow, ReadVotes, CastVote,
     CommitVote, PublishConfirmed, PublishInvalidate, Cancel, ClearVotes, PublishCancelled,
     AnswerClosed
<1>3. CASE AdminOverrideServiceStep(c)
  BY <1>3 DEF AdminOverrideServiceStep, OverrideResult, OverrideWrite, PublishAudit,
     PublishOverridden, CommitOverride, AnswerOverride, DeleteMatch, AuditDelete
<1>4. CASE Connect(c) \/ SaveRead(c) \/ SaveOrphans(c) \/ SaveWrite(c) \/ SaveDuplicate(c) \/ Fail(c)
  BY <1>4 DEF Connect, SaveRead, SaveOrphans, SaveWrite, SaveDuplicate, Fail
<1> QED BY <1>1, <1>2, <1>3, <1>4 DEF Step

\* An override reads what it will audit in the step that finds the match, and what it will
\* write in the step that reads it again; until its commit it stores nothing.
LEMMA OverrideSteps ==
  ASSUME NoDeletion, NoCancellation, IInv, VotersInv, AuditInv,
         NEW c \in Clients, Step(c) \/ Fail(c), Overriding(pc'[c], call'[c])
  PROVE  row' = row /\ audit' = audit /\ Reporting(pc'[c], mem'[c])
<1> USE DEF At, Goto, Remember, Reply, Overriding, AuditInv, IInv, TypeOK
<1>0. row # NoRow /\ audit \in Seq(AuditRows) /\ Len(audit) \in Nat
  BY DEF VotersInv
<1>1. CASE MatchServiceStep(c)
  BY <1>1 DEF MatchServiceStep, Rejected, Refuse, Update, AddPlayers, Load, CheckPlayers,
     InsertPlayers, RereadPlayers, SubmitResult, CheckComplete, PublishSubmitted, FindToDelete,
     DeleteRow
<1>2. CASE ConfirmationServiceStep(c)
  BY <1>2 DEF ConfirmationServiceStep, Confirm, FindVoter, LockRow, ReadVotes, CastVote,
     CommitVote, PublishConfirmed, PublishInvalidate, Cancel, ClearVotes, PublishCancelled,
     AnswerClosed
<1>3. CASE AdminOverrideServiceStep(c)
  <2>1. CASE OverrideResult(c)
    <3>1. /\ pc'[c] = "connect" /\ row' = row /\ audit' = audit
          /\ mem'[c] = [mem[c] EXCEPT !.ent = [row EXCEPT !.result = call[c].result],
                                      !.seen = players, !.before = row.result,
                                      !.since = Len(audit)]
      BY <2>1 DEF OverrideResult, BeforeData, IsAdmin, store
    <3>2. mem'[c].before = row.result /\ mem'[c].since = Len(audit)
      BY <3>1 DEF Memory
    <3> QED BY <1>0, <3>1, <3>2 DEF Reporting
  <2>2. CASE OverrideWrite(c) \/ PublishAudit(c) \/ PublishOverridden(c)
    <3>1. /\ pc[c] \in {"write", "audit", "invalidate"} /\ Overriding(pc[c], call[c])
          /\ row' = row /\ audit' = audit /\ mem' = mem
      BY <2>2 DEF OverrideWrite, PublishAudit, PublishOverridden, store
    <3> QED BY <3>1 DEF Reporting
  <2>3. CASE CommitOverride(c) \/ AnswerOverride(c) \/ DeleteMatch(c) \/ AuditDelete(c)
    BY <2>3 DEF CommitOverride, AnswerOverride, DeleteMatch, AuditDelete
  <2> QED BY <1>3, <2>1, <2>2, <2>3 DEF AdminOverrideServiceStep
<1>4. CASE SaveRead(c)
  <2>1. /\ mem'[c] = [mem[c] EXCEPT !.dirty = Dirty(mem[c].ent)] /\ row' = row /\ audit' = audit
        /\ Overriding(pc[c], call[c]) /\ pc'[c] = "write"
    BY <1>4 DEF SaveRead, store
  <2>2. /\ mem'[c].dirty = Differing(row, mem[c].ent) /\ mem'[c].ent = mem[c].ent
        /\ mem'[c].before = mem[c].before /\ mem'[c].since = mem[c].since
    BY <1>0, <2>1 DEF Dirty, Memory
  <2> QED BY <2>1, <2>2 DEF Reporting
<1>5. CASE Connect(c)
  <2>1. /\ mem' = mem /\ row' = row /\ audit' = audit /\ Overriding(pc[c], call[c])
        /\ pc[c] = "connect" /\ pc'[c] = "save"
    BY <1>5 DEF Connect, store
  <2> QED BY <2>1 DEF Reporting
<1>6. CASE SaveOrphans(c) \/ SaveWrite(c) \/ SaveDuplicate(c) \/ Fail(c)
  BY <1>6 DEF SaveOrphans, SaveWrite, SaveDuplicate, Fail, Done
<1> QED BY <1>1, <1>2, <1>3, <1>4, <1>5, <1>6 DEF Step

\* While a match is confirmed, only an override stores something in it, and counts one more
\* audit row.
LEMMA ConfirmedWriters ==
  ASSUME Disciplined, IInv, VotersInv, ContractInv, row.status = "confirmed",
         NEW c \in Clients, Step(c) \/ Fail(c)
  PROVE  (row' = row /\ audit' = audit) \/ CommitOverride(c)
<1>1. ~SaveWrite(c)
  BY EditWrites DEF ContractInv, Sound, EditSound
<1>2. ~CommitVote(c)
  BY SentinelAssumption
  DEF CommitVote, At, InVote, Awaiting, IInv, LockedRoundStable, Called, Done
<1> QED BY <1>1, <1>2, Writers DEF Disciplined, InsertPlayers

LEMMA NextKeepsAudit ==
  ASSUME Disciplined, IInv, VotersInv, ContractInv, AuditInv, [Next]_vars
  PROVE  AuditInv'
<1>1. ASSUME NEW c \in Clients, Step(c) \/ Fail(c), NEW d \in Clients, Overriding(pc'[d], call'[d])
      PROVE  Reporting(pc[d], mem[d])'
  <2>1. CASE d = c
    BY <1>1, <2>1, OverrideSteps DEF Disciplined, Reporting, Differing
  <2>2. CASE d # c
    <3>0. pc'[d] = pc[d] /\ call'[d] = call[d] /\ mem'[d] = mem[d]
      BY <1>1, <2>2, OthersWait
    <3>1. Overriding(pc[d], call[d]) /\ Reporting(pc[d], mem[d]) /\ row.status = "confirmed"
      BY <1>1, <3>0 DEF AuditInv, ContractInv, Sound, OverrideSound
    <3>2. CASE row' = row /\ audit' = audit
      BY <3>0, <3>1, <3>2 DEF Reporting, Differing
    <3>3. CASE CommitOverride(c)
      <4>1. Len(audit') = Len(audit) + 1 /\ Len(audit) \in Nat /\ mem[d].since \in Nat
        BY <3>3 DEF CommitOverride, IInv, TypeOK, Memory
      <4> QED BY <3>0, <3>1, <4>1 DEF Reporting
    <3> QED BY <1>1, <3>1, <3>2, <3>3, ConfirmedWriters
  <2> QED BY <2>1, <2>2
<1>2. ASSUME NEW c \in Clients, Arrive(c) PROVE AuditInv'
  <2>1. row' = row /\ audit' = audit /\ mem' = mem /\ pc' = [pc EXCEPT ![c] = "find"]
    BY <1>2 DEF Arrive, store, Goto
  <2>2. \A d \in Clients \ {c} : call'[d] = call[d]
    BY <1>2 DEF Arrive, IInv, TypeOK
  <2> QED BY <2>1, <2>2 DEF AuditInv, Overriding, Reporting, Differing, IInv, TypeOK
<1>3. CASE UNCHANGED vars
  BY <1>3 DEF vars, AuditInv, Overriding, Reporting, Differing
<1> QED BY <1>1, <1>2, <1>3 DEF Next, Finished, AuditInv, Overriding

\* A confirmed result changes only at an override's commit and together with an audit row,
\* which says from what and to what unless another audit row was written since that
\* override loaded the match (admin-override.service.ts:61-83).
THEOREM Audited == ASSUME Disciplined PROVE Spec => OnlyCrossedOverridesMisreport
<1>1. Init => AuditInv
  BY DEF Init, AuditInv, Overriding
<1>2. IInv /\ VotersInv /\ ContractInv /\ AuditInv /\ [Next]_vars => AuditInv'
  BY NextKeepsAudit
<1>3. IInv /\ VotersInv /\ ContractInv /\ AuditInv /\ [Next]_vars =>
        [Confirmed(row) /\ Confirmed(row') /\ row'.result # row.result =>
           \E c \in Clients :
             /\ At(c, "commit", "overrideResult")
             /\ Len(audit') = Len(audit) + 1
             /\ Len(audit) = mem[c].since =>
                  audit' = Append(audit, [action |-> "result_override", before |-> row.result,
                                          after |-> row'.result])]_vars
  <2> SUFFICES ASSUME IInv, VotersInv, ContractInv, AuditInv, [Next]_vars,
                      Confirmed(row), row'.result # row.result
               PROVE  \E c \in Clients :
                        /\ At(c, "commit", "overrideResult")
                        /\ Len(audit') = Len(audit) + 1
                        /\ Len(audit) = mem[c].since =>
                             audit' = Append(audit, [action |-> "result_override",
                                                     before |-> row.result, after |-> row'.result])
    OBVIOUS
  <2>1. PICK c \in Clients : (Step(c) \/ Fail(c)) /\ row' # row
    BY DEF Next, Arrive, store, Finished, vars
  <2>2. CommitOverride(c)
    BY <2>1, ConfirmedWriters DEF Confirmed
  <2>3. /\ At(c, "commit", "overrideResult") /\ Overriding(pc[c], call[c])
        /\ Len(audit') = Len(audit) + 1
    BY <2>2 DEF CommitOverride, At, Overriding, IInv, TypeOK
  <2>4. ASSUME Len(audit) = mem[c].since
        PROVE  row'.result = call[c].result /\ mem[c].before = row.result
    <3>1. /\ mem[c].before = row.result /\ mem[c].dirty = Differing(row, mem[c].ent)
          /\ mem[c].ent = [row EXCEPT !.result = call[c].result]
      BY <2>3, <2>4 DEF AuditInv, Reporting, At, ContractInv, Sound, OverrideSound
    <3>2. row \in Rows /\ call[c].result \in Results
      BY <2>2, OverrideWrites
    <3>3. mem[c].ent \in Rows /\ mem[c].ent.result = call[c].result
      BY <3>1, <3>2, PairFacts, RowEdits DEF Rows
    <3>4. row' = mem[c].ent
      BY <2>1, <2>2, <3>1, <3>2, <3>3, OverwriteLeavesEntity DEF CommitOverride
    <3> QED BY <3>1, <3>3, <3>4
  <2> QED BY <2>2, <2>3, <2>4 DEF CommitOverride
<1> QED BY <1>1, <1>2, <1>3, Soundness, PTL DEF Spec, OnlyCrossedOverridesMisreport

-----------------------------------------------------------------------------
(* One round, and no discipline. *)

\* Nobody submits a result: the round found at the start is the only one.
NoSubmission == \A c \in Clients : \A k \in Workload[c] : k.op # "submitResult"

\* What a request remembers does not open a round, is not more than the players there are,
\* and misses no vote.
Current(l, k, m) ==
  /\ HasEntity(l, k.op) => m.ent.status # "awaiting_confirmation"
  /\ k.op = "confirm" =>
       /\ l \in {"connect", "lock"} \cup VoteLabels => Registered(m.seen) \subseteq Registered(players)
       /\ l \in {"vote", "commit"} => votes \subseteq m.snap

\* An open round lacks the votes to decide it.
Undecided == Awaiting(row) => Cardinality(votes) < Quorum(Cardinality(Registered(players)))
RoundInv == Undecided /\ \A c \in Clients : Current(pc[c], call[c], mem[c])

\* More players do not lower the quorum.
LEMMA QuorumMonotone ==
  ASSUME NEW p \in Rosters, NEW q \in Rosters, Registered(p) \subseteq Registered(q),
         NEW n \in Nat, n < Quorum(Cardinality(Registered(p)))
  PROVE  n < Quorum(Cardinality(Registered(q)))
<1>1. /\ IsFiniteSet(Registered(q))
      /\ Cardinality(Registered(p)) \in Nat /\ Cardinality(Registered(q)) \in Nat
  BY RegisteredFinite
<1>2. Cardinality(Registered(p)) <= Cardinality(Registered(q))
  BY <1>1, FS_Subset
<1> QED BY <1>1, <1>2 DEF Quorum

LEMMA VotesFinite ==
  ASSUME NEW v \in SUBSET Users
  PROVE  IsFiniteSet(v) /\ Cardinality(v) \in Nat
  BY FS_Subset, FS_CardinalityType, ParameterAssumption

\* A step that opens no round, takes no seat away and adds no vote.
LEMMA StaysUndecided ==
  ASSUME IInv, IInv', RoundInv, NEW c \in Clients, NEW l, NEW m, StepsTo(c, l, m),
         Awaiting(row') => Awaiting(row), votes' \subseteq votes,
         Registered(players) \subseteq Registered(players'), Current(l, call[c], m)
  PROVE  RoundInv'
<1>1. Undecided'
  <2>1. /\ players \in Rosters /\ players' \in Rosters
        /\ votes \in SUBSET Users /\ votes' \in SUBSET Users
    BY DEF IInv, TypeOK
  <2>2. Cardinality(votes) \in Nat /\ Cardinality(votes') \in Nat /\ IsFiniteSet(votes)
    BY <2>1, VotesFinite
  <2>3. Cardinality(votes') <= Cardinality(votes)
    BY <2>2, FS_Subset
  <2>4. SUFFICES ASSUME Awaiting(row')
                 PROVE  Cardinality(votes') < Quorum(Cardinality(Registered(players')))
    BY DEF Undecided, Awaiting, Registered, Quorum
  <2>5. Cardinality(votes) < Quorum(Cardinality(Registered(players)))
    BY <2>4 DEF RoundInv, Undecided
  <2>6. Cardinality(votes) < Quorum(Cardinality(Registered(players')))
    BY <2>1, <2>2, <2>5, QuorumMonotone
  <2>7. Cardinality(Registered(players')) \in Nat
    BY <2>1, RegisteredFinite
  <2> QED BY <2>2, <2>3, <2>6, <2>7 DEF Quorum
<1>2. ASSUME NEW d \in Clients
      PROVE  Current(pc[d], call[d], mem[d])'
  <2>1. Current(pc'[d], call'[d], mem'[d])
    BY DEF StepsTo, RoundInv, IInv, TypeOK
  <2> QED BY <2>1 DEF Current, Registered
<1> QED BY <1>1, <1>2 DEF RoundInv

LEMMA QuietIsUndecided ==
  ASSUME IInv, IInv', RoundInv, NEW c \in Clients, NEW l, NEW m, StepsTo(c, l, m),
         UNCHANGED <<row, players, votes>>, Current(l, call[c], m)
  PROVE  RoundInv'
<1>1. Registered(players) \subseteq Registered(players') /\ (Awaiting(row') => Awaiting(row))
  BY DEF Registered, Awaiting
<1> QED BY <1>1, StaysUndecided

LEMMA ReplyIsUndecided ==
  ASSUME IInv, IInv', RoundInv, NEW c \in Clients, NEW out \in Done, Reply(c, out),
         UNCHANGED <<row, players, votes, call>>
  PROVE  RoundInv'
<1>1. StepsTo(c, out, Blank)
  BY DEF StepsTo, Reply, Goto, Remember
<1>2. Current(out, call[c], Blank)
  BY DEF Current, HasEntity, Done, VoteLabels
<1> QED BY <1>1, <1>2, QuietIsUndecided

LEMMA StepIsUndecided ==
  ASSUME NoDeletion, NoSubmission, IInv, IInv', VotersInv, RoundInv, NEW c \in Clients, Step(c)
  PROVE  RoundInv'
<1> USE DEF At, Goto, Remember, store, StepsTo
<1>0. /\ mem[c] \in Memory /\ call[c] \in Calls /\ row \in Rows
      /\ call[c].op \notin DeletionCalls \cup {"submitResult"}
      /\ HasEntity(pc[c], call[c].op) => mem[c].ent \in Rows
      /\ Current(pc[c], call[c], mem[c])
  <2>1. pc[c] \notin Done
    BY DEF Step, MatchServiceStep, Rejected, Update, AddPlayers, CheckPlayers, InsertPlayers,
       RereadPlayers, SubmitResult, CheckComplete, PublishSubmitted, FindToDelete, DeleteRow,
       ConfirmationServiceStep, Confirm, FindVoter, LockRow, ReadVotes, CastVote, CommitVote,
       PublishConfirmed, PublishInvalidate, Cancel, ClearVotes, PublishCancelled,
       AdminOverrideServiceStep, OverrideResult, OverrideWrite, PublishAudit, PublishOverridden,
       CommitOverride, AnswerOverride, DeleteMatch, AuditDelete, AnswerClosed,
       Connect, SaveRead, SaveOrphans, SaveWrite, SaveDuplicate, Done
  <2> QED BY <2>1, RequestFacts, RowThere DEF NoDeletion, NoSubmission, IInv, Called, RoundInv
<1>00. mem' = [mem EXCEPT ![c] = mem[c]] <=> mem' = mem
  BY DEF IInv, TypeOK
<1>000. "insert" \notin mem[c].dirty
  BY DEF VotersInv
<1>1. CASE MatchServiceStep(c)
  <2>1. CASE Rejected(c) \/ PublishSubmitted(c)
    BY <2>1, ReplyIsUndecided DEF Rejected, Refuse, PublishSubmitted, Done
  <2>2. CASE Update(c) \/ AddPlayers(c)
    <3> DEFINE e == IF call[c].op = "update" THEN [row EXCEPT !.result = Given(call[c].result, @)]
                                               ELSE row
               m == [mem[c] EXCEPT !.ent = e, !.seen = players]
               l == IF call[c].op = "update" THEN "save" ELSE "players"
    <3>1. m.ent = e /\ e.status = row.status /\ row.status # "awaiting_confirmation"
      BY <1>0, <2>2 DEF Memory, Rows, Update, AddPlayers, MayEdit, Locked
    <3>2. Current(l, call[c], m) /\ StepsTo(c, l, m)
      BY <2>2, <3>1 DEF Current, Update, AddPlayers, Load
    <3> QED BY <2>2, <3>2, QuietIsUndecided DEF Update, AddPlayers
  <2>3. CASE CheckPlayers(c)
    <3>1. CASE Reply(c, "rejected")
      BY <2>3, <3>1, ReplyIsUndecided DEF CheckPlayers, Done
    <3>2. CASE Goto(c, "insert") /\ UNCHANGED mem
      <4>1. Current("insert", call[c], mem[c])
        BY <1>0, <2>3 DEF CheckPlayers, Current, HasEntity
      <4> QED BY <1>00, <2>3, <3>2, <4>1, QuietIsUndecided DEF CheckPlayers
    <3> QED BY <2>3, <3>1, <3>2 DEF CheckPlayers
  <2>4. CASE InsertPlayers(c)
    <3>1. CASE Reply(c, "error") /\ UNCHANGED players
      BY <2>4, <3>1, ReplyIsUndecided DEF InsertPlayers, Done
    <3>2. CASE players' = Seated(players, call[c].players) /\ Goto(c, "reread") /\ UNCHANGED mem
      <4>1. Current("reread", call[c], mem[c])
        BY <1>0, <2>4 DEF InsertPlayers, Current, HasEntity
      <4>2. Registered(players) \subseteq Registered(players')
        BY <3>2 DEF Registered, Seated
      <4> QED BY <1>00, <2>4, <3>2, <4>1, <4>2, StaysUndecided DEF InsertPlayers
    <3> QED BY <2>4, <3>1, <3>2 DEF InsertPlayers
  <2>5. CASE RereadPlayers(c)
    <3> DEFINE m == [mem[c] EXCEPT !.ent = [@ EXCEPT !.status = "playing"]]
    <3>1. CASE Reply(c, "ok")
      BY <2>5, <3>1, ReplyIsUndecided DEF RereadPlayers, Done
    <3>2. CASE Goto(c, "save") /\ Remember(c, m)
      <4>1. m.ent.status = "playing"
        BY <1>0, <2>5 DEF RereadPlayers, Memory, HasEntity, Rows
      <4>2. Current("save", call[c], m)
        BY <2>5, <4>1 DEF RereadPlayers, Current
      <4> QED BY <2>5, <3>2, <4>2, QuietIsUndecided DEF RereadPlayers
    <3> QED BY <2>5, <3>1, <3>2 DEF RereadPlayers
  <2>6. CASE SubmitResult(c) \/ CheckComplete(c) \/ FindToDelete(c) \/ DeleteRow(c)
    BY <1>0, <2>6 DEF SubmitResult, CheckComplete, FindToDelete, DeleteRow, VotersInv, DeletionCalls
  <2> QED BY <1>1, <2>1, <2>2, <2>3, <2>4, <2>5, <2>6 DEF MatchServiceStep
<1>2. CASE ConfirmationServiceStep(c)
  <2>1. CASE Confirm(c)
    <3>1. CASE Reply(c, "rejected")
      BY <2>1, <3>1, ReplyIsUndecided DEF Confirm, Done
    <3>2. CASE Goto(c, "players") /\ UNCHANGED mem
      <4>1. Current("players", call[c], mem[c])
        BY <2>1 DEF Confirm, Current, HasEntity, VoteLabels
      <4> QED BY <1>00, <2>1, <3>2, <4>1, QuietIsUndecided DEF Confirm
    <3> QED BY <2>1, <3>1, <3>2 DEF Confirm
  <2>2. CASE FindVoter(c)
    <3> DEFINE m == [mem[c] EXCEPT !.seen = players]
    <3>1. CASE Reply(c, "rejected")
      BY <2>2, <3>1, ReplyIsUndecided DEF FindVoter, Done
    <3>2. CASE Goto(c, "connect") /\ Remember(c, m)
      <4>1. m.seen = players
        BY <1>0 DEF Memory
      <4>2. Current("connect", call[c], m)
        BY <2>2, <4>1 DEF FindVoter, Current, HasEntity
      <4> QED BY <2>2, <3>2, <4>2, QuietIsUndecided DEF FindVoter
    <3> QED BY <2>2, <3>1, <3>2 DEF FindVoter
  <2>3. CASE LockRow(c)
    <3> DEFINE m == [mem[c] EXCEPT !.ent = row]
    <3>1. CASE Goto(c, "reread") /\ UNCHANGED mem
      <4>1. Current("reread", call[c], mem[c])
        BY <2>3 DEF LockRow, Current, HasEntity, VoteLabels
      <4> QED BY <1>00, <2>3, <3>1, <4>1, QuietIsUndecided DEF LockRow
    <3>2. CASE Goto(c, "snapshot") /\ Remember(c, m)
      <4>1. m.seen = mem[c].seen
        BY <1>0 DEF Memory
      <4>2. Current("snapshot", call[c], m)
        BY <1>0, <2>3, <4>1 DEF LockRow, Current, HasEntity, VoteLabels
      <4> QED BY <2>3, <3>2, <4>2, QuietIsUndecided DEF LockRow
    <3> QED BY <2>3, <3>1, <3>2 DEF LockRow
  <2>4. CASE ReadVotes(c)
    <3> DEFINE m == [mem[c] EXCEPT !.snap = votes]
    <3>1. m.seen = mem[c].seen /\ m.snap = votes
      BY <1>0 DEF Memory
    <3>2. Current("vote", call[c], m)
      BY <1>0, <2>4, <3>1 DEF ReadVotes, Current, HasEntity, VoteLabels
    <3> QED BY <2>4, <3>2, QuietIsUndecided DEF ReadVotes
  <2>5. CASE CastVote(c)
    <3>1. Current("commit", call[c], mem[c])
      BY <1>0, <2>5 DEF CastVote, Current, HasEntity, VoteLabels
    <3> QED BY <1>00, <2>5, <3>1, QuietIsUndecided DEF CastVote
  <2>6. CASE CommitVote(c)
    <3>1. /\ lock = c /\ row = mem[c].ent
          /\ Registered(mem[c].seen) \subseteq Registered(players) /\ votes \subseteq mem[c].snap
      BY <1>0, <2>6, SentinelAssumption
      DEF CommitVote, InVote, IInv, LockedRoundStable, Done, Called, Current, VoteLabels
    <3>2. votes' \subseteq Counted(c) /\ players' = players /\ call' = call
      BY <2>6, <3>1 DEF CommitVote, Counted
    <3>3. Undecided'
      <4>1. CASE row' = row /\ ~QuorumReached(c)
        <5>1. /\ players \in Rosters /\ mem[c].seen \in Rosters
              /\ Counted(c) \in SUBSET Users /\ votes' \in SUBSET Users
          BY <1>0, <3>2, CallFacts DEF IInv, TypeOK, Memory, Counted
        <5>2. /\ IsFiniteSet(Counted(c)) /\ Cardinality(Counted(c)) \in Nat
              /\ Cardinality(votes') \in Nat /\ Cardinality(Registered(mem[c].seen)) \in Nat
          BY <5>1, VotesFinite, RegisteredFinite
        <5>3. Cardinality(votes') <= Cardinality(Counted(c))
          BY <3>2, <5>2, FS_Subset
        <5>4. Cardinality(votes') < Quorum(Cardinality(Registered(mem[c].seen)))
          BY <4>1, <5>2, <5>3 DEF QuorumReached, Quorum
        <5>5. Cardinality(votes') < Quorum(Cardinality(Registered(players)))
          BY <3>1, <5>1, <5>2, <5>4, QuorumMonotone
        <5> QED BY <3>2, <5>5 DEF Undecided, Registered, Quorum
      <4>2. CASE row' = [row EXCEPT !.status = "confirmed", !.confirmedAt = TRUE]
        <5>1. row'.status = "confirmed"
          BY <1>0, <4>2 DEF Rows
        <5> QED BY <5>1 DEF Undecided, Awaiting
      <4> QED BY <2>6, <3>1, <4>1, <4>2 DEF CommitVote
    <3>4. ASSUME NEW d \in Clients
          PROVE  Current(pc[d], call[d], mem[d])'
      <4>1. CASE d = c
        <5>1. pc'[c] \in {"publish", "ok"} /\ call'[c].op = "confirm"
          BY <2>6 DEF CommitVote, Reply, IInv, TypeOK
        <5> QED BY <4>1, <5>1 DEF Current, HasEntity, VoteLabels
      <4>2. CASE d # c
        <5>1. pc'[d] = pc[d] /\ call'[d] = call[d] /\ mem'[d] = mem[d]
          BY <2>6, <4>2 DEF CommitVote, Reply, IInv, TypeOK
        <5>2. call[d].op = "confirm" => pc[d] \notin {"vote", "commit"}
          BY <3>1, <4>2 DEF IInv, LockedRoundStable, InVote, Called, Done
        <5> QED BY <3>2, <5>1, <5>2 DEF RoundInv, Current, Registered
      <4> QED BY <4>1, <4>2
    <3> QED BY <3>3, <3>4 DEF RoundInv
  <2>7. CASE PublishConfirmed(c)
    <3>1. Current("invalidate", call[c], mem[c])
      BY <2>7 DEF PublishConfirmed, Current, HasEntity, VoteLabels
    <3> QED BY <1>00, <2>7, <3>1, QuietIsUndecided DEF PublishConfirmed
  <2>8. CASE PublishInvalidate(c) \/ PublishCancelled(c) \/ AnswerClosed(c)
    BY <2>8, ReplyIsUndecided DEF PublishInvalidate, PublishCancelled, AnswerClosed, Done
  <2>9. CASE Cancel(c)
    <3> DEFINE m == [mem[c] EXCEPT !.ent = Reopened(row), !.seen = players]
    <3>1. CASE Reply(c, "rejected")
      BY <2>9, <3>1, ReplyIsUndecided DEF Cancel, Done
    <3>2. CASE Goto(c, "clear") /\ Remember(c, m)
      <4>1. m.ent.status = "playing"
        BY <1>0 DEF Memory, Reopened, Rows
      <4>2. Current("clear", call[c], m)
        BY <2>9, <4>1 DEF Cancel, Current
      <4> QED BY <2>9, <3>2, <4>2, QuietIsUndecided DEF Cancel
    <3> QED BY <2>9, <3>1, <3>2 DEF Cancel
  <2>10. CASE ClearVotes(c)
    <3>1. Current("save", call[c], mem[c])
      BY <1>0, <2>10 DEF ClearVotes, Current, HasEntity
    <3>2. Registered(players) \subseteq Registered(players') /\ votes' \subseteq votes
          /\ (Awaiting(row') => Awaiting(row))
      BY <2>10 DEF ClearVotes, Registered, Awaiting
    <3> QED BY <1>00, <2>10, <3>1, <3>2, StaysUndecided DEF ClearVotes
  <2> QED BY <1>2, <2>1, <2>2, <2>3, <2>4, <2>5, <2>6, <2>7, <2>8, <2>9, <2>10
      DEF ConfirmationServiceStep
<1>3. CASE AdminOverrideServiceStep(c)
  <2>1. CASE OverrideResult(c)
    <3> DEFINE m == [mem[c] EXCEPT !.ent = [row EXCEPT !.result = call[c].result],
                                   !.seen = players, !.before = row.result,
                                   !.since = Len(audit)]
    <3>1. CASE Reply(c, "rejected")
      BY <2>1, <3>1, ReplyIsUndecided DEF OverrideResult, Done
    <3>2. CASE row.status = "confirmed" /\ Goto(c, "connect") /\ Remember(c, m)
      <4>1. m.ent.status = "confirmed"
        BY <1>0, <3>2 DEF Memory, Rows
      <4>2. Current("connect", call[c], m)
        BY <2>1, <4>1 DEF OverrideResult, Current
      <4> QED BY <2>1, <3>2, <4>2, QuietIsUndecided DEF OverrideResult
    <3> QED BY <2>1, <3>1, <3>2 DEF OverrideResult, BeforeData
  <2>2. CASE OverrideWrite(c) \/ PublishAudit(c) \/ PublishOverridden(c)
    <3> DEFINE l == IF pc[c] = "write" THEN "audit"
                  ELSE IF pc[c] = "audit" THEN "invalidate" ELSE "commit"
    <3>1. Current(l, call[c], mem[c]) /\ pc' = [pc EXCEPT ![c] = l]
      BY <1>0, <2>2 DEF OverrideWrite, PublishAudit, PublishOverridden, Current, HasEntity
    <3>2. UNCHANGED <<row, players, votes, call, mem>>
      BY <2>2 DEF OverrideWrite, PublishAudit, PublishOverridden
    <3> QED BY <1>00, <3>1, <3>2, QuietIsUndecided
  <2>3. CASE CommitOverride(c)
    <3>1. Current("reread", call[c], mem[c]) /\ mem[c].ent.status # "awaiting_confirmation"
      BY <1>0, <2>3 DEF CommitOverride, Current, HasEntity
    <3>2. Awaiting(row') => Awaiting(row)
      BY <1>0, <1>000, <2>3, <3>1, SentinelAssumption DEF CommitOverride, Overwrite, Awaiting
    <3>3. Registered(players) \subseteq Registered(players') /\ votes' \subseteq votes
      BY <1>000, <2>3 DEF CommitOverride, Cascaded, Registered
    <3> QED BY <1>00, <2>3, <3>1, <3>2, <3>3, StaysUndecided DEF CommitOverride
  <2>4. CASE AnswerOverride(c)
    BY <2>4, ReplyIsUndecided DEF AnswerOverride, Done
  <2>5. CASE DeleteMatch(c) \/ AuditDelete(c)
    BY <1>0, <2>5 DEF DeleteMatch, AuditDelete, DeletionCalls
  <2> QED BY <1>3, <2>1, <2>2, <2>3, <2>4, <2>5 DEF AdminOverrideServiceStep
<1>4. CASE SaveRead(c)
  <2> DEFINE m == [mem[c] EXCEPT !.dirty = Dirty(mem[c].ent)]
  <2>1. m.ent = mem[c].ent
    BY <1>0 DEF Memory
  <2>2. Current("write", call[c], m)
    BY <1>0, <1>4, <2>1 DEF SaveRead, Current, HasEntity, VoteLabels
  <2> QED BY <1>4, <2>2, QuietIsUndecided DEF SaveRead
<1>5. CASE SaveWrite(c)
  <2>1. mem[c].ent.status # "awaiting_confirmation"
    BY <1>0, <1>5 DEF SaveWrite, Current, HasEntity
  <2>2. Awaiting(row') => Awaiting(row)
    BY <1>0, <1>000, <1>5, <2>1, SentinelAssumption DEF SaveWrite, Overwrite, Awaiting
  <2>3. Registered(players) \subseteq Registered(players') /\ votes' \subseteq votes
    BY <1>000, <1>5 DEF SaveWrite, Cascaded, Registered
  <2>4. PICK l \in {"publish", "ok"}, m \in {mem[c], Blank} :
          pc' = [pc EXCEPT ![c] = l] /\ mem' = [mem EXCEPT ![c] = m]
    BY <1>5 DEF SaveWrite, AfterSave, Reply, IInv, TypeOK
  <2>5. Current(l, call[c], m)
    BY DEF Current, HasEntity, VoteLabels
  <2> QED BY <1>5, <2>2, <2>3, <2>4, <2>5, StaysUndecided DEF SaveWrite
<1>6. CASE SaveDuplicate(c) \/ SaveOrphans(c)
  BY <1>6, ReplyIsUndecided DEF SaveDuplicate, SaveOrphans, Done
<1>7. CASE Connect(c)
  <2> DEFINE l == IF call[c].op = "confirm" THEN "lock" ELSE "save"
  <2>1. Current(l, call[c], mem[c]) /\ StepsTo(c, l, mem[c])
    BY <1>0, <1>00, <1>7 DEF Connect, Current, HasEntity, VoteLabels
  <2> QED BY <1>7, <2>1, QuietIsUndecided DEF Connect
<1> QED BY <1>1, <1>2, <1>3, <1>4, <1>5, <1>6, <1>7 DEF Step

LEMMA NextIsUndecided ==
  ASSUME NoDeletion, NoSubmission, IInv, IInv', VotersInv, RoundInv, [Next]_vars
  PROVE  RoundInv'
<1>1. ASSUME NEW c \in Clients, Fail(c) PROVE RoundInv'
  BY <1>1, ReplyIsUndecided DEF Fail, Done
<1>2. ASSUME NEW c \in Clients, Arrive(c) PROVE RoundInv'
  <2>1. UNCHANGED <<row, players, votes, mem>> /\ pc' = [pc EXCEPT ![c] = "find"]
    BY <1>2 DEF Arrive, store, Goto
  <2>2. Undecided'
    BY <2>1 DEF RoundInv, Undecided, Awaiting, Registered
  <2>3. ASSUME NEW d \in Clients
        PROVE  Current(pc[d], call[d], mem[d])'
    <3>1. CASE d = c
      <4>1. pc'[d] = "find"
        BY <2>1, <3>1 DEF IInv, TypeOK
      <4> QED BY <4>1 DEF Current, HasEntity, VoteLabels
    <3>2. CASE d # c
      <4>1. pc'[d] = pc[d] /\ call'[d] = call[d] /\ mem'[d] = mem[d]
        BY <1>2, <2>1, <3>2 DEF Arrive, IInv, TypeOK
      <4> QED BY <2>1, <4>1 DEF RoundInv, Current, Registered
    <3> QED BY <3>1, <3>2
  <2> QED BY <2>2, <2>3 DEF RoundInv
<1>3. CASE UNCHANGED vars
  <2>1. Undecided'
    BY <1>3 DEF vars, RoundInv, Undecided, Awaiting, Registered
  <2> QED BY <1>3, <2>1 DEF vars, RoundInv, Current, Registered
<1> QED BY <1>1, <1>2, <1>3, StepIsUndecided DEF Next, Finished

\* Within one round the quorum is decisive without any discipline of the sessions, whoever
\* cancels, edits or overrides meanwhile: a vote's snapshot is taken under the lock and
\* misses no vote, and a player list read before it is not too long
\* (confirmation.service.ts:92-153).
THEOREM DecisiveRound == ASSUME NoDeletion, NoSubmission PROVE Spec => []QuorumIsDecisive
<1>1. Init => RoundInv
  <2>1. Init => ContractInv
    BY InitIsSound
  <2>2. Init => \A c \in Clients : Current(pc[c], call[c], mem[c])
    BY DEF Init, Current, HasEntity, VoteLabels
  <2> QED BY <2>1, <2>2 DEF ContractInv, RowSound, RoundInv, Undecided, Awaiting
<1>2. IInv /\ IInv' /\ VotersInv /\ RoundInv /\ [Next]_vars => RoundInv'
  BY NextIsUndecided
<1>3. RoundInv => QuorumIsDecisive
  BY DEF RoundInv, Undecided, QuorumIsDecisive
<1> QED BY <1>1, <1>2, <1>3, VotersInvariance, Invariance, PTL DEF Spec
=============================================================================
