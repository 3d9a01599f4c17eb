---------------------------- MODULE MatchService ----------------------------
(***************************************************************************)
(* libs/matches/src/services/match.service.ts: the creator registers       *)
(* players, edits the scores and submits the result; an administrator      *)
(* deletes the match.  Nothing here runs in a transaction of its own.      *)
(***************************************************************************)
EXTENDS MatchStore

\* Statuses in which the creator may no longer touch the match.
LockedOnceConfirmed(status) == status = "confirmed"
LockedWhileVoting(status) == status = "awaiting_confirmation"
Locked(status) == status \in {"awaiting_confirmation", "confirmed"}

\* findById, the creator check and the lock check the three creator handlers begin with.
MayEdit(c) == /\ row # NoRow
              /\ call[c].user = Creator
              /\ ~Locked(row.status)

Load(c, ent) == Remember(c, [mem[c] EXCEPT !.ent = ent, !.seen = players])

Refuse(c) == /\ Reply(c, "rejected")
             /\ UNCHANGED <<store, published, quorums, requests, call>>

Rejected(c) ==
  /\ pc[c] = "find"
  /\ call[c].op \in {"addPlayers", "update", "submitResult"}
  /\ ~MayEdit(c)
  /\ Refuse(c)

-----------------------------------------------------------------------------
(* PATCH /matches/:id *)

\* A score the body leaves out keeps its value; null clears it.
Given(dto, old) == [s \in Sides |-> IF dto[s] = NotGiven THEN old[s] ELSE dto[s]]

Update(c) ==
  /\ At(c, "find", "update")
  /\ MayEdit(c)
  /\ Load(c, [row EXCEPT !.result = Given(call[c].result, @)])
  /\ Goto(c, "save")
  /\ UNCHANGED <<store, published, quorums, requests, call>>

-----------------------------------------------------------------------------
(* POST /matches/:id/players *)

AddPlayers(c) ==
  /\ At(c, "find", "addPlayers")
  /\ MayEdit(c)
  /\ Load(c, row)
  /\ Goto(c, "players")
  /\ UNCHANGED <<store, published, quorums, requests, call>>

\* existingPlayers.length + dto.players.length <= capacity, and no slot of the request
\* is occupied, not even by the same user.
FitsBefore(existing, dto) == Cardinality(Registered(existing)) <= Capacity
Fits(existing, dto) ==
  Cardinality(Registered(existing)) + Cardinality(Registered(dto)) <= Capacity
SlotTaken(existing, dto) ==
  \E u \in Registered(dto), v \in Registered(existing) : existing[v] = dto[u]

CheckPlayers(c) ==
  /\ At(c, "players", "addPlayers")
  /\ IF Fits(players, call[c].players) /\ ~SlotTaken(players, call[c].players)
       THEN Goto(c, "insert") /\ UNCHANGED mem
       ELSE Reply(c, "rejected")
  /\ UNCHANGED <<store, published, quorums, requests, call>>

\* savePlayers: one transaction that inserts the new players and moves the ones already
\* registered. The foreign key makes it wait for the match's row lock and fail if the
\* match is gone; the unique (match, team, slot) makes it fail on a slot taken since.
Seated(old, dto) == [u \in Users |-> IF dto[u] # NoSlot THEN dto[u] ELSE old[u]]

InsertPlayers(c) ==
  /\ At(c, "insert", "addPlayers")
  /\ Unlocked
  /\ LET after == Seated(players, call[c].players) IN
       IF row # NoRow /\ SlotsDistinct(after)
         THEN players' = after /\ Goto(c, "reread") /\ UNCHANGED mem
         ELSE Reply(c, "error") /\ UNCHANGED players
  /\ UNCHANGED <<row, votes, audit, lock, published, quorums, requests, call>>

\* The first players turn the entity loaded at the start, if a draft, into a playing match.
RereadPlayers(c) ==
  /\ At(c, "reread", "addPlayers")
  /\ IF mem[c].ent.status = "draft" /\ Registered(players) # {}
       THEN Goto(c, "save") /\ Remember(c, [mem[c] EXCEPT !.ent = [@ EXCEPT !.status = "playing"]])
       ELSE Reply(c, "ok")
  /\ UNCHANGED <<store, published, quorums, requests, call>>

-----------------------------------------------------------------------------
(* POST /matches/:id/result *)

SubmitResult(c) ==
  /\ At(c, "find", "submitResult")
  /\ MayEdit(c)
  /\ Load(c, row)
  /\ Goto(c, "players")
  /\ UNCHANGED <<store, published, quorums, requests, call>>

Complete(p) == Cardinality(Registered(p)) >= Capacity

CheckComplete(c) ==
  /\ At(c, "players", "submitResult")
  /\ IF Complete(players)
       THEN /\ Goto(c, "save")
            /\ Remember(c, [mem[c] EXCEPT !.ent =
                 [@ EXCEPT !.status = "awaiting_confirmation", !.result = call[c].result]])
       ELSE Reply(c, "rejected")
  /\ UNCHANGED <<store, published, quorums, requests, call>>

PublishSubmitted(c) ==
  /\ At(c, "publish", "submitResult")
  /\ Publish("match.result_submitted")
  /\ Reply(c, "ok")
  /\ UNCHANGED <<store, quorums, requests, call>>

-----------------------------------------------------------------------------
(* DELETE /matches/:id *)

FindToDelete(c) ==
  /\ At(c, "find", "delete")
  /\ IF call[c].user \in Admins /\ row # NoRow
       THEN Goto(c, "delete") /\ UNCHANGED mem
       ELSE Reply(c, "rejected")
  /\ UNCHANGED <<store, published, quorums, requests, call>>

\* The players and the votes go with the row; audit rows stay. deleteMatch of
\* AdminOverrideService ends with the same statement.
DeleteRow(c) ==
  /\ pc[c] = "delete"
  /\ Unlocked
  /\ row' = NoRow
  /\ players' = [u \in Users |-> NoSlot]
  /\ votes' = {}
  /\ Reply(c, "ok")
  /\ UNCHANGED <<audit, lock, published, quorums, requests, call>>

MatchServiceStep(c) ==
  \/ Rejected(c) \/ Update(c)
  \/ AddPlayers(c) \/ CheckPlayers(c) \/ InsertPlayers(c) \/ RereadPlayers(c)
  \/ SubmitResult(c) \/ CheckComplete(c) \/ PublishSubmitted(c)
  \/ FindToDelete(c) \/ DeleteRow(c)
=============================================================================
