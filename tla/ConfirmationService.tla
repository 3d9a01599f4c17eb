------------------------- MODULE ConfirmationService -------------------------
(***************************************************************************)
(* libs/matches/src/services/confirmation.service.ts: a player's vote for  *)
(* the submitted result, taken in a transaction that holds the match's row *)
(* lock, and the creator's cancellation of the round, which holds nothing. *)
(***************************************************************************)
EXTENDS MatchStore

Awaiting(r) == r # NoRow /\ r.status = "awaiting_confirmation"

\* calculateQuorum
QuorumHalf(n) == (n + 1) \div 2
Quorum(n) == n \div 2 + 1

-----------------------------------------------------------------------------
(* POST /matches/:id/confirmations *)

\* The fail-fast check, outside the transaction.
Confirm(c) ==
  /\ At(c, "find", "confirm")
  /\ IF Awaiting(row) THEN Goto(c, "players") /\ UNCHANGED mem
                      ELSE Reply(c, "rejected")
  /\ UNCHANGED <<store, published, quorums, requests, call>>

\* The players found here, before the lock, are those the quorum is computed from.
Anyone(c) == TRUE
IsPlayer(c) == call[c].user \in Registered(players)

FindVoter(c) ==
  /\ At(c, "players", "confirm")
  /\ IF IsPlayer(c)
       THEN Goto(c, "connect") /\ Remember(c, [mem[c] EXCEPT !.seen = players])
       ELSE Reply(c, "rejected")
  /\ UNCHANGED <<store, published, quorums, requests, call>>

\* SELECT ... FOR UPDATE. A round that ended meanwhile is rolled back and answered with
\* its state: AnswerClosed reads the votes while the connection is still held.
RoundFound(r) == r # NoRow
RoundOpenOrGone(r) == r = NoRow \/ r.status = "awaiting_confirmation"
RoundOpen(r) == Awaiting(r)

LockRow(c) ==
  /\ At(c, "lock", "confirm")
  /\ Unlocked
  /\ IF RoundOpen(row)
       THEN /\ lock' = c
            /\ Goto(c, "snapshot")
            /\ Remember(c, [mem[c] EXCEPT !.ent = row])
       ELSE Goto(c, "reread") /\ UNCHANGED <<lock, mem>>
  /\ UNCHANGED <<row, players, votes, audit, published, quorums, requests, call>>

AnswerClosed(c) ==
  /\ At(c, "reread", "confirm")
  /\ Reply(c, "ok")
  /\ UNCHANGED <<store, published, quorums, requests, call>>

\* The transaction's first plain SELECT fixes its snapshot: FOR UPDATE does not.
ReadVotes(c) ==
  /\ At(c, "snapshot", "confirm")
  /\ Remember(c, [mem[c] EXCEPT !.snap = votes])
  /\ Goto(c, "vote")
  /\ UNCHANGED <<store, published, quorums, requests, call>>

\* INSERT of the vote unless the snapshot has it; nobody else sees it before the commit.
CastVote(c) ==
  /\ At(c, "vote", "confirm")
  /\ Goto(c, "commit")
  /\ UNCHANGED <<store, published, quorums, requests, call, mem>>

Counted(c) == mem[c].snap \cup {call[c].user}
QuorumExceeded(c) ==
  Cardinality(Counted(c)) > Quorum(Cardinality(Registered(mem[c].seen)))
QuorumReached(c) ==
  Cardinality(Counted(c)) >= Quorum(Cardinality(Registered(mem[c].seen)))

\* The votes found, the status saved and the commit: the row stays locked from LockRow
\* to here, so nobody can tell these calls apart. A vote the snapshot has is not inserted
\* again, even if a cancellation deleted it since.
CommitVote(c) ==
  /\ At(c, "commit", "confirm")
  /\ votes' = votes \cup (Counted(c) \ mem[c].snap)
  /\ IF QuorumReached(c)
       THEN /\ row' = [mem[c].ent EXCEPT !.status = "confirmed", !.confirmedAt = TRUE]
            /\ quorums' = quorums + 1
            /\ Goto(c, "publish") /\ UNCHANGED mem
       ELSE Reply(c, "ok") /\ UNCHANGED <<row, quorums>>
  /\ lock' = Released(c)
  /\ UNCHANGED <<players, audit, published, requests, call>>

PublishConfirmed(c) ==
  /\ At(c, "publish", "confirm")
  /\ Publish("match.confirmed")
  /\ Goto(c, "invalidate")
  /\ UNCHANGED <<store, quorums, requests, call, mem>>

PublishInvalidate(c) ==
  /\ At(c, "invalidate", "confirm")
  /\ Publish("leaderboard-invalidate")
  /\ Reply(c, "ok")
  /\ UNCHANGED <<store, quorums, requests, call>>

-----------------------------------------------------------------------------
(* POST /matches/:id/confirmations/cancel *)

ReopenedCancelled(r) == [r EXCEPT !.status = "cancelled"]
Reopened(r) == [r EXCEPT !.status = "playing"]

Cancel(c) ==
  /\ At(c, "find", "cancel")
  /\ IF Awaiting(row) /\ call[c].user = Creator
       THEN /\ Goto(c, "clear")
            /\ Remember(c, [mem[c] EXCEPT !.ent = Reopened(row),
                                          !.seen = players])
       ELSE Reply(c, "rejected")
  /\ UNCHANGED <<store, published, quorums, requests, call>>

\* Votes inserted by an open transaction: the DELETE waits for them.
Uncommitted(c) == At(c, "commit", "confirm") /\ call[c].user \notin mem[c].snap

ClearVotes(c) ==
  /\ At(c, "clear", "cancel")
  /\ \A d \in Clients : ~Uncommitted(d)
  /\ votes' = {}
  /\ Goto(c, "save")
  /\ UNCHANGED <<row, players, audit, lock, published, quorums, requests, call, mem>>

PublishCancelled(c) ==
  /\ At(c, "publish", "cancel")
  /\ Publish("match.confirmation_cancelled")
  /\ Reply(c, "ok")
  /\ UNCHANGED <<store, quorums, requests, call>>

ConfirmationServiceStep(c) ==
  \/ Confirm(c) \/ FindVoter(c) \/ LockRow(c) \/ AnswerClosed(c) \/ ReadVotes(c)
  \/ CastVote(c) \/ CommitVote(c) \/ PublishConfirmed(c) \/ PublishInvalidate(c)
  \/ Cancel(c) \/ ClearVotes(c) \/ PublishCancelled(c)
=============================================================================
