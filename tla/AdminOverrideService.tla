------------------------- MODULE AdminOverrideService -------------------------
(***************************************************************************)
(* libs/matches/src/services/admin-override.service.ts: an administrator   *)
(* rewrites the result of a confirmed match, with an audit row in the same *)
(* transaction, or deletes a match.                                        *)
(***************************************************************************)
EXTENDS MatchStore

IsAdmin(c) == call[c].user \in Admins

-----------------------------------------------------------------------------
(* PATCH /admin/matches/:id/result *)

\* The match, and with it the audit row's before_data, is read outside the transaction.
BeforeDataLate(r, dto) == dto
BeforeData(r, dto) == r.result

OverrideResult(c) ==
  /\ At(c, "find", "overrideResult")
  /\ IF IsAdmin(c) /\ row # NoRow /\ row.status = "confirmed"
       THEN /\ Goto(c, "connect")
            /\ Remember(c, [mem[c] EXCEPT !.ent = [row EXCEPT !.result = call[c].result],
                                          !.seen = players,
                                          !.before = BeforeData(row, call[c].result),
                                          !.since = Len(audit)])
       ELSE Reply(c, "rejected")
  /\ UNCHANGED <<store, published, quorums, requests, call>>

\* The UPDATE (or INSERT) of the save takes the row lock until the end of the
\* transaction; when no column differs there is no statement and no lock.
Writes(m) == m.dirty # {} /\ (row # NoRow \/ "insert" \in m.dirty)

OverrideWrite(c) ==
  /\ At(c, "write", "overrideResult")
  /\ ~Duplicate(c)
  /\ IF Writes(mem[c]) THEN Unlocked /\ lock' = c ELSE UNCHANGED lock
  /\ Goto(c, "audit")
  /\ UNCHANGED <<row, players, votes, audit, published, quorums, requests, call, mem>>

\* The audit row is inserted, unseen until the commit, and both jobs are added to their
\* queues while the transaction is still open.
PublishAudit(c) ==
  /\ At(c, "audit", "overrideResult")
  /\ Publish("audit-log-write")
  /\ Goto(c, "invalidate")
  /\ UNCHANGED <<store, quorums, requests, call, mem>>

PublishOverridden(c) ==
  /\ At(c, "invalidate", "overrideResult")
  /\ Publish("leaderboard-invalidate")
  /\ Goto(c, "commit")
  /\ UNCHANGED <<store, quorums, requests, call, mem>>

CommitOverride(c) ==
  /\ At(c, "commit", "overrideResult")
  /\ row' = IF lock = c THEN Overwrite(row, mem[c]) ELSE row
  /\ players' = IF lock = c THEN Cascaded(players, mem[c]) ELSE players
  /\ audit' = Append(audit, [action |-> "result_override", before |-> mem[c].before,
                             after |-> call[c].result])
  /\ lock' = Released(c)
  /\ Goto(c, "reread") /\ UNCHANGED mem
  /\ UNCHANGED <<votes, published, quorums, requests, call>>

\* findPlayers for the answer, on a connection of its own while the query runner's is not
\* yet released; a failure here comes after the commit.
AnswerOverride(c) ==
  /\ At(c, "reread", "overrideResult")
  /\ Reply(c, "ok")
  /\ UNCHANGED <<store, published, quorums, requests, call>>

-----------------------------------------------------------------------------
(* DELETE /admin/matches/:id *)

\* Only a match found confirmed is audited first; DeleteRow of MatchService follows.
DeleteMatch(c) ==
  /\ At(c, "find", "deleteMatch")
  /\ IF IsAdmin(c) /\ row # NoRow
       THEN IF row.status = "confirmed"
              THEN Goto(c, "audit") /\ Remember(c, [mem[c] EXCEPT !.before = row.result])
              ELSE Goto(c, "delete") /\ UNCHANGED mem
       ELSE Reply(c, "rejected")
  /\ UNCHANGED <<store, published, quorums, requests, call>>

AuditDelete(c) ==
  /\ At(c, "audit", "deleteMatch")
  /\ audit' = Append(audit, [action |-> "match_delete", before |-> mem[c].before,
                             after |-> NoResult])
  /\ Goto(c, "delete")
  /\ UNCHANGED <<row, players, votes, lock, published, quorums, requests, call, mem>>

AdminOverrideServiceStep(c) ==
  \/ OverrideResult(c) \/ OverrideWrite(c) \/ PublishAudit(c) \/ PublishOverridden(c)
  \/ CommitOverride(c) \/ AnswerOverride(c)
  \/ DeleteMatch(c) \/ AuditDelete(c)
=============================================================================
