------------------------------- MODULE Matches -------------------------------
(***************************************************************************)
(* The three match services serving requests against one match, every      *)
(* interleaving of their awaited calls, and what should hold of it.        *)
(***************************************************************************)
EXTENDS MatchService, ConfirmationService, AdminOverrideService

\* queryRunner.connect and startTransaction: the connection is now the request's own.
Connect(c) ==
  /\ pc[c] = "connect"
  /\ Goto(c, IF call[c].op = "confirm" THEN "lock" ELSE "save")
  /\ UNCHANGED <<store, published, quorums, requests, call, mem>>

Step(c) ==
  /\ Granted(c)
  /\ \/ MatchServiceStep(c) \/ ConfirmationServiceStep(c) \/ AdminOverrideServiceStep(c)
     \/ Connect(c) \/ SaveRead(c) \/ SaveOrphans(c) \/ SaveWrite(c) \/ SaveDuplicate(c)

\* Every call of the bound was made and answered: the only place a behaviour may stop.
Finished ==
  /\ requests = MaxRequests
  /\ \A c \in Clients : pc[c] \in Done
  /\ UNCHANGED vars

Next == \/ \E c \in Clients : Arrive(c) \/ Step(c) \/ Fail(c)
        \/ Finished

Spec == Init /\ [][Next]_vars

\* Node runs every started handler on, and both InnoDB's row lock and the pool's
\* connections are granted in turn: a waiting statement is not overtaken for ever. Callers
\* need not call, calls need not fail.
FairSpec == Spec /\ \A c \in Clients : SF_vars(Step(c))

-----------------------------------------------------------------------------
TypeOK ==
  /\ row \in Rows \cup {NoRow}
  /\ players \in Rosters
  /\ votes \in SUBSET Users
  /\ audit \in Seq(AuditRows)
  /\ lock \in Clients \cup {NoClient}
  /\ published \in [Jobs -> Nat]
  /\ quorums \in Nat
  /\ requests \in Nat
  /\ pc \in [Clients -> Done \cup Labels]
  /\ call \in [Clients -> Calls \cup {NoCall}]
  /\ mem \in [Clients -> Memory]

Confirmed(r) == r # NoRow /\ r.status = "confirmed"
InVote(c) == /\ call[c] # NoCall /\ call[c].op = "confirm"
             /\ pc[c] \in {"snapshot", "vote", "commit"}

\* While a vote's transaction is open the match stays as it was found under the lock,
\* whatever the creator's and the administrators' requests do meanwhile: what is saved
\* at the quorum is the round that was read (confirmation.service.ts:101-153).
LockedRoundStable ==
  \A c \in Clients : InVote(c) =>
    lock = c /\ Awaiting(row) /\ row = mem[c].ent

\* Two votes that complete the quorum together do not both commit it, so the events
\* after the commit are published at most once for it (confirmation.service.ts:102).
QuorumCommittedOnce ==
  [][quorums' # quorums =>
       /\ Awaiting(row) /\ Confirmed(row')
       /\ published["match.confirmed"] <= quorums]_vars

\* Every vote kept is a registered player's, although the player check, the vote and the
\* registration are three requests' steps (confirmation.service.ts:92-99, 136-139).
VotersArePlayers == votes \subseteq Registered(players)

\* No player and no vote outlives the match: a registration or a vote that was already
\* past its checks does not put rows back (migrations 004 and 005, ON DELETE CASCADE).
NoOrphans == row = NoRow => votes = {} /\ Registered(players) = {}

\* A round is never left open with the votes that should have closed it: the vote that
\* completes the quorum also confirms (confirmation.service.ts:141-153).
QuorumIsDecisive ==
  Awaiting(row) /\ Unlocked =>
    Cardinality(votes) < Quorum(Cardinality(Registered(players)))

\* "Immutable once confirmed" (README.md:9): nothing takes a match out of `confirmed`.
ConfirmedIsFinal == [][Confirmed(row) => Confirmed(row')]_vars

\* The scores do not change under the votes: what is confirmed is what the round was
\* opened with (match.service.ts:78, 112, 169; confirmation.service.ts:150-153).
VotedResultStable ==
  [][Awaiting(row) => row' # NoRow /\ row'.result = row.result]_vars

\* A confirmed result changes only at an override's commit, and together with one audit
\* row; unless another audit row was written since that override loaded the match, it
\* says from what and to what (admin-override.service.ts:61-83).
OnlyCrossedOverridesMisreport ==
  [][Confirmed(row) /\ Confirmed(row') /\ row'.result # row.result =>
       \E c \in Clients :
         /\ At(c, "commit", "overrideResult")
         /\ Len(audit') = Len(audit) + 1
         /\ Len(audit) = mem[c].since =>
              audit' = Append(audit, [action |-> "result_override", before |-> row.result,
                                      after |-> row'.result])]_vars

\* The players never outnumber the match's capacity (docs/API.md:426).
CapacityRespected == Cardinality(Registered(players)) <= Capacity

\* With one session for the creator's requests, all of this is the contract of
\* MatchContract: the handlers' steps, seen through the committed rows, are its atomic
\* steps or no step of it.
Contract == INSTANCE MatchContract WITH
  status <- row.status, result <- row.result, audits <- Len(audit)
ImplementsContract == Contract!Spec

\* Every request is answered, unless the whole pool is held by requests that wait for a
\* second connection (confirmation.service.ts:118, admin-override.service.ts:116): nothing
\* else makes handlers wait for each other.
Starved == Cardinality({c \in Clients : AwaitsSecond(c)}) = PoolSize
RequestsAnswered ==
  \A c \in Clients : (pc[c] \notin Done) ~> (pc[c] \in Done \/ Starved)

\* The event of a quorum follows its commit, unless the request that committed it fails
\* in between: nothing else makes up for it ("Publish events AFTER the transaction
\* commits - exactly once per quorum", confirmation.service.ts:169).
QuorumAnnounced ==
  \A c \in Clients : At(c, "publish", "confirm") ~>
    (published["match.confirmed"] = quorums \/ pc[c] = "error")
=============================================================================
