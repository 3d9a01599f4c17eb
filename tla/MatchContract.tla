---------------------------- MODULE MatchContract ----------------------------
(***************************************************************************)
(* What the API promises of a match, each promise one atomic step          *)
(* (README.md:179-184, docs/API.md): players are registered up to the      *)
(* capacity and a result is submitted; the players vote, a majority locks  *)
(* it, the creator may call the vote off; afterwards only an administrator *)
(* changes the score, and each change leaves an audit row.                 *)
(***************************************************************************)
EXTENDS Integers, FiniteSets, Sequences

CONSTANTS
  Users, Slots, NoSlot, Capacity,
  Results,       \* both scores
  Pairs          \* the two score columns, either of which may be null

VARIABLES status, result, players, votes, audits

vars == <<status, result, players, votes, audits>>

Seated == {u \in Users : players[u] # NoSlot}
Majority(voters) == 2 * Cardinality(voters) > Cardinality(Seated)

Init ==
  /\ status \in {"draft", "playing", "awaiting_confirmation"}
  /\ result \in Pairs
  /\ players \in [Users -> Slots \cup {NoSlot}]
  /\ votes = {} /\ audits = 0

Editable == status \in {"draft", "playing"}

\* Nobody loses a seat, nobody sits on another's.
Register ==
  /\ Editable
  /\ players' \in [Users -> Slots \cup {NoSlot}]
  /\ \A u \in Seated : players'[u] # NoSlot
  /\ \A u, v \in Users : players'[u] = players'[v] /\ players'[u] # NoSlot => u = v
  /\ Cardinality({u \in Users : players'[u] # NoSlot}) <= Capacity
  /\ UNCHANGED <<status, result, votes, audits>>

Start ==
  /\ status = "draft" /\ Seated # {}
  /\ status' = "playing"
  /\ UNCHANGED <<result, players, votes, audits>>

SetScore ==
  /\ Editable
  /\ result' \in Pairs
  /\ UNCHANGED <<status, players, votes, audits>>

\* A round opens with a full team sheet, a result and no votes.
Submit ==
  /\ Editable
  /\ Cardinality(Seated) >= Capacity
  /\ status' = "awaiting_confirmation"
  /\ result' \in Results
  /\ votes = {}
  /\ UNCHANGED <<players, votes, audits>>

\* One player's vote; the vote that makes a majority locks the result.
Vote(u) ==
  /\ status = "awaiting_confirmation"
  /\ u \in Seated
  /\ votes' = votes \cup {u}
  /\ status' = IF Majority(votes') THEN "confirmed" ELSE status
  /\ UNCHANGED <<result, players, audits>>

\* Calling the vote off: the votes go first, and only then the round is closed.
DropVotes ==
  /\ status = "awaiting_confirmation"
  /\ votes' = {}
  /\ UNCHANGED <<status, result, players, audits>>

Reopen ==
  /\ status = "awaiting_confirmation" /\ votes = {}
  /\ status' = "playing"
  /\ UNCHANGED <<result, players, votes, audits>>

Override ==
  /\ status = "confirmed"
  /\ result' \in Results
  /\ audits' = audits + 1
  /\ UNCHANGED <<status, players, votes>>

Next == \/ Register \/ Start \/ SetScore \/ Submit \/ DropVotes \/ Reopen \/ Override
        \/ \E u \in Users : Vote(u)

Spec == Init /\ [][Next]_vars
=============================================================================
