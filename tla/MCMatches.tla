------------------------------ MODULE MCMatches ------------------------------
(***************************************************************************)
(* Small instances of Matches: who may call what, and from which match.    *)
(***************************************************************************)
EXTENDS Matches, TLC

CONSTANTS ann, bob, cyd, dan,     \* users; ann creates the match
          tab1, tab2, phone, desk,  \* sessions
          s1, s2, s3, s4,         \* slots
          zero, one               \* scores

Nobody == [u \in Users |-> NoSlot]
Seat(u, s) == [Nobody EXCEPT ![u] = s]
JustAnn == Seat(ann, s1)
Two == [Seat(ann, s1) EXCEPT ![bob] = s2]
Four == [Two EXCEPT ![cyd] = s3, ![dan] = s4]

Body(a, b) == [s \in Sides |-> IF s = "scoreA" THEN a ELSE b]
r1 == Body(one, zero)
r2 == Body(zero, one)

Call(op, u) == [op |-> op, user |-> u, result |-> r1, players |-> Nobody]
Scored(op, u, r) == [Call(op, u) EXCEPT !.result = r]
Seating(u, p) == [Call("addPlayers", u) EXCEPT !.players = p]

Draft == [status |-> "draft", result |-> NoResult, confirmedAt |-> FALSE]
Playing == [Draft EXCEPT !.status = "playing"]
Submitted == [Draft EXCEPT !.status = "awaiting_confirmation", !.result = r1]

\* The four players of a 2v2 vote; the creator may cancel under their votes, and one of
\* the players is an administrator, who may override what was confirmed.
Voting == tab1 :> {Call("confirm", ann), Call("cancel", ann)} @@ tab2 :> {Call("confirm", bob)}
       @@ phone :> {Call("confirm", cyd)}
       @@ desk :> {Call("confirm", dan), Call("overrideResult", dan)}

\* The creator works from one session, the players from theirs, and two administrators
\* may override at once.
Lifecycle == tab1 :> {Seating(ann, Two), Seating(ann, Seat(bob, s2)),
                      Seating(ann, Seat(cyd, s3)), Scored("update", ann, Body(one, NotGiven)),
                      Scored("update", ann, Body(NoScore, one)), Scored("submitResult", ann, r2), Call("confirm", ann)}
          @@ phone :> {Call("confirm", bob), Scored("overrideResult", bob, r1)}
          @@ desk :> {Scored("overrideResult", cyd, r1), Scored("overrideResult", cyd, Body(one, one))}

\* The creator has two tabs open, players vote, administrators override and delete the
\* match along both routes, all at once.
Disorder == tab1 :> {Scored("submitResult", ann, r2), Call("cancel", ann), Seating(ann, Seat(cyd, s3))}
         @@ tab2 :> {Scored("update", ann, Body(NotGiven, zero)), Call("cancel", ann)}
         @@ phone :> {Call("confirm", ann), Call("confirm", bob)}
         @@ desk :> {Call("delete", cyd), Call("deleteMatch", cyd), Scored("overrideResult", cyd, r2)}

\* The creator cancels the round while the players vote.
Cancelling == tab1 :> {Call("cancel", ann)}
           @@ phone :> {Call("confirm", ann)} @@ desk :> {Call("confirm", bob)}

\* Two tabs register one player each for the last free place.
LastSeat == tab1 :> {Seating(ann, Seat(bob, s2))} @@ tab2 :> {Seating(ann, Seat(cyd, s3))}
=============================================================================
