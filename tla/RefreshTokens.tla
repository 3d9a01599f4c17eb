---------------------------- MODULE RefreshTokens ----------------------------
(***************************************************************************)
(* The table refresh_tokens and the three requests of the auth server that *)
(* change it: the OAuth2 callback (or the mobile exchange), which issues a *)
(* token, POST /auth/refresh, which exchanges one, and POST /auth/logout.  *)
(* Tokens are numbered as the table numbers them; what a client holds is   *)
(* the number of the row whose hash its raw token has.                     *)
(***************************************************************************)
EXTENDS Naturals, Sequences

CONSTANTS
  Clients,       \* browser tabs and phones; each has at most one request in flight
  Users,
  NoUser,        \* a request that names no user
  MaxRequests,   \* bound: requests made in one behaviour
  Failures       \* whether awaited calls may fail (and the process may die)

ASSUME UserAssumption == NoUser \notin Users
ASSUME BoundAssumption == MaxRequests \in Nat /\ Failures \in BOOLEAN

VARIABLES
  tokens,        \* refresh_tokens, in insertion order
  known,         \* tokens that were sent to a client
  requests,      \* bound: requests made so far
  pc,            \* where each client's request is
  mem,           \* each request's input and locals
  presented,     \* history: tokens some request was made with
  exchanged      \* history: how many refreshes each token got a new one for

vars == <<tokens, known, requests, pc, mem, presented, exchanged>>

None == 0
Row == [user : Users, used : BOOLEAN, expired : BOOLEAN, replacedBy : Nat]
Fresh(u) == [user |-> u, used |-> FALSE, expired |-> FALSE, replacedBy |-> None]
Done == {"idle", "ok", "rejected", "error"}
Labels == {"login", "validate", "insert", "retire", "second", "logout"}
\* token: the one presented; user: whose; issued: the one to be returned; replayed
\* (history): the token was used before the request came.
Locals == [token : Nat, user : Users \cup {NoUser}, issued : Nat, replayed : BOOLEAN]
Blank == [token |-> None, user |-> NoUser, issued |-> None, replayed |-> FALSE]

Init ==
  /\ tokens = << >> /\ known = {} /\ requests = 0
  /\ pc = [c \in Clients |-> "idle"]
  /\ mem = [c \in Clients |-> Blank]
  /\ presented = {} /\ exchanged = << >>

-----------------------------------------------------------------------------
Goto(c, label) == pc' = [pc EXCEPT ![c] = label]
LastPlusOne == Len(tokens) + 1
Last == Len(tokens)
Insert(u) == tokens' = Append(tokens, Fresh(u))

Arrive(c, label, m) ==
  /\ pc[c] \in Done
  /\ requests < MaxRequests
  /\ requests' = requests + 1
  /\ Goto(c, label)
  /\ mem' = [mem EXCEPT ![c] = m]
  /\ UNCHANGED <<tokens, known, exchanged>>

\* Azure vouched for u, and the row of u exists.
Login(c) ==
  \E u \in Users : /\ Arrive(c, "login", [Blank EXCEPT !.user = u])
                   /\ UNCHANGED presented
Used(t) == t \in DOMAIN tokens /\ tokens[t].used
\* Tokens that were sent to a client come back from any client, as often as it likes;
\* None stands for a string no row has the hash of.
Present(c, label) ==
  \E t \in known \cup {None} :
    /\ Arrive(c, label, [Blank EXCEPT !.token = t, !.replayed = Used(t)])
    /\ presented' = presented \cup {t}
Refresh(c) == Present(c, "validate")
Logout(c) == Present(c, "logout")

\* issueTokenPair, called by the callback: one new row, and the reply.
IssueFirst(c) ==
  /\ pc[c] = "login"
  /\ Insert(mem[c].user)
  /\ known' = known \cup {Last + 1}
  /\ Goto(c, "ok")
  /\ exchanged' = Append(exchanged, 0)
  /\ UNCHANGED <<requests, mem, presented>>

ValidUnlessExpired(t) == t \in DOMAIN tokens /\ ~tokens[t].expired
Valid(t) == t \in DOMAIN tokens /\ ~tokens[t].used /\ ~tokens[t].expired

\* validate, and the lookup of the token's user.
Validate(c) ==
  LET t == mem[c].token IN
  /\ pc[c] = "validate"
  /\ \/ /\ Valid(t)
        /\ mem' = [mem EXCEPT ![c].user = tokens[t].user]
        /\ Goto(c, "insert")
     \/ ~Valid(t) /\ Goto(c, "rejected") /\ UNCHANGED mem
  /\ UNCHANGED <<tokens, known, requests, presented, exchanged>>

\* rotate, first await: the successor.
InsertSuccessor(c) ==
  /\ pc[c] = "insert"
  /\ Insert(mem[c].user)
  /\ mem' = [mem EXCEPT ![c].issued = Last + 1]
  /\ Goto(c, "retire")
  /\ exchanged' = Append(exchanged, 0)
  /\ UNCHANGED <<known, requests, presented>>

RetiredSuccessor(old, new) == [tokens EXCEPT ![new].used = TRUE]
RetiredByUser(old, new) ==
  [t \in DOMAIN tokens |-> IF tokens[t].user = tokens[old].user /\ t # new
                           THEN [tokens[t] EXCEPT !.used = TRUE, !.replacedBy = new] ELSE tokens[t]]
RetiredLast(old, new) == [tokens EXCEPT ![old].used = TRUE, ![old].replacedBy = Last]
RetiredRecycled(old, new) == [tokens EXCEPT ![old] = Fresh(tokens[old].user)]
Retired(old, new) == [tokens EXCEPT ![old].used = TRUE, ![old].replacedBy = new]

\* rotate, second await: the old token is used and replaced, whatever it was meanwhile.
Retire(c) ==
  /\ pc[c] = "retire"
  /\ tokens' = Retired(mem[c].token, mem[c].issued)
  /\ Goto(c, "second")
  /\ UNCHANGED <<known, requests, mem, presented, exchanged>>

\* issueTokenPair, called for its access token: it issues a refresh token too, which
\* nobody gets. The reply has the successor.
IssueSecond(c) ==
  /\ pc[c] = "second"
  /\ Insert(mem[c].user)
  /\ known' = known \cup {mem[c].issued}
  /\ Goto(c, "ok")
  /\ exchanged' = Append([exchanged EXCEPT ![mem[c].token] = @ + 1], 0)
  /\ UNCHANGED <<requests, mem, presented>>

\* invalidate: used, whether or not it was. The chain is not touched. The UPDATE finds
\* no row for a token that was never issued.
Invalidate(c) ==
  /\ pc[c] = "logout"
  /\ tokens' = [tokens EXCEPT ![mem[c].token].used = TRUE]
  /\ Goto(c, "ok")
  /\ UNCHANGED <<known, requests, mem, presented, exchanged>>

\* 24 hours pass for a token. The clock of any one request is not modelled finer.
Expire ==
  /\ \E t \in DOMAIN tokens : /\ ~tokens[t].expired
                              /\ tokens' = [tokens EXCEPT ![t].expired = TRUE]
  /\ UNCHANGED <<known, requests, pc, mem, presented, exchanged>>

\* An awaited call throws, or the process dies: nothing is undone.
Fail(c) ==
  /\ Failures
  /\ pc[c] \notin Done
  /\ Goto(c, "error")
  /\ UNCHANGED <<tokens, known, requests, mem, presented, exchanged>>

Finished ==
  /\ requests = MaxRequests /\ \A c \in Clients : pc[c] \in Done
  /\ UNCHANGED vars

Next ==
  \/ \E c \in Clients :
       \/ Login(c) \/ Refresh(c) \/ Logout(c)
       \/ IssueFirst(c) \/ Validate(c) \/ InsertSuccessor(c) \/ Retire(c)
       \/ IssueSecond(c) \/ Invalidate(c) \/ Fail(c)
  \/ Expire
  \/ Finished

Spec == Init /\ [][Next]_vars

-----------------------------------------------------------------------------
TypeOK ==
  /\ tokens \in Seq(Row)
  /\ known \subseteq DOMAIN tokens
  /\ requests \in Nat
  /\ pc \in [Clients -> Done \cup Labels]
  /\ mem \in [Clients -> Locals]
  /\ presented \subseteq known \cup {None}
  /\ exchanged \in Seq(Nat) /\ Len(exchanged) = Len(tokens)

\* A used token stays used and keeps its owner, and no row goes away, however rotations
\* and logouts of it overlap (refresh-token.service.ts:65, 72).
SpentStaysSpent ==
  [][\A t \in DOMAIN tokens :
       /\ t \in DOMAIN tokens' /\ tokens'[t].user = tokens[t].user
       /\ tokens[t].used => tokens'[t].used]_vars

\* replaced_by leads from a used token to a later one of the same user, so chains end,
\* also when two refreshes rotate one token and the later write wins
\* (refresh-token.service.ts:62-65).
ChainForward ==
  \A t \in DOMAIN tokens : tokens[t].replacedBy # None =>
    /\ tokens[t].used
    /\ tokens[t].replacedBy \in t + 1 .. Last
    /\ tokens[tokens[t].replacedBy].user = tokens[t].user

\* Nobody's token stops working unless it was itself presented: neither another
\* session's rotation nor another session's logout spends it.
OnlyPresentedAreSpent == \A t \in DOMAIN tokens : tokens[t].used => t \in presented

\* A refresh or logout that finds its token used from the start never gets a new one:
\* the answer is 401, whatever else is in flight (test-criteria.md 6d and 6f).
ReplayRejected ==
  \A c \in Clients : mem[c].replayed => mem[c].issued = None

\* "single-use rotation" (docs/API.md:153): a token is exchanged once.
SingleUse == \A t \in DOMAIN exchanged : exchanged[t] <= 1
=============================================================================
