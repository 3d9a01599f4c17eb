------------------------------- MODULE Sessions -------------------------------
(***************************************************************************)
(* Signing in and staying signed in: RefreshTokens together with the table *)
(* users, the upsert of a sign-in, renames, the operator's change of       *)
(* is_admin in the database, and the access tokens that carry it.  A user  *)
(* is an Azure identity (azure_oid); its row exists from the first sign-in *)
(* on and is never deleted.                                                *)
(***************************************************************************)
EXTENDS RefreshTokens, FiniteSets

CONSTANTS
  Names,         \* display names
  NoAccount      \* the user has no row in `users`

Accounts == [name : Names, admin : BOOLEAN]
ASSUME AccountAssumption == NoAccount \notin Accounts /\ IsFiniteSet(Clients)

VARIABLES
  accounts,      \* users, by azure_oid
  phase,         \* how far each client's sign-in or refresh is with its user's row
  local,         \* the user entity each request holds
  access,        \* access tokens clients hold that have not expired
  ordered,       \* history: the is_admin the operator last set for each user, or the default
  reverted,      \* history: users whose is_admin an overlapping sign-in wrote since
  broken         \* history: refresh tokens whose exchange failed after they were retired

tables == <<accounts, access, ordered, reverted, broken>>
sessionVars == <<tokens, known, requests, pc, mem, presented, exchanged,
                 accounts, phase, local, access, ordered, reverted, broken>>

Columns == {"name", "admin"}
SigningIn == {"find", "reread", "save"}
Phases == SigningIn \cup {"out", "loaded"}
\* dirty: the columns save will write; crossed (history): the operator set is_admin while
\* a sign-in held the entity; roles (history): the values is_admin had since the request came.
Sessions == [user : Users \cup {NoUser}, entity : Accounts \cup {NoAccount},
             dirty : SUBSET (Columns \cup {"insert"}), crossed : BOOLEAN, roles : SUBSET BOOLEAN]
Nothing == [user |-> NoUser, entity |-> NoAccount, dirty |-> {}, crossed |-> FALSE, roles |-> {}]

SessionsInit ==
  /\ Init
  /\ accounts = [u \in Users |-> NoAccount]
  /\ phase = [c \in Clients |-> "out"]
  /\ local = [c \in Clients |-> Nothing]
  /\ access = {} /\ reverted = {} /\ broken = {}
  /\ ordered = [u \in Users |-> FALSE]

-----------------------------------------------------------------------------
Enter(c, label) == phase' = [phase EXCEPT ![c] = label]
Keep(c, l) == local' = [local EXCEPT ![c] = l]
Leave(c) == Enter(c, "out") /\ Keep(c, Nothing)

IsAdmin(row) == row # NoAccount /\ row.admin
\* Room within the bound for one more request next to the sign-ins under way.
Room == requests + Cardinality({c \in Clients : phase[c] \in SigningIn}) < MaxRequests

\* GET /connect or POST /connect/exchange: MSAL exchanged the code for the claims of u.
SignIn(c) ==
  /\ pc[c] \in Done /\ phase[c] = "out" /\ Room
  /\ \E u \in Users, n \in Names :
       Keep(c, [Nothing EXCEPT !.user = u, !.entity = [name |-> n, admin |-> FALSE],
                               !.roles = {IsAdmin(accounts[u])}])
  /\ Enter(c, "find")
  /\ UNCHANGED <<vars, tables>>

\* upsert: the row is found and takes the claims, or there is none and one is to be inserted.
UpsertReset(row, claims) == claims
Upserted(row, claims) == [row EXCEPT !.name = claims.name]
FindAccount(c) ==
  LET l == local[c]  row == accounts[l.user] IN
  /\ phase[c] = "find"
  /\ \/ /\ row # NoAccount
        /\ Keep(c, [l EXCEPT !.entity = Upserted(row, l.entity)])
        /\ Enter(c, "reread")
     \/ /\ row = NoAccount
        /\ Keep(c, [l EXCEPT !.dirty = {"insert"}])
        /\ Enter(c, "save")
  /\ UNCHANGED <<vars, tables>>

\* save, first half: the row as it is now tells which columns of the entity to write.
RereadAccount(c) ==
  LET l == local[c]  row == accounts[l.user] IN
  /\ phase[c] = "reread"
  /\ Keep(c, [l EXCEPT !.dirty = {f \in Columns : row[f] # l.entity[f]}])
  /\ Enter(c, "save")
  /\ UNCHANGED <<vars, tables>>

SavedMemory(row, l) == row
Saved(row, l) ==
  IF "insert" \in l.dirty THEN l.entity
  ELSE [name |-> IF "name" \in l.dirty THEN l.entity.name ELSE row.name,
        admin |-> IF "admin" \in l.dirty THEN l.entity.admin ELSE row.admin]
\* Every request of u under way sees the new value of is_admin.
Noticing(u, admin, l) == IF l.user = u THEN [l EXCEPT !.roles = @ \cup {admin}] ELSE l

\* save, second half, and the call of issueTokenPair: what follows is the request
\* RefreshTokens knows as a login.
SaveAccount(c) ==
  LET l == local[c]  u == l.user  row == Saved(accounts[u], l) IN
  /\ phase[c] = "save"
  /\ "insert" \in l.dirty => accounts[u] = NoAccount
  /\ accounts' = [accounts EXCEPT ![u] = row]
  /\ local' = [d \in Clients |-> Noticing(u, IsAdmin(row), local[d])]
  /\ reverted' = IF l.crossed THEN reverted \cup {u} ELSE reverted
  /\ Enter(c, "loaded")
  /\ Arrive(c, "login", [Blank EXCEPT !.user = u])
  /\ UNCHANGED <<presented, access, ordered, broken>>

\* Another first sign-in of the user inserted the row: the unique key on azure_oid refuses.
SaveRefused(c) ==
  /\ phase[c] = "save"
  /\ "insert" \in local[c].dirty /\ accounts[local[c].user] # NoAccount
  /\ Leave(c)
  /\ UNCHANGED <<vars, tables>>

FailSignIn(c) ==
  /\ Failures
  /\ phase[c] \in SigningIn
  /\ Leave(c)
  /\ UNCHANGED <<vars, tables>>

-----------------------------------------------------------------------------
(* The requests of RefreshTokens, with the entity they hold and what they sign. *)

Owner(t) == IF t \in DOMAIN tokens THEN tokens[t].user ELSE NoUser
SessionPresents(c) ==
  /\ phase[c] = "out" /\ Room
  /\ Refresh(c) \/ Logout(c)
  /\ LET u == Owner(mem'[c].token) IN
     Keep(c, [Nothing EXCEPT !.user = u, !.roles = IF u = NoUser THEN {} ELSE {IsAdmin(accounts[u])}])
  /\ UNCHANGED <<tables, phase>>

\* userService.findById, between validate and rotate.
LoadUser(c) ==
  /\ pc[c] = "insert" /\ phase[c] = "out"
  /\ Keep(c, [local[c] EXCEPT !.entity = accounts[mem[c].user]])
  /\ Enter(c, "loaded")
  /\ UNCHANGED <<vars, tables>>

\* Steps that neither read the user nor answer.
SessionContinues(c) ==
  /\ Validate(c) \/ (phase[c] = "loaded" /\ InsertSuccessor(c)) \/ Retire(c)
  /\ IF pc'[c] \in Done THEN Leave(c) ELSE UNCHANGED <<phase, local>>
  /\ UNCHANGED tables

\* issueTokenPair signs the entity's is_admin, inserts a refresh token and returns.
SignedAsBefore(l) ==
  [user |-> l.user, admin |-> \E a \in access : a.user = l.user /\ a.admin, roles |-> l.roles]
Signed(l) == [user |-> l.user, admin |-> l.entity.admin, roles |-> l.roles]
SessionIssues(c) ==
  /\ IssueFirst(c) \/ IssueSecond(c)
  /\ access' = access \cup {Signed(local[c])}
  /\ Leave(c)
  /\ UNCHANGED <<accounts, ordered, reverted, broken>>

SessionEnds(c) == Invalidate(c) /\ Leave(c) /\ UNCHANGED tables

SessionFails(c) ==
  /\ Fail(c)
  /\ broken' = IF pc[c] = "second" THEN broken \cup {mem[c].token} ELSE broken
  /\ Leave(c)
  /\ UNCHANGED <<accounts, access, ordered, reverted>>

\* 15 minutes pass for an access token.
ExpireAccess ==
  /\ \E a \in access : access' = access \ {a}
  /\ UNCHANGED <<vars, accounts, phase, local, ordered, reverted, broken>>

SessionExpire == Expire /\ UNCHANGED <<tables, phase, local>>
SessionsFinished == Finished /\ UNCHANGED <<tables, phase, local>>

-----------------------------------------------------------------------------
\* PATCH /users/me: one UPDATE of one column.
Rename(u) ==
  /\ accounts[u] # NoAccount
  /\ \E n \in Names : accounts' = [accounts EXCEPT ![u].name = n]
  /\ UNCHANGED <<vars, phase, local, access, ordered, reverted, broken>>

\* UPDATE users SET is_admin, by an operator: the only way to make or unmake an administrator.
SetRole(u) ==
  /\ accounts[u] # NoAccount
  /\ \E b \in BOOLEAN :
       /\ accounts' = [accounts EXCEPT ![u].admin = b]
       /\ ordered' = [ordered EXCEPT ![u] = b]
       /\ local' = [d \in Clients |->
            Noticing(u, b, [local[d] EXCEPT !.crossed = @ \/ (local[d].user = u /\ phase[d] \in {"reread", "save"})])]
  /\ reverted' = reverted \ {u}
  /\ UNCHANGED <<vars, phase, access, broken>>

SessionsNext ==
  \/ \E c \in Clients :
       \/ SignIn(c) \/ FindAccount(c) \/ RereadAccount(c) \/ SaveAccount(c)
       \/ SaveRefused(c) \/ FailSignIn(c)
       \/ SessionPresents(c) \/ LoadUser(c) \/ SessionContinues(c) \/ SessionIssues(c)
       \/ SessionEnds(c) \/ SessionFails(c)
  \/ \E u \in Users : Rename(u) \/ SetRole(u)
  \/ ExpireAccess \/ SessionExpire \/ SessionsFinished

SessionsSpec == SessionsInit /\ [][SessionsNext]_sessionVars

-----------------------------------------------------------------------------
Signatures == [user : Users, admin : BOOLEAN, roles : SUBSET BOOLEAN]
SessionsTypeOK ==
  /\ TypeOK
  /\ accounts \in [Users -> Accounts \cup {NoAccount}]
  /\ phase \in [Clients -> Phases]
  /\ local \in [Clients -> Sessions]
  /\ access \subseteq Signatures
  /\ ordered \in [Users -> BOOLEAN] /\ reverted \subseteq Users
  /\ broken \subseteq DOMAIN tokens
  /\ \A c \in Clients : phase[c] # "out" => local[c].user \in Users
  /\ \A c \in Clients : phase[c] \in SigningIn => pc[c] \in Done
  /\ \A c \in Clients : phase[c] = "loaded" => local[c].entity # NoAccount

\* The user of every refresh token has a row, so that neither its insert (fk_rt_user) nor
\* the findById of a later refresh can fail for want of one, also when two first sign-ins
\* of one account overlap (user.repository.ts:26-39, auth.service.ts:84-91).
TokensHaveAccounts == \A t \in DOMAIN tokens : accounts[tokens[t].user] # NoAccount

\* "Login upsert never overwrites is_admin" (code-review.md:446) as far as the code keeps
\* it: only a sign-in that read the row before the operator last set it and saves after
\* that undoes the operator's choice; no rename, no refresh and no other sign-in does
\* (user.repository.ts:26-31, 43).
OnlyCrossedSignInsRevert ==
  \A u \in Users : accounts[u] # NoAccount /\ accounts[u].admin # ordered[u] => u \in reverted

\* An access token's is_admin is a value the user's row had while the request that issued
\* it ran: a refresh signs what the row says, not what the session had before
\* (auth.service.ts:90-93, token.service.ts:33-40).
ClaimsWereTrue == \A a \in access : a.admin \in a.roles

\* A refresh token is replaced only for a request that was answered with the successor,
\* is about to be, or failed in the one await after it (auth.service.ts:91-93): another
\* session's refresh never costs a client its session.
LostOnlyByFailure ==
  \A t \in DOMAIN tokens : tokens[t].replacedBy # None =>
    \/ exchanged[t] > 0
    \/ t \in broken
    \/ \E c \in Clients : pc[c] = "second" /\ mem[c].token = t
=============================================================================
