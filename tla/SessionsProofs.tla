---------------------------- MODULE SessionsProofs ----------------------------
(***************************************************************************)
(* Sessions implements RefreshTokens, so what is proved of the tokens      *)
(* holds of whole sign-ins and refreshes; and what holds of the users,     *)
(* their claims and what a failed refresh costs, for every number of       *)
(* clients, users and requests.                                            *)
(***************************************************************************)
EXTENDS Sessions, RefreshTokensProofs

\* What a request in flight may rely on: the row it holds a copy of, and whose it is.
HeldAccount(c) ==
  LET l == local[c]  u == l.user IN
  /\ phase[c] = "out" => pc[c] \in Done \cup {"validate", "insert", "logout"}
  /\ phase[c] = "loaded" => /\ pc[c] \in {"login", "insert", "retire", "second"}
                            /\ l.entity.admin \in l.roles
  /\ phase[c] \in {"find", "reread"} => "insert" \notin l.dirty
  /\ phase[c] \in {"reread", "save"} /\ "insert" \notin l.dirty =>
       /\ accounts[u] # NoAccount
       /\ l.entity.admin \in l.roles
       /\ ~l.crossed /\ l.entity.admin # ordered[u] => u \in reverted
  /\ phase[c] = "find" \/ (phase[c] = "save" /\ "insert" \in l.dirty) => l.entity.admin = FALSE
  /\ phase[c] \in SigningIn => l.entity # NoAccount
  /\ u \in Users => IsAdmin(accounts[u]) \in l.roles
  /\ pc[c] \in {"validate", "insert"} /\ mem[c].token \in DOMAIN tokens =>
       u = tokens[mem[c].token].user
  /\ pc[c] = "login" => accounts[mem[c].user] # NoAccount

\* Before the first sign-in the operator has set nothing.
UnorderedBefore == \A u \in Users : accounts[u] = NoAccount => ordered[u] = FALSE

Promises ==
  TokensHaveAccounts /\ OnlyCrossedSignInsRevert /\ ClaimsWereTrue /\ LostOnlyByFailure

SInv ==
  /\ IInv /\ SessionsTypeOK /\ Promises /\ UnorderedBefore
  /\ \A c \in Clients : HeldAccount(c)

-----------------------------------------------------------------------------
\* Records: what membership says of the fields.

LEMMA LocalFields ==
  ASSUME NEW l \in Sessions
  PROVE  /\ l.user \in Users \cup {NoUser} /\ l.entity \in Accounts \cup {NoAccount}
         /\ l.dirty \subseteq Columns \cup {"insert"} /\ l.crossed \in BOOLEAN
         /\ l.roles \subseteq BOOLEAN
  BY DEF Sessions

LEMMA AccountFields == \A a \in Accounts : a.name \in Names /\ a.admin \in BOOLEAN /\ a # NoAccount
  BY AccountAssumption DEF Accounts

LEMMA NothingFacts ==
  /\ Nothing \in Sessions /\ Nothing.user = NoUser /\ Nothing.roles = {}
  /\ Nothing.user \notin Users
  BY UserAssumption DEF Nothing, Sessions

LEMMA NoticingFacts ==
  ASSUME NEW l \in Sessions, NEW u, NEW b \in BOOLEAN
  PROVE  LET m == Noticing(u, b, l) IN
         /\ m \in Sessions /\ m.user = l.user /\ m.entity = l.entity /\ m.dirty = l.dirty
         /\ m.crossed = l.crossed /\ l.roles \subseteq m.roles
         /\ l.user = u => b \in m.roles
  BY DEF Noticing, Sessions

LEMMA ClientFacts ==
  ASSUME SInv, NEW c \in Clients
  PROVE  /\ HeldAccount(c) /\ local[c] \in Sessions /\ phase[c] \in Phases
         /\ phase[c] # "out" => local[c].user \in Users
         /\ phase[c] \in SigningIn => pc[c] \in Done
         /\ phase[c] = "loaded" => local[c].entity \in Accounts
  <1>1. local[c] \in Sessions /\ phase[c] \in Phases
    BY DEF SInv, SessionsTypeOK
  <1>2. local[c].entity \in Accounts \cup {NoAccount}
    BY <1>1, LocalFields
  <1> QED BY <1>1, <1>2 DEF SInv, SessionsTypeOK

LEMMA IsAdminBool == ASSUME NEW a \in Accounts \cup {NoAccount} PROVE IsAdmin(a) \in BOOLEAN
  BY AccountFields DEF IsAdmin

-----------------------------------------------------------------------------
\* Sessions implements RefreshTokens: every step is one of its steps, or changes none of
\* its variables.
LEMMA StepRefines ==
  ASSUME SInv, [SessionsNext]_sessionVars
  PROVE  [Next]_vars
<1>1. CASE UNCHANGED sessionVars
  BY <1>1 DEF sessionVars, vars
<1>2. ASSUME NEW c \in Clients, SaveAccount(c) PROVE Next
  <2>1. local[c].user \in Users
    BY <1>2, ClientFacts DEF SaveAccount
  <2>2. Login(c)
    BY <1>2, <2>1 DEF SaveAccount, Login
  <2> QED BY <2>2 DEF Next
<1>3. ASSUME NEW c \in Clients,
             \/ SignIn(c) \/ FindAccount(c) \/ RereadAccount(c) \/ SaveRefused(c)
             \/ FailSignIn(c) \/ LoadUser(c)
      PROVE  UNCHANGED vars
  BY <1>3 DEF SignIn, FindAccount, RereadAccount, SaveRefused, FailSignIn, LoadUser, vars
<1>4. ASSUME NEW c \in Clients,
             \/ SessionPresents(c) \/ SessionContinues(c) \/ SessionIssues(c)
             \/ SessionEnds(c) \/ SessionFails(c)
      PROVE  Next
  BY <1>4 DEF SessionPresents, SessionContinues, SessionIssues, SessionEnds, SessionFails, Next
<1>5. ASSUME NEW u \in Users, Rename(u) \/ SetRole(u) PROVE UNCHANGED vars
  BY <1>5 DEF Rename, SetRole, vars
<1>6. ASSUME ExpireAccess PROVE UNCHANGED vars
  BY <1>6 DEF ExpireAccess, vars
<1>7. ASSUME SessionExpire \/ SessionsFinished PROVE Next
  BY <1>7 DEF SessionExpire, SessionsFinished, Next
<1> QED BY <1>1, <1>2, <1>3, <1>4, <1>5, <1>6, <1>7 DEF SessionsNext

LEMMA TokensKept == SInv /\ [SessionsNext]_sessionVars => IInv' /\ Extends
  BY StepRefines, NextKeepsInv DEF SInv

-----------------------------------------------------------------------------
\* Requests that do not move keep what they hold.

\* Rows of users do not go away, tokens are TokensKept's.
AccountsStay == \A u \in Users : accounts[u] # NoAccount => accounts'[u] # NoAccount

\* What a step of another actor may do to the entity a request holds, and to its row.
Undisturbed(d) ==
  /\ pc'[d] = pc[d] /\ mem'[d] = mem[d] /\ phase'[d] = phase[d]
  /\ local'[d].user = local[d].user /\ local'[d].entity = local[d].entity
  /\ local'[d].dirty = local[d].dirty /\ local[d].roles \subseteq local'[d].roles
  /\ local[d].user \in Users =>
       IsAdmin(accounts'[local[d].user]) \in local'[d].roles
  /\ phase[d] \in {"reread", "save"} /\ ~local'[d].crossed =>
       /\ ~local[d].crossed
       /\ ordered'[local[d].user] = ordered[local[d].user]
       /\ local[d].user \in reverted => local[d].user \in reverted'

LEMMA HeldAccountKept ==
  ASSUME SInv, IInv', Extends, AccountsStay, NEW d \in Clients, Undisturbed(d)
  PROVE  HeldAccount(d)'
<1>1. HeldAccount(d) /\ HeldBy(d) /\ (phase[d] # "out" => local[d].user \in Users)
  BY ClientFacts DEF SInv, IInv, Held
<1>2. phase[d] \in {"reread", "save"} => local[d].user \in Users
  BY <1>1
<1>3. pc[d] = "login" => accounts'[mem[d].user] # NoAccount
  BY <1>1 DEF HeldAccount, HeldBy, AccountsStay
<1>4. ASSUME pc[d] \in {"validate", "insert"}, mem[d].token \in DOMAIN tokens'
      PROVE  local[d].user = tokens'[mem[d].token].user
  <2>1. mem[d].token \in presented
    BY <1>1, <1>4 DEF HeldBy, Rotating
  <2>2. mem[d].token \in DOMAIN tokens
    BY <2>1, <1>4, Domains DEF SInv, IInv, TypeOK, None
  <2> QED BY <1>1, <1>4, <2>2 DEF HeldAccount, Extends
<1>5. ASSUME phase[d] \in {"reread", "save"}, "insert" \notin local[d].dirty
      PROVE  /\ accounts'[local[d].user] # NoAccount
             /\ local[d].entity.admin \in local'[d].roles
             /\ ~local'[d].crossed /\ local[d].entity.admin # ordered'[local[d].user]
                  => local[d].user \in reverted'
  BY <1>1, <1>2, <1>5 DEF HeldAccount, Undisturbed, AccountsStay
<1>6. phase[d] = "loaded" => local[d].entity.admin \in local'[d].roles
  BY <1>1 DEF HeldAccount, Undisturbed
<1> QED BY <1>1, <1>3, <1>4, <1>5, <1>6 DEF HeldAccount, Undisturbed

\* A request that an untouched table of users and an untouched entity leave alone.
LEMMA AloneUndisturbed ==
  ASSUME SInv, NEW d \in Clients, pc'[d] = pc[d], mem'[d] = mem[d], phase'[d] = phase[d],
         local'[d] = local[d], accounts' = accounts, ordered' = ordered,
         reverted \subseteq reverted'
  PROVE  Undisturbed(d)
<1>1. HeldAccount(d)
  BY DEF SInv
<1> QED BY <1>1 DEF Undisturbed, HeldAccount

LEMMA TokensHaveAccountsKept ==
  ASSUME SInv, AccountsStay, Extends, IInv',
         \A t \in DOMAIN tokens' : t \in DOMAIN tokens \/ accounts[tokens'[t].user] # NoAccount
  PROVE  TokensHaveAccounts'
<1> SUFFICES ASSUME NEW t \in DOMAIN tokens' PROVE accounts'[tokens'[t].user] # NoAccount
  BY DEF TokensHaveAccounts
<1>1. tokens'[t].user \in Users
  <2>1. tokens' \in Seq(Row) /\ DOMAIN tokens' = 1 .. Len(tokens')
    BY LenProperties DEF IInv, TypeOK
  <2>2. tokens'[t] \in Row
    BY <2>1
  <2> QED BY <2>2, RowFields
<1>2. accounts[tokens'[t].user] # NoAccount
  BY DEF SInv, Promises, TokensHaveAccounts, Extends
<1> QED BY <1>1, <1>2 DEF AccountsStay

-----------------------------------------------------------------------------
\* Steps of one client's request between its sign-in's statements: nothing but the
\* request's own place and entity changes.
LEMMA LocalStep ==
  ASSUME SInv, SessionsNext, NEW c \in Clients, NEW l \in Phases, NEW m \in Sessions,
         Enter(c, l), Keep(c, m), UNCHANGED <<vars, tables>>,
         l # "out" => m.user \in Users,
         l \in SigningIn => pc[c] \in Done,
         l = "loaded" => m.entity # NoAccount,
         HeldAccount(c)'
  PROVE  SInv'
<1>1. IInv' /\ Extends
  BY TokensKept
<1>2. phase'[c] = l /\ local'[c] = m
  BY DEF Enter, Keep, SInv, SessionsTypeOK
<1>3. ASSUME NEW d \in Clients, d # c PROVE HeldAccount(d)'
  <2>1. phase'[d] = phase[d] /\ local'[d] = local[d]
    BY <1>3 DEF Enter, Keep, SInv, SessionsTypeOK
  <2>2. Undisturbed(d)
    BY <2>1, AloneUndisturbed DEF vars, tables
  <2>3. AccountsStay
    BY DEF tables, AccountsStay
  <2> QED BY <1>1, <2>2, <2>3, HeldAccountKept
<1>4. SessionsTypeOK'
  <2>1. phase' \in [Clients -> Phases] /\ local' \in [Clients -> Sessions]
    BY DEF Enter, Keep, SInv, SessionsTypeOK
  <2>2. ASSUME NEW d \in Clients
        PROVE  /\ phase'[d] # "out" => local'[d].user \in Users
               /\ phase'[d] \in SigningIn => pc'[d] \in Done
               /\ phase'[d] = "loaded" => local'[d].entity # NoAccount
    <3>1. CASE d = c
      BY <1>2, <3>1 DEF vars
    <3>2. CASE d # c
      <4>1. phase'[d] = phase[d] /\ local'[d] = local[d]
        BY <3>2 DEF Enter, Keep, SInv, SessionsTypeOK
      <4> QED BY <4>1 DEF vars, SInv, SessionsTypeOK
    <3> QED BY <3>1, <3>2
  <2>3. TypeOK'
    BY <1>1 DEF IInv
  <2> QED BY <2>1, <2>2, <2>3 DEF SessionsTypeOK, SInv, tables, vars
<1>5. Promises' /\ UnorderedBefore'
  BY DEF SInv, Promises, UnorderedBefore, vars, tables, TokensHaveAccounts,
         OnlyCrossedSignInsRevert, ClaimsWereTrue, LostOnlyByFailure
<1> QED BY <1>1, <1>3, <1>4, <1>5 DEF SInv

LEMMA LeaveKeepsInv ==
  ASSUME SInv, SessionsNext, NEW c \in Clients, SaveRefused(c) \/ FailSignIn(c)
  PROVE  SInv'
<1>1. phase[c] \in SigningIn /\ Leave(c) /\ UNCHANGED <<vars, tables>>
  BY DEF SaveRefused, FailSignIn, SigningIn
<1>2. pc[c] \in Done
  BY <1>1, ClientFacts
<1>3. phase'[c] = "out" /\ local'[c] = Nothing
  BY <1>1 DEF Leave, Enter, Keep, SInv, SessionsTypeOK
<1>4. HeldAccount(c)'
  BY <1>1, <1>2, <1>3, NothingFacts DEF HeldAccount, vars, Done, SigningIn
<1> QED BY <1>1, <1>4, NothingFacts, LocalStep DEF Leave, Phases, SigningIn

LEMMA SignInKeepsInv ==
  ASSUME SInv, SessionsNext, NEW c \in Clients, SignIn(c)
  PROVE  SInv'
<1>1. PICK u \in Users, n \in Names :
        Keep(c, [Nothing EXCEPT !.user = u, !.entity = [name |-> n, admin |-> FALSE],
                                !.roles = {IsAdmin(accounts[u])}])
  BY DEF SignIn
<1> DEFINE m == [Nothing EXCEPT !.user = u, !.entity = [name |-> n, admin |-> FALSE],
                                !.roles = {IsAdmin(accounts[u])}]
<1>2. accounts[u] \in Accounts \cup {NoAccount}
  BY DEF SInv, SessionsTypeOK
<1>3. [name |-> n, admin |-> FALSE] \in Accounts
  BY DEF Accounts
<1>4. /\ m \in Sessions /\ m.user = u /\ m.entity = [name |-> n, admin |-> FALSE]
      /\ m.dirty = {} /\ m.roles = {IsAdmin(accounts[u])}
  BY <1>2, <1>3, IsAdminBool DEF Nothing, Sessions
<1>5. phase'[c] = "find" /\ local'[c] = m
  BY <1>1 DEF SignIn, Enter, Keep, SInv, SessionsTypeOK
<1>6. HeldAccount(c)'
  BY <1>3, <1>4, <1>5, AccountFields DEF HeldAccount, SignIn, vars, tables, Done, SigningIn
<1> HIDE DEF m
<1>7. Keep(c, m)
  BY <1>1 DEF m
<1> QED BY <1>4, <1>6, <1>7, LocalStep DEF SignIn, Phases, SigningIn

LEMMA FindAccountKeepsInv ==
  ASSUME SInv, SessionsNext, NEW c \in Clients, FindAccount(c)
  PROVE  SInv'
<1> DEFINE l == local[c]
           row == accounts[l.user]
           found == [l EXCEPT !.entity = Upserted(row, l.entity)]
           new == [l EXCEPT !.dirty = {"insert"}]
<1>1. phase[c] = "find" /\ pc[c] \in Done /\ l.user \in Users /\ l \in Sessions /\ HeldAccount(c)
  BY ClientFacts DEF FindAccount, SigningIn
<1>2. row \in Accounts \cup {NoAccount} /\ l.entity \in Accounts
  BY <1>1, LocalFields DEF SInv, SessionsTypeOK, HeldAccount, SigningIn
<1>3. CASE row # NoAccount /\ Keep(c, found) /\ Enter(c, "reread")
  <2>1. Upserted(row, l.entity) \in Accounts /\ Upserted(row, l.entity).admin = row.admin
    BY <1>2, <1>3 DEF Upserted, Accounts
  <2>2. /\ found \in Sessions /\ found.user = l.user /\ found.entity = Upserted(row, l.entity)
        /\ found.dirty = l.dirty /\ found.roles = l.roles /\ found.crossed = l.crossed
    BY <1>1, <2>1 DEF Sessions
  <2>3. phase'[c] = "reread" /\ local'[c] = found
    BY <1>3 DEF Enter, Keep, SInv, SessionsTypeOK
  <2>4. row.admin \in l.roles /\ (row.admin # ordered[l.user] => l.user \in reverted)
    BY <1>1, <1>2, <1>3, AccountFields
    DEF HeldAccount, IsAdmin, SInv, Promises, OnlyCrossedSignInsRevert
  <2>5. HeldAccount(c)'
    BY <1>1, <1>3, <2>1, <2>2, <2>3, <2>4, AccountFields
    DEF HeldAccount, FindAccount, vars, tables, Done, SigningIn
  <2> QED BY <1>1, <1>3, <2>2, <2>5, LocalStep DEF FindAccount, Phases, SigningIn
<1>4. CASE row = NoAccount /\ Keep(c, new) /\ Enter(c, "save")
  <2>1. /\ new \in Sessions /\ new.user = l.user /\ new.entity = l.entity
        /\ new.dirty = {"insert"} /\ new.roles = l.roles
    BY <1>1 DEF Sessions
  <2>2. phase'[c] = "save" /\ local'[c] = new
    BY <1>4 DEF Enter, Keep, SInv, SessionsTypeOK
  <2>3. HeldAccount(c)'
    BY <1>1, <2>1, <2>2 DEF HeldAccount, FindAccount, vars, tables, Done, SigningIn
  <2> QED BY <1>1, <1>4, <2>1, <2>3, LocalStep DEF FindAccount, Phases, SigningIn
<1> QED BY <1>3, <1>4 DEF FindAccount

LEMMA RereadAccountKeepsInv ==
  ASSUME SInv, SessionsNext, NEW c \in Clients, RereadAccount(c)
  PROVE  SInv'
<1> DEFINE l == local[c]
           row == accounts[l.user]
           d == {f \in Columns : row[f] # l.entity[f]}
           m == [l EXCEPT !.dirty = d]
<1>1. phase[c] = "reread" /\ pc[c] \in Done /\ l.user \in Users /\ l \in Sessions /\ HeldAccount(c)
  BY ClientFacts DEF RereadAccount, SigningIn
<1>2. d \subseteq Columns /\ "insert" \notin d
  BY DEF Columns
<1> HIDE DEF d
<1>3. /\ m \in Sessions /\ m.user = l.user /\ m.entity = l.entity /\ m.dirty = d
      /\ m.roles = l.roles /\ m.crossed = l.crossed
  BY <1>1, <1>2 DEF Sessions
<1>4. Keep(c, m) /\ Enter(c, "save") /\ UNCHANGED <<vars, tables>>
  BY DEF RereadAccount, d
<1>5. phase'[c] = "save" /\ local'[c] = m
  BY <1>4 DEF Enter, Keep, SInv, SessionsTypeOK
<1>6. HeldAccount(c)'
  BY <1>1, <1>2, <1>3, <1>4, <1>5 DEF HeldAccount, vars, tables, Done, SigningIn
<1> HIDE DEF m
<1> QED BY <1>1, <1>3, <1>4, <1>6, LocalStep DEF Phases, SigningIn

LEMMA LoadUserKeepsInv ==
  ASSUME SInv, SessionsNext, NEW c \in Clients, LoadUser(c)
  PROVE  SInv'
<1> DEFINE l == local[c]
           m == [l EXCEPT !.entity = accounts[mem[c].user]]
<1>1. pc[c] = "insert" /\ l \in Sessions /\ HeldAccount(c) /\ HeldBy(c)
  BY ClientFacts DEF LoadUser, SInv, IInv, Held
<1>2. mem[c].token \in DOMAIN tokens /\ tokens[mem[c].token].user = mem[c].user
  BY <1>1 DEF HeldBy, Rotating
<1>3. l.user = mem[c].user
  BY <1>1, <1>2 DEF HeldAccount
<1>4. mem[c].user \in Users
  <2>1. tokens[mem[c].token] \in Row
    BY <1>2, Domains DEF SInv, IInv, TypeOK
  <2> QED BY <1>2, <2>1, RowFields
<1>5. accounts[mem[c].user] \in Accounts
  BY <1>2, <1>4 DEF SInv, Promises, TokensHaveAccounts, SessionsTypeOK
<1>6. /\ m \in Sessions /\ m.user = l.user /\ m.entity = accounts[mem[c].user]
      /\ m.roles = l.roles /\ m.dirty = l.dirty
  BY <1>1, <1>5 DEF Sessions
<1>7. Keep(c, m) /\ Enter(c, "loaded") /\ UNCHANGED <<vars, tables>>
  BY DEF LoadUser
<1>8. phase'[c] = "loaded" /\ local'[c] = m
  BY <1>7 DEF Enter, Keep, SInv, SessionsTypeOK
<1>9. m.entity.admin \in m.roles
  BY <1>1, <1>3, <1>4, <1>5, <1>6, AccountFields DEF HeldAccount, IsAdmin
<1>10. HeldAccount(c)'
  BY <1>1, <1>3, <1>6, <1>7, <1>8, <1>9 DEF HeldAccount, vars, tables, Done, SigningIn
<1>11. m.user \in Users /\ m.entity # NoAccount
  BY <1>3, <1>4, <1>5, <1>6, AccountFields
<1> HIDE DEF m
<1> QED BY <1>6, <1>7, <1>10, <1>11, LocalStep DEF Phases, SigningIn

-----------------------------------------------------------------------------
\* Steps of RefreshTokens' requests: the users stay as they are.
LEMMA TokenStep ==
  ASSUME SInv, SessionsNext, NEW c \in Clients, NEW p \in Phases, NEW m \in Sessions,
         UNCHANGED <<accounts, ordered, reverted>>,
         phase' = [phase EXCEPT ![c] = p], local' = [local EXCEPT ![c] = m],
         \A d \in Clients : d # c => pc'[d] = pc[d] /\ mem'[d] = mem[d],
         p # "out" => m.user \in Users,
         p \notin SigningIn,
         p = "loaded" => m.entity # NoAccount,
         access' \subseteq Signatures, broken' \subseteq DOMAIN tokens',
         HeldAccount(c)', TokensHaveAccounts', ClaimsWereTrue', LostOnlyByFailure'
  PROVE  SInv'
<1>1. IInv' /\ Extends
  BY TokensKept
<1>2. ASSUME NEW d \in Clients, d # c
      PROVE  phase'[d] = phase[d] /\ local'[d] = local[d]
  BY <1>2 DEF SInv, SessionsTypeOK
<1>3. phase'[c] = p /\ local'[c] = m
  BY DEF SInv, SessionsTypeOK
<1>4. ASSUME NEW d \in Clients, d # c PROVE HeldAccount(d)'
  <2>1. Undisturbed(d)
    BY <1>2, <1>4, AloneUndisturbed
  <2>2. AccountsStay
    BY DEF AccountsStay
  <2> QED BY <1>1, <2>1, <2>2, HeldAccountKept
<1>5. SessionsTypeOK'
  <2>1. phase' \in [Clients -> Phases] /\ local' \in [Clients -> Sessions]
    BY DEF SInv, SessionsTypeOK
  <2>2. ASSUME NEW d \in Clients
        PROVE  /\ phase'[d] # "out" => local'[d].user \in Users
               /\ phase'[d] \in SigningIn => pc'[d] \in Done
               /\ phase'[d] = "loaded" => local'[d].entity # NoAccount
    <3>1. CASE d = c
      BY <1>3, <3>1
    <3>2. CASE d # c
      BY <1>2, <3>2 DEF SInv, SessionsTypeOK
    <3> QED BY <3>1, <3>2
  <2>3. TypeOK'
    BY <1>1 DEF IInv
  <2> QED BY <2>1, <2>2, <2>3 DEF SessionsTypeOK, SInv
<1>6. OnlyCrossedSignInsRevert' /\ UnorderedBefore'
  BY DEF SInv, Promises, UnorderedBefore, OnlyCrossedSignInsRevert
<1> QED BY <1>1, <1>4, <1>5, <1>6 DEF SInv, Promises

\* Nothing is replaced by the step, and what is about to be answered is, or has failed.
LEMMA LossesKept ==
  ASSUME SInv, NEW c \in Clients,
         \A d \in Clients : d # c => pc'[d] = pc[d] /\ mem'[d] = mem[d],
         \A t \in DOMAIN tokens' : tokens'[t].replacedBy # None =>
           t \in DOMAIN tokens /\ tokens[t].replacedBy # None,
         \A t \in DOMAIN tokens : exchanged[t] > 0 => exchanged'[t] > 0,
         broken \subseteq broken',
         pc[c] = "second" =>
           \/ exchanged'[mem[c].token] > 0 \/ mem[c].token \in broken'
           \/ pc'[c] = "second" /\ mem'[c] = mem[c]
  PROVE  LostOnlyByFailure'
<1> SUFFICES ASSUME NEW t \in DOMAIN tokens', tokens'[t].replacedBy # None
             PROVE  \/ exchanged'[t] > 0
                    \/ t \in broken'
                    \/ \E d \in Clients : pc'[d] = "second" /\ mem'[d].token = t
  BY DEF LostOnlyByFailure
<1>1. \/ exchanged[t] > 0
      \/ t \in broken
      \/ \E d \in Clients : pc[d] = "second" /\ mem[d].token = t
  BY DEF SInv, Promises, LostOnlyByFailure
<1>2. ASSUME NEW d \in Clients, pc[d] = "second", mem[d].token = t
      PROVE  \/ exchanged'[t] > 0
             \/ t \in broken'
             \/ \E e \in Clients : pc'[e] = "second" /\ mem'[e].token = t
  <2>1. CASE d = c
    BY <1>2, <2>1
  <2>2. CASE d # c
    BY <1>2, <2>2
  <2> QED BY <2>1, <2>2
<1> QED BY <1>1, <1>2

LEMMA PresentsKeepsInv ==
  ASSUME SInv, SessionsNext, NEW c \in Clients, SessionPresents(c)
  PROVE  SInv'
<1> DEFINE u == Owner(mem'[c].token)
           m == [Nothing EXCEPT !.user = u,
                   !.roles = IF u = NoUser THEN {} ELSE {IsAdmin(accounts[u])}]
<1>1. PICK t \in known \cup {None}, label \in {"validate", "logout"} :
        /\ Arrive(c, label, [Blank EXCEPT !.token = t, !.replayed = Used(t)])
        /\ presented' = presented \cup {t}
  BY DEF SessionPresents, Refresh, Logout, Present
<1>2. IInv' /\ Extends
  BY TokensKept
<1>3. /\ pc[c] \in Done /\ UNCHANGED <<tokens, exchanged>>
      /\ pc'[c] = label /\ mem'[c].token = t
      /\ \A d \in Clients : d # c => pc'[d] = pc[d] /\ mem'[d] = mem[d]
  BY <1>1 DEF Arrive, Goto, Blank, SInv, IInv, TypeOK
<1>4. u \in Users \cup {NoUser} /\ (t \in DOMAIN tokens => u = tokens[t].user /\ u \in Users)
  <2>1. ASSUME t \in DOMAIN tokens PROVE tokens[t].user \in Users
    <3>1. tokens[t] \in Row
      BY <2>1, Domains DEF SInv, IInv, TypeOK
    <3> QED BY <3>1, RowFields
  <2> QED BY <1>3, <2>1 DEF Owner
<1>5. u # NoUser => accounts[u] \in Accounts \cup {NoAccount}
  BY <1>4 DEF SInv, SessionsTypeOK
<1>6. /\ m \in Sessions /\ m.user = u /\ (u \in Users => IsAdmin(accounts[u]) \in m.roles)
  BY <1>4, <1>5, IsAdminBool, UserAssumption DEF Nothing, Sessions
<1>7. /\ phase[c] = "out" /\ UNCHANGED <<tables, phase>> /\ Keep(c, m)
  BY DEF SessionPresents
<1>8. phase' = [phase EXCEPT ![c] = "out"] /\ phase'[c] = "out" /\ local'[c] = m
  BY <1>7 DEF Keep, SInv, SessionsTypeOK
<1> HIDE DEF m
<1>9. HeldAccount(c)'
  BY <1>1, <1>3, <1>4, <1>6, <1>7, <1>8 DEF HeldAccount, tables, SigningIn, Done
<1>10. TokensHaveAccounts' /\ ClaimsWereTrue'
  BY <1>3, <1>7 DEF SInv, Promises, TokensHaveAccounts, ClaimsWereTrue, tables
<1>11. LostOnlyByFailure'
  BY <1>3, <1>7, LossesKept DEF tables, Done
<1>12. access' \subseteq Signatures /\ broken' \subseteq DOMAIN tokens'
  BY <1>3, <1>7 DEF tables, SInv, SessionsTypeOK
<1> QED BY <1>3, <1>6, <1>7, <1>8, <1>9, <1>10, <1>11, <1>12, TokenStep
    DEF tables, Keep, Phases, SigningIn

\* Rotation, its validation and the lookup.
LEMMA ContinuesKeepsInv ==
  ASSUME SInv, SessionsNext, NEW c \in Clients, SessionContinues(c)
  PROVE  SInv'
<1>1. IInv' /\ Extends /\ HeldBy(c) /\ HeldBy(c)'
  BY TokensKept DEF SInv, IInv, Held
<1>2. /\ UNCHANGED tables /\ HeldAccount(c) /\ local[c] \in Sessions /\ phase[c] \in Phases
      /\ phase[c] # "out" => local[c].user \in Users
      /\ phase[c] \in SigningIn => pc[c] \in Done
      /\ phase[c] = "loaded" => local[c].entity # NoAccount
  BY ClientFacts, AccountFields DEF SessionContinues
<1>3. /\ pc[c] \in {"validate", "insert", "retire"} /\ pc'[c] \in {"rejected", "insert", "retire", "second"}
      /\ \A d \in Clients : d # c => pc'[d] = pc[d] /\ mem'[d] = mem[d]
  BY DEF SessionContinues, Validate, InsertSuccessor, Retire, Goto, SInv, IInv, TypeOK
<1>4. phase[c] \in {"out", "loaded"}
  BY <1>2, <1>3 DEF Phases, SigningIn, Done
<1>5. access' \subseteq Signatures /\ broken' \subseteq DOMAIN tokens'
  BY <1>1, <1>2 DEF tables, SInv, SessionsTypeOK, Extends
<1>6. ClaimsWereTrue'
  BY <1>2 DEF tables, SInv, Promises, ClaimsWereTrue
<1>7. AccountsStay
  BY <1>2 DEF tables, AccountsStay
<1>8. CASE Validate(c)
  <2>1. UNCHANGED <<tokens, exchanged>> /\ phase[c] = "out"
    BY <1>2, <1>4, <1>8 DEF Validate, HeldAccount
  <2>2. TokensHaveAccounts'
    BY <1>1, <1>7, <2>1, TokensHaveAccountsKept
  <2>3. LostOnlyByFailure'
    BY <1>2, <1>3, <2>1, LossesKept DEF tables
  <2>4. CASE Valid(mem[c].token) /\ mem' = [mem EXCEPT ![c].user = tokens[mem[c].token].user] /\ Goto(c, "insert")
    <3>1. pc'[c] = "insert" /\ mem'[c].token = mem[c].token
      BY <2>4 DEF Goto, SInv, IInv, TypeOK, Locals
    <3>2. UNCHANGED <<phase, local>>
      BY <3>1 DEF SessionContinues, Done
    <3>3. HeldAccount(c)'
      BY <1>2, <1>8, <2>1, <3>1, <3>2 DEF HeldAccount, Validate, tables, Done, SigningIn
    <3>4. phase' = [phase EXCEPT ![c] = "out"] /\ local' = [local EXCEPT ![c] = local[c]]
      BY <2>1, <3>2 DEF SInv, SessionsTypeOK
    <3> QED BY <1>2, <1>3, <1>5, <1>6, <2>2, <2>3, <3>3, <3>4, TokenStep DEF tables, Phases, SigningIn
  <2>5. CASE Goto(c, "rejected") /\ UNCHANGED mem
    <3>1. pc'[c] = "rejected"
      BY <2>5 DEF Goto, SInv, IInv, TypeOK
    <3>2. Leave(c)
      BY <3>1 DEF SessionContinues, Done
    <3>3. phase'[c] = "out" /\ local'[c] = Nothing
      BY <3>2 DEF Leave, Enter, Keep, SInv, SessionsTypeOK
    <3>4. HeldAccount(c)'
      BY <3>1, <3>3, NothingFacts DEF HeldAccount, Done, SigningIn
    <3> QED BY <1>2, <1>3, <1>5, <1>6, <2>2, <2>3, <3>2, <3>4, NothingFacts, TokenStep
        DEF tables, Phases, SigningIn, Leave, Enter, Keep
  <2> QED BY <1>8, <2>4, <2>5 DEF Validate
<1>9. CASE InsertSuccessor(c) \/ Retire(c)
  <2>1. phase[c] = "loaded" /\ pc'[c] \in {"retire", "second"} /\ UNCHANGED <<phase, local>>
    <3>1. pc'[c] \in {"retire", "second"}
      BY <1>9 DEF InsertSuccessor, Retire, Goto, SInv, IInv, TypeOK
    <3>2. ~Validate(c)
      BY <1>9 DEF InsertSuccessor, Retire, Validate
    <3>3. phase[c] = "loaded"
      BY <1>2, <1>4, <1>9, <3>2 DEF SessionContinues, Retire, HeldAccount, Done
    <3> QED BY <3>1, <3>3 DEF SessionContinues, Done
  <2>2. HeldAccount(c)'
    BY <1>2, <2>1 DEF HeldAccount, tables, SigningIn, Done
  <2>3. phase' = [phase EXCEPT ![c] = "loaded"] /\ local' = [local EXCEPT ![c] = local[c]]
    BY <2>1 DEF SInv, SessionsTypeOK
  <2>4. TokensHaveAccounts' /\ LostOnlyByFailure'
    <3>1. CASE InsertSuccessor(c)
      <4>1. mem[c].user \in Users /\ accounts[mem[c].user] # NoAccount
        <5>1. mem[c].token \in DOMAIN tokens /\ tokens[mem[c].token].user = mem[c].user
          BY <1>1, <3>1 DEF InsertSuccessor, HeldBy, Rotating
        <5>2. tokens[mem[c].token] \in Row
          BY <5>1, Domains DEF SInv, IInv, TypeOK
        <5> QED BY <5>1, <5>2, RowFields DEF SInv, Promises, TokensHaveAccounts
      <4>2. /\ DOMAIN tokens' = 1 .. Len(tokens) + 1
            /\ \A t \in DOMAIN tokens : tokens'[t] = tokens[t]
            /\ tokens'[Len(tokens) + 1] = Fresh(mem[c].user)
            /\ DOMAIN tokens = 1 .. Len(tokens) /\ Len(tokens) \in Nat
        BY <3>1, <4>1, InsertFacts, Domains DEF InsertSuccessor, SInv, IInv
      <4>3. \A t \in DOMAIN tokens' : t \in DOMAIN tokens \/ t = Len(tokens) + 1
        BY <4>2
      <4>4. \A t \in DOMAIN tokens : exchanged'[t] = exchanged[t]
        BY <3>1, <4>2 DEF InsertSuccessor, SInv, IInv, TypeOK
      <4>5. TokensHaveAccounts'
        BY <1>1, <1>7, <4>1, <4>2, <4>3, TokensHaveAccountsKept DEF Fresh
      <4>6. LostOnlyByFailure'
        BY <1>2, <1>3, <4>2, <4>3, <4>4, LossesKept DEF Fresh, tables
      <4> QED BY <4>5, <4>6
    <3>2. CASE Retire(c)
      <4> DEFINE t == mem[c].token
                 n == mem[c].issued
                 r == [tokens[t] EXCEPT !.used = TRUE, !.replacedBy = n]
      <4>1. t \in DOMAIN tokens /\ t \in Nat /\ n \in Nat /\ pc'[c] = "second" /\ mem' = mem
        BY <1>1, <3>2, MemoryFacts DEF Retire, HeldBy, Rotating, Goto, SInv, IInv, TypeOK
      <4>2. tokens[t] \in Row
        BY <4>1, Domains DEF SInv, IInv, TypeOK
      <4>3. r \in Row
        BY <4>1, <4>2 DEF Row
      <4>4. tokens' = [tokens EXCEPT ![t] = r]
        BY <3>2 DEF Retire, Retired
      <4> HIDE DEF r
      <4>5. DOMAIN tokens' = DOMAIN tokens /\ \A i \in DOMAIN tokens : i # t => tokens'[i] = tokens[i]
        BY <4>1, <4>3, <4>4, UpdateFacts DEF SInv, IInv
      <4>6. TokensHaveAccounts'
        BY <1>1, <1>7, <4>5, TokensHaveAccountsKept
      <4>7. ASSUME NEW i \in DOMAIN tokens', tokens'[i].replacedBy # None
            PROVE  \/ exchanged'[i] > 0
                   \/ i \in broken'
                   \/ \E d \in Clients : pc'[d] = "second" /\ mem'[d].token = i
        <5>1. CASE i = t
          BY <4>1, <5>1
        <5>2. CASE i # t
          <6>1. \/ exchanged[i] > 0
                \/ i \in broken
                \/ \E d \in Clients : pc[d] = "second" /\ mem[d].token = i
            BY <4>5, <4>7, <5>2 DEF SInv, Promises, LostOnlyByFailure
          <6>2. exchanged' = exchanged /\ broken' = broken
            BY <1>2, <3>2 DEF Retire, tables
          <6>3. ASSUME NEW d \in Clients, pc[d] = "second", mem[d].token = i
                PROVE  pc'[d] = "second" /\ mem'[d].token = i
            BY <1>3, <4>1, <6>3
          <6> QED BY <6>1, <6>2, <6>3
        <5> QED BY <5>1, <5>2
      <4> QED BY <4>6, <4>7 DEF LostOnlyByFailure
    <3> QED BY <1>9, <3>1, <3>2
  <2> QED BY <1>2, <1>3, <1>5, <1>6, <2>1, <2>2, <2>3, <2>4, TokenStep DEF tables, Phases, SigningIn
<1> QED BY <1>8, <1>9 DEF SessionContinues

LEMMA IssuesKeepsInv ==
  ASSUME SInv, SessionsNext, NEW c \in Clients, SessionIssues(c)
  PROVE  SInv'
<1>1. IInv' /\ Extends /\ HeldBy(c) /\ HeldAccount(c)
  BY TokensKept DEF SInv, IInv, Held
<1>2. /\ pc[c] \in {"login", "second"} /\ pc'[c] = "ok" /\ mem' = mem
      /\ \A d \in Clients : d # c => pc'[d] = pc[d]
      /\ Insert(mem[c].user)
  BY DEF SessionIssues, IssueFirst, IssueSecond, Goto, SInv, IInv, TypeOK
<1>3. /\ local[c] \in Sessions /\ local[c].user \in Users /\ local[c].entity \in Accounts
      /\ local[c].entity.admin \in local[c].roles
  <2>1. phase[c] = "loaded"
    BY <1>1, <1>2, ClientFacts DEF HeldAccount, Done, SigningIn, Phases
  <2> QED BY <1>1, <2>1, ClientFacts DEF HeldAccount
<1>4. mem[c].user \in Users /\ accounts[mem[c].user] # NoAccount
  <2>1. CASE pc[c] = "login"
    BY <1>1, <2>1 DEF HeldBy, HeldAccount
  <2>2. CASE pc[c] = "second"
    <3>1. mem[c].token \in DOMAIN tokens /\ tokens[mem[c].token].user = mem[c].user
      BY <1>1, <2>2 DEF HeldBy, Rotating
    <3>2. tokens[mem[c].token] \in Row
      BY <3>1, Domains DEF SInv, IInv, TypeOK
    <3> QED BY <3>1, <3>2, RowFields DEF SInv, Promises, TokensHaveAccounts
  <2> QED BY <1>2, <2>1, <2>2
<1>5. /\ DOMAIN tokens' = 1 .. Len(tokens) + 1
      /\ \A t \in DOMAIN tokens : tokens'[t] = tokens[t]
      /\ tokens'[Len(tokens) + 1] = Fresh(mem[c].user)
      /\ DOMAIN tokens = 1 .. Len(tokens) /\ Len(tokens) \in Nat
  BY <1>2, <1>4, InsertFacts, Domains DEF SInv, IInv
<1>6. \A t \in DOMAIN tokens' : t \in DOMAIN tokens \/ t = Len(tokens) + 1
  BY <1>5
<1>7. TokensHaveAccounts'
  BY <1>1, <1>4, <1>5, <1>6, TokensHaveAccountsKept DEF Fresh, SessionIssues, AccountsStay
<1>8. LostOnlyByFailure'
  <2>1. \A t \in DOMAIN tokens' : tokens'[t].replacedBy # None =>
           t \in DOMAIN tokens /\ tokens[t].replacedBy # None
    BY <1>5, <1>6 DEF Fresh
  <2>2. exchanged \in Seq(Nat) /\ DOMAIN exchanged = DOMAIN tokens
    BY <1>5 DEF SInv, IInv, TypeOK
  <2>3. CASE IssueFirst(c)
    <3>1. \A t \in DOMAIN tokens : exchanged'[t] = exchanged[t]
      BY <2>2, <2>3, <1>5 DEF IssueFirst
    <3> QED BY <1>2, <2>1, <2>3, <3>1, LossesKept DEF IssueFirst, SessionIssues
  <2>4. CASE IssueSecond(c)
    <3> DEFINE t == mem[c].token
               e == [exchanged EXCEPT ![t] = @ + 1]
    <3>1. t \in DOMAIN tokens
      BY <1>1, <2>4 DEF IssueSecond, HeldBy, Rotating
    <3>2. e \in Seq(Nat) /\ Len(e) = Len(exchanged) /\ e[t] = exchanged[t] + 1 /\ exchanged[t] \in Nat
          /\ \A i \in DOMAIN tokens : i # t => e[i] = exchanged[i]
      BY <2>2, <3>1, ExceptSeq, LenProperties
    <3>3. exchanged' = Append(e, 0)
      BY <2>4 DEF IssueSecond
    <3>4. \A i \in DOMAIN tokens : exchanged'[i] = e[i]
      <4>1. DOMAIN e = DOMAIN tokens
        BY <2>2, <3>2
      <4> HIDE DEF e
      <4> QED BY <3>2, <3>3, <4>1, <1>5
    <3>5. exchanged'[t] > 0 /\ \A i \in DOMAIN tokens : exchanged[i] > 0 => exchanged'[i] > 0
      BY <3>1, <3>2, <3>4
    <3> QED BY <1>2, <2>1, <3>5, LossesKept DEF SessionIssues
  <2> QED BY <2>3, <2>4 DEF SessionIssues
<1>9. ClaimsWereTrue' /\ access' \subseteq Signatures
  <2>1. Signed(local[c]) \in Signatures /\ Signed(local[c]).admin \in Signed(local[c]).roles
    BY <1>3, AccountFields, LocalFields DEF Signed, Signatures
  <2> QED BY <2>1 DEF SessionIssues, SInv, SessionsTypeOK, Promises, ClaimsWereTrue
<1>10. HeldAccount(c)'
  <2>1. phase'[c] = "out" /\ local'[c] = Nothing
    BY DEF SessionIssues, Leave, Enter, Keep, SInv, SessionsTypeOK
  <2> QED BY <1>2, <2>1, NothingFacts DEF HeldAccount, Done, SigningIn
<1>11. broken' \subseteq DOMAIN tokens'
  BY <1>1 DEF SessionIssues, SInv, SessionsTypeOK, Extends
<1> QED BY <1>2, <1>7, <1>8, <1>9, <1>10, <1>11, NothingFacts, TokenStep
    DEF SessionIssues, Leave, Enter, Keep, Phases, SigningIn

LEMMA EndsKeepsInv ==
  ASSUME SInv, SessionsNext, NEW c \in Clients, SessionEnds(c) \/ SessionFails(c)
  PROVE  SInv'
<1>1. IInv' /\ Extends /\ HeldBy(c) /\ mem[c].token \in Nat
  BY TokensKept, MemoryFacts DEF SInv, IInv, Held
<1>2. /\ pc'[c] \in Done /\ mem' = mem /\ exchanged' = exchanged
      /\ \A d \in Clients : d # c => pc'[d] = pc[d]
      /\ Leave(c) /\ UNCHANGED <<accounts, access, ordered, reverted>>
      /\ broken \subseteq broken' /\ broken' \subseteq broken \cup {mem[c].token}
      /\ pc[c] = "second" => mem[c].token \in broken'
      /\ pc[c] # "second" => broken' = broken
  BY DEF SessionEnds, SessionFails, Invalidate, Fail, Goto, SInv, IInv, TypeOK, tables, Done
<1>3. DOMAIN tokens' = DOMAIN tokens /\ \A t \in DOMAIN tokens : tokens'[t].replacedBy = tokens[t].replacedBy
  <2>1. CASE SessionEnds(c)
    <3> DEFINE t == mem[c].token
               r == [tokens[t] EXCEPT !.used = TRUE]
    <3>1. tokens' = [tokens EXCEPT ![t] = r]
      BY <2>1 DEF SessionEnds, Invalidate
    <3>2. t \in DOMAIN tokens => r \in Row /\ r.replacedBy = tokens[t].replacedBy
      <4>1. t \in DOMAIN tokens => tokens[t] \in Row
        BY Domains DEF SInv, IInv, TypeOK
      <4> QED BY <4>1 DEF Row
    <3> HIDE DEF r
    <3> QED BY <1>1, <3>1, <3>2, UpdateFacts DEF SInv, IInv
  <2>2. CASE SessionFails(c)
    BY <2>2 DEF SessionFails, Fail
  <2> QED BY <2>1, <2>2
<1>4. TokensHaveAccounts'
  BY <1>1, <1>2, <1>3, TokensHaveAccountsKept DEF AccountsStay
<1>5. LostOnlyByFailure'
  BY <1>2, <1>3, LossesKept
<1>6. ClaimsWereTrue' /\ access' \subseteq Signatures
  BY <1>2 DEF SInv, SessionsTypeOK, Promises, ClaimsWereTrue
<1>7. broken' \subseteq DOMAIN tokens'
  BY <1>1, <1>2, <1>3 DEF SInv, SessionsTypeOK, HeldBy, Rotating
<1>8. HeldAccount(c)'
  <2>1. phase'[c] = "out" /\ local'[c] = Nothing
    BY <1>2 DEF Leave, Enter, Keep, SInv, SessionsTypeOK
  <2> QED BY <1>2, <2>1, NothingFacts DEF HeldAccount, Done, SigningIn
<1> QED BY <1>2, <1>4, <1>5, <1>6, <1>7, <1>8, NothingFacts, TokenStep
    DEF Leave, Enter, Keep, Phases, SigningIn

-----------------------------------------------------------------------------
\* Steps that write the users' table, and the passing of time.

LEMMA SaveKeepsInv ==
  ASSUME SInv, SessionsNext, NEW c \in Clients, SaveAccount(c)
  PROVE  SInv'
<1> DEFINE l == local[c]
           u == l.user
           row == Saved(accounts[u], l)
<1>1. IInv' /\ Extends
  BY TokensKept
<1>2. /\ phase[c] = "save" /\ pc[c] \in Done /\ u \in Users /\ l \in Sessions /\ HeldAccount(c)
      /\ l.entity \in Accounts
  BY ClientFacts, LocalFields DEF SaveAccount, SigningIn, HeldAccount
<1>3. accounts[u] \in Accounts \cup {NoAccount} /\ ("insert" \in l.dirty <=> accounts[u] = NoAccount)
  BY <1>2 DEF SInv, SessionsTypeOK, SaveAccount, HeldAccount
<1>4. row \in Accounts /\ row.admin \in {l.entity.admin, accounts[u].admin}
      /\ ("insert" \in l.dirty => row.admin = FALSE)
  <2>1. CASE "insert" \in l.dirty
    BY <1>2, <2>1 DEF Saved, HeldAccount
  <2>2. CASE "insert" \notin l.dirty
    <3>1. accounts[u] \in Accounts
      BY <1>3, <2>2
    <3> QED BY <1>2, <2>2, <3>1, AccountFields DEF Saved, Accounts
  <2> QED BY <2>1, <2>2
<1> HIDE DEF row
<1>5. accounts' = [accounts EXCEPT ![u] = row] /\ accounts'[u] = row
  BY <1>2 DEF SaveAccount, row, SInv, SessionsTypeOK
<1>6. /\ local' = [d \in Clients |-> Noticing(u, IsAdmin(row), local[d])]
      /\ reverted' = IF l.crossed THEN reverted \cup {u} ELSE reverted
      /\ Enter(c, "loaded") /\ Arrive(c, "login", [Blank EXCEPT !.user = u])
      /\ UNCHANGED <<presented, access, ordered, broken>>
  BY DEF SaveAccount, row
<1>7. IsAdmin(row) = row.admin /\ row.admin \in BOOLEAN /\ row # NoAccount
  BY <1>4, AccountFields DEF IsAdmin
<1>8. ASSUME NEW d \in Clients
      PROVE  /\ local'[d] \in Sessions /\ local'[d].user = local[d].user
             /\ local'[d].entity = local[d].entity /\ local'[d].dirty = local[d].dirty
             /\ local'[d].crossed = local[d].crossed /\ local[d].roles \subseteq local'[d].roles
             /\ local[d].user = u => row.admin \in local'[d].roles
  <2>1. local[d] \in Sessions
    BY ClientFacts
  <2>2. local'[d] = Noticing(u, row.admin, local[d])
    BY <1>6, <1>7
  <2> QED BY <1>7, <2>1, <2>2, NoticingFacts
<1>9. AccountsStay /\ \A v \in Users : v # u => accounts'[v] = accounts[v]
  BY <1>2, <1>5, <1>7 DEF SInv, SessionsTypeOK, AccountsStay
<1>10. UNCHANGED <<tokens, exchanged, broken>> /\ pc'[c] = "login" /\ mem'[c].user = u
       /\ \A d \in Clients : d # c => pc'[d] = pc[d] /\ mem'[d] = mem[d] /\ phase'[d] = phase[d]
  BY <1>6 DEF Arrive, Goto, Enter, Blank, SInv, SessionsTypeOK, IInv, TypeOK
<1>11. phase'[c] = "loaded"
  BY <1>6 DEF Enter, SInv, SessionsTypeOK
<1>12. ASSUME NEW d \in Clients, local[d].user \in Users
       PROVE  IsAdmin(accounts'[local[d].user]) \in local'[d].roles
  <2>1. CASE local[d].user = u
    BY <1>5, <1>7, <1>8, <2>1
  <2>2. CASE local[d].user # u
    <3>1. HeldAccount(d)
      BY ClientFacts
    <3> QED BY <1>8, <1>9, <1>12, <2>2, <3>1 DEF HeldAccount
  <2> QED BY <2>1, <2>2
<1>13. ASSUME NEW d \in Clients, d # c PROVE HeldAccount(d)'
  <2>1. Undisturbed(d)
    BY <1>6, <1>8, <1>10, <1>12, <1>13 DEF Undisturbed
  <2> QED BY <1>1, <1>9, <2>1, HeldAccountKept
<1>14. l.entity.admin \in local'[c].roles
  <2>1. CASE "insert" \in l.dirty
    BY <1>2, <1>4, <1>8, <2>1 DEF HeldAccount
  <2>2. CASE "insert" \notin l.dirty
    BY <1>2, <1>8, <2>2 DEF HeldAccount
  <2> QED BY <2>1, <2>2
<1>15. HeldAccount(c)'
  BY <1>5, <1>7, <1>8, <1>10, <1>11, <1>12, <1>14 DEF HeldAccount, SigningIn, Done
<1>16. SessionsTypeOK'
  <2>1. /\ accounts' \in [Users -> Accounts \cup {NoAccount}]
        /\ phase' \in [Clients -> Phases] /\ local' \in [Clients -> Sessions]
        /\ reverted' \subseteq Users
    BY <1>2, <1>4, <1>5, <1>6, <1>8 DEF SInv, SessionsTypeOK, Enter, Phases, SigningIn
  <2>2. ASSUME NEW d \in Clients
        PROVE  /\ phase'[d] # "out" => local'[d].user \in Users
               /\ phase'[d] \in SigningIn => pc'[d] \in Done
               /\ phase'[d] = "loaded" => local'[d].entity # NoAccount
    <3>1. CASE d = c
      BY <1>2, <1>8, <1>11, <3>1, AccountFields DEF SigningIn
    <3>2. CASE d # c
      BY <1>8, <1>10, <3>2 DEF SInv, SessionsTypeOK
    <3> QED BY <3>1, <3>2
  <2>3. TypeOK'
    BY <1>1 DEF IInv
  <2> QED BY <1>6, <1>10, <2>1, <2>2, <2>3 DEF SessionsTypeOK, SInv
<1>17. TokensHaveAccounts' /\ LostOnlyByFailure' /\ ClaimsWereTrue'
  <2>1. TokensHaveAccounts'
    BY <1>1, <1>9, <1>10, TokensHaveAccountsKept
  <2>2. LostOnlyByFailure'
    BY <1>2, <1>10, LossesKept DEF Done
  <2> QED BY <1>6, <2>1, <2>2 DEF SInv, Promises, ClaimsWereTrue
<1>18. OnlyCrossedSignInsRevert' /\ UnorderedBefore'
  <2>1. ASSUME row.admin # ordered[u] PROVE u \in reverted'
    <3>1. CASE "insert" \in l.dirty
      BY <1>2, <1>3, <1>4, <2>1, <3>1 DEF SInv, UnorderedBefore
    <3>2. CASE "insert" \notin l.dirty /\ row.admin = l.entity.admin
      BY <1>2, <1>6, <2>1, <3>2, LocalFields DEF HeldAccount
    <3>3. CASE "insert" \notin l.dirty /\ row.admin = accounts[u].admin
      BY <1>2, <1>3, <1>6, <2>1, <3>3 DEF SInv, Promises, OnlyCrossedSignInsRevert
    <3> QED BY <1>4, <3>1, <3>2, <3>3
  <2>2. OnlyCrossedSignInsRevert'
    BY <1>5, <1>6, <1>9, <2>1 DEF SInv, Promises, OnlyCrossedSignInsRevert
  <2>3. UnorderedBefore'
    BY <1>5, <1>6, <1>7, <1>9 DEF SInv, UnorderedBefore
  <2> QED BY <2>2, <2>3
<1> QED BY <1>1, <1>13, <1>15, <1>16, <1>17, <1>18 DEF SInv, Promises

\* The operator or the user writes one column of a row that exists.
LEMMA ColumnKeepsInv ==
  ASSUME SInv, SessionsNext, NEW u \in Users, NEW a \in Accounts,
         accounts[u] # NoAccount, accounts' = [accounts EXCEPT ![u] = a],
         UNCHANGED <<vars, phase, access, broken>>,
         local' \in [Clients -> Sessions],
         \A d \in Clients : Undisturbed(d),
         OnlyCrossedSignInsRevert', ordered' \in [Users -> BOOLEAN], reverted' \subseteq Users,
         \A v \in Users : v # u => ordered'[v] = ordered[v]
  PROVE  SInv'
<1>1. IInv' /\ Extends
  BY TokensKept
<1>2. accounts' \in [Users -> Accounts \cup {NoAccount}] /\ accounts'[u] # NoAccount
      /\ \A v \in Users : v # u => accounts'[v] = accounts[v]
  BY AccountFields DEF SInv, SessionsTypeOK
<1>3. AccountsStay
  BY <1>2 DEF AccountsStay
<1>4. \A d \in Clients : HeldAccount(d)'
  BY <1>1, <1>3, HeldAccountKept
<1>5. SessionsTypeOK'
  <2>1. TypeOK'
    BY <1>1 DEF IInv
  <2> QED BY <1>2, <2>1 DEF SInv, SessionsTypeOK, vars, Undisturbed
<1>6. TokensHaveAccounts'
  BY <1>1, <1>3, TokensHaveAccountsKept DEF vars
<1>7. LostOnlyByFailure' /\ ClaimsWereTrue' /\ UnorderedBefore'
  BY <1>2 DEF SInv, Promises, vars, LostOnlyByFailure, ClaimsWereTrue, UnorderedBefore
<1> QED BY <1>1, <1>4, <1>5, <1>6, <1>7 DEF SInv, Promises

LEMMA RenameKeepsInv ==
  ASSUME SInv, SessionsNext, NEW u \in Users, Rename(u)
  PROVE  SInv'
<1>1. PICK n \in Names : accounts' = [accounts EXCEPT ![u].name = n]
  BY DEF Rename
<1> DEFINE a == [accounts[u] EXCEPT !.name = n]
<1>2. accounts[u] \in Accounts /\ accounts[u] # NoAccount
  BY DEF Rename, SInv, SessionsTypeOK
<1>3. a \in Accounts /\ a.admin = accounts[u].admin /\ accounts' = [accounts EXCEPT ![u] = a]
  BY <1>1, <1>2 DEF Accounts
<1> HIDE DEF a
<1>4. accounts'[u] = a /\ \A v \in Users : v # u => accounts'[v] = accounts[v]
  BY <1>3 DEF SInv, SessionsTypeOK
<1>5. \A v \in Users : IsAdmin(accounts'[v]) = IsAdmin(accounts[v])
  BY <1>2, <1>3, <1>4, AccountFields DEF IsAdmin
<1>6. ASSUME NEW d \in Clients PROVE Undisturbed(d)
  <2>1. HeldAccount(d)
    BY DEF SInv
  <2> QED BY <1>5, <2>1 DEF Rename, vars, Undisturbed, HeldAccount
<1>7. OnlyCrossedSignInsRevert'
  BY <1>2, <1>3, <1>4 DEF Rename, SInv, Promises, OnlyCrossedSignInsRevert
<1> QED BY <1>2, <1>3, <1>6, <1>7, ColumnKeepsInv DEF Rename, SInv, SessionsTypeOK

LEMMA SetRoleKeepsInv ==
  ASSUME SInv, SessionsNext, NEW u \in Users, SetRole(u)
  PROVE  SInv'
<1>1. PICK b \in BOOLEAN :
       /\ accounts' = [accounts EXCEPT ![u].admin = b]
       /\ ordered' = [ordered EXCEPT ![u] = b]
       /\ local' = [d \in Clients |->
            Noticing(u, b, [local[d] EXCEPT !.crossed = @ \/ (local[d].user = u /\ phase[d] \in {"reread", "save"})])]
  BY DEF SetRole
<1> DEFINE a == [accounts[u] EXCEPT !.admin = b]
           Crossing(d) == [local[d] EXCEPT !.crossed = @ \/ (local[d].user = u /\ phase[d] \in {"reread", "save"})]
<1>2. accounts[u] \in Accounts /\ accounts[u] # NoAccount
  BY DEF SetRole, SInv, SessionsTypeOK
<1>3. a \in Accounts /\ a.admin = b /\ accounts' = [accounts EXCEPT ![u] = a]
  BY <1>1, <1>2 DEF Accounts
<1> HIDE DEF a
<1>4. /\ accounts'[u] = a /\ \A v \in Users : v # u => accounts'[v] = accounts[v]
      /\ ordered' \in [Users -> BOOLEAN] /\ ordered'[u] = b
      /\ \A v \in Users : v # u => ordered'[v] = ordered[v]
  BY <1>1, <1>3 DEF SInv, SessionsTypeOK
<1>5. IsAdmin(a) = b
  BY <1>3, AccountFields DEF IsAdmin
<1>6. reverted' = reverted \ {u} /\ UNCHANGED <<vars, phase, access, broken>>
  BY DEF SetRole
<1>7. ASSUME NEW d \in Clients
      PROVE  /\ local'[d] \in Sessions /\ local'[d].user = local[d].user
             /\ local'[d].entity = local[d].entity /\ local'[d].dirty = local[d].dirty
             /\ local[d].roles \subseteq local'[d].roles
             /\ local[d].user = u => b \in local'[d].roles
             /\ ~local'[d].crossed =>
                  ~local[d].crossed /\ ~(local[d].user = u /\ phase[d] \in {"reread", "save"})
  <2>1. local[d] \in Sessions
    BY ClientFacts
  <2>2. /\ Crossing(d) \in Sessions /\ Crossing(d).user = local[d].user
        /\ Crossing(d).entity = local[d].entity /\ Crossing(d).dirty = local[d].dirty
        /\ Crossing(d).roles = local[d].roles
        /\ ~Crossing(d).crossed =>
             ~local[d].crossed /\ ~(local[d].user = u /\ phase[d] \in {"reread", "save"})
    BY <2>1 DEF Sessions
  <2>3. local'[d] = Noticing(u, b, Crossing(d))
    BY <1>1
  <2> HIDE DEF Crossing
  <2>4. LET m == Noticing(u, b, Crossing(d)) IN
        /\ m \in Sessions /\ m.user = Crossing(d).user /\ m.entity = Crossing(d).entity
        /\ m.dirty = Crossing(d).dirty /\ m.crossed = Crossing(d).crossed
        /\ Crossing(d).roles \subseteq m.roles /\ (Crossing(d).user = u => b \in m.roles)
    BY <2>2, NoticingFacts
  <2> QED BY <2>2, <2>3, <2>4
<1>8. ASSUME NEW d \in Clients PROVE Undisturbed(d)
  <2>1. HeldAccount(d) /\ (phase[d] # "out" => local[d].user \in Users)
    BY ClientFacts
  <2>2. local[d].user \in Users => IsAdmin(accounts'[local[d].user]) \in local'[d].roles
    BY <1>4, <1>5, <1>7, <2>1 DEF HeldAccount
  <2>3. ASSUME phase[d] \in {"reread", "save"}, ~local'[d].crossed
        PROVE  /\ ~local[d].crossed
               /\ ordered'[local[d].user] = ordered[local[d].user]
               /\ local[d].user \in reverted => local[d].user \in reverted'
    BY <1>4, <1>6, <1>7, <2>1, <2>3
  <2> QED BY <1>6, <1>7, <2>2, <2>3 DEF Undisturbed, vars
<1>9. OnlyCrossedSignInsRevert'
  BY <1>3, <1>4, <1>6 DEF SInv, Promises, OnlyCrossedSignInsRevert
<1>10. local' \in [Clients -> Sessions]
  BY <1>1, <1>7
<1> QED BY <1>2, <1>3, <1>4, <1>6, <1>8, <1>9, <1>10, ColumnKeepsInv DEF SInv, SessionsTypeOK

LEMMA TimeKeepsInv ==
  ASSUME SInv, [SessionsNext]_sessionVars,
         ExpireAccess \/ SessionExpire \/ SessionsFinished \/ UNCHANGED sessionVars
  PROVE  SInv'
<1>1. IInv' /\ Extends
  BY TokensKept
<1>2. /\ UNCHANGED <<requests, pc, mem, exchanged, accounts, phase, local, ordered, reverted, broken>>
      /\ access' \subseteq access
  BY DEF ExpireAccess, SessionExpire, SessionsFinished, Expire, Finished, vars, tables, sessionVars
<1>3. \A t \in DOMAIN tokens' : t \in DOMAIN tokens /\ tokens'[t].replacedBy = tokens[t].replacedBy
  <2>1. CASE UNCHANGED tokens
    BY <2>1
  <2>2. CASE Expire
    <3>1. PICK i \in DOMAIN tokens : tokens' = [tokens EXCEPT ![i].expired = TRUE]
      BY <2>2 DEF Expire
    <3> DEFINE r == [tokens[i] EXCEPT !.expired = TRUE]
    <3>2. tokens[i] \in Row /\ i \in Nat
      BY Domains DEF SInv, IInv, TypeOK
    <3>3. r \in Row /\ r.replacedBy = tokens[i].replacedBy /\ tokens' = [tokens EXCEPT ![i] = r]
      BY <3>1, <3>2 DEF Row
    <3> HIDE DEF r
    <3> QED BY <3>2, <3>3, UpdateFacts DEF SInv, IInv
  <2> QED BY <2>1, <2>2 DEF ExpireAccess, SessionExpire, SessionsFinished, Finished, vars, sessionVars
<1>4. TokensHaveAccounts'
  BY <1>1, <1>2, <1>3, TokensHaveAccountsKept DEF AccountsStay
<1>5. LostOnlyByFailure' /\ ClaimsWereTrue' /\ OnlyCrossedSignInsRevert' /\ UnorderedBefore'
  BY <1>2, <1>3 DEF SInv, Promises, LostOnlyByFailure, ClaimsWereTrue, OnlyCrossedSignInsRevert, UnorderedBefore
<1>6. ASSUME NEW d \in Clients PROVE HeldAccount(d)'
  BY <1>1, <1>2, <1>6, AloneUndisturbed, HeldAccountKept DEF AccountsStay
<1>7. SessionsTypeOK'
  <2>1. TypeOK' /\ broken \subseteq DOMAIN tokens'
    BY <1>1 DEF IInv, SInv, SessionsTypeOK, Extends
  <2> QED BY <1>2, <2>1 DEF SInv, SessionsTypeOK
<1> QED BY <1>1, <1>4, <1>5, <1>6, <1>7 DEF SInv, Promises

-----------------------------------------------------------------------------
LEMMA SessionsInitInv == SessionsInit => SInv
<1> SUFFICES ASSUME SessionsInit PROVE SInv
  OBVIOUS
<1>1. IInv /\ DOMAIN tokens = {}
  BY InitInv, Domains DEF SessionsInit, Init, IInv
<1>2. SessionsTypeOK
  BY <1>1, NothingFacts DEF SessionsInit, Init, IInv, SessionsTypeOK, Phases, SigningIn, Done
<1>3. Promises /\ UnorderedBefore
  BY <1>1 DEF SessionsInit, Promises, UnorderedBefore, TokensHaveAccounts,
              OnlyCrossedSignInsRevert, ClaimsWereTrue, LostOnlyByFailure
<1>4. ASSUME NEW c \in Clients PROVE HeldAccount(c)
  BY <1>4, NothingFacts DEF SessionsInit, Init, HeldAccount, SigningIn, Done
<1> QED BY <1>1, <1>2, <1>3, <1>4 DEF SInv

LEMMA SessionsNextKeepsInv == SInv /\ [SessionsNext]_sessionVars => SInv'
<1> SUFFICES ASSUME SInv, [SessionsNext]_sessionVars PROVE SInv'
  OBVIOUS
<1>1. ASSUME NEW c \in Clients, SessionsNext,
             \/ SignIn(c) \/ FindAccount(c) \/ RereadAccount(c) \/ SaveAccount(c)
             \/ SaveRefused(c) \/ FailSignIn(c) \/ LoadUser(c)
      PROVE  SInv'
  BY <1>1, SignInKeepsInv, FindAccountKeepsInv, RereadAccountKeepsInv, SaveKeepsInv,
     LeaveKeepsInv, LoadUserKeepsInv
<1>2. ASSUME NEW c \in Clients, SessionsNext,
             \/ SessionPresents(c) \/ SessionContinues(c) \/ SessionIssues(c)
             \/ SessionEnds(c) \/ SessionFails(c)
      PROVE  SInv'
  BY <1>2, PresentsKeepsInv, ContinuesKeepsInv, IssuesKeepsInv, EndsKeepsInv
<1>3. ASSUME NEW u \in Users, SessionsNext, Rename(u) \/ SetRole(u) PROVE SInv'
  BY <1>3, RenameKeepsInv, SetRoleKeepsInv
<1> QED BY <1>1, <1>2, <1>3, TimeKeepsInv DEF SessionsNext

\* The inductive invariant of sign-ins, refreshes, renames and the operator's changes, all
\* interleaved (user.repository.ts:21-50, auth.service.ts:27-104).
THEOREM SessionsInvariance == SessionsSpec => []SInv
  BY SessionsInitInv, SessionsNextKeepsInv, PTL DEF SessionsSpec

\* Whole sign-ins and refreshes do to the tokens what RefreshTokens says (auth.service.ts:46-47,
\* 88-100): every behaviour of Sessions is one of RefreshTokens, whose theorems it inherits.
THEOREM Implements == SessionsSpec => Spec
<1>1. SessionsInit => Init
  BY DEF SessionsInit
<1>2. SInv /\ [SessionsNext]_sessionVars => [Next]_vars
  BY StepRefines
<1> QED BY <1>1, <1>2, SessionsInvariance, PTL DEF SessionsSpec, Spec

\* Every variable keeps its type.
THEOREM SessionsTypeCorrect == SessionsSpec => []SessionsTypeOK
<1>1. SInv => SessionsTypeOK
  BY DEF SInv
<1> QED BY <1>1, SessionsInvariance, PTL

\* A token's user has a row (user.repository.ts:26-39, auth.service.ts:90).
THEOREM Accounted == SessionsSpec => []TokensHaveAccounts
<1>1. SInv => TokensHaveAccounts
  BY DEF SInv, Promises
<1> QED BY <1>1, SessionsInvariance, PTL

\* Only a sign-in that read the row before the operator set is_admin, and saves after,
\* undoes it (user.repository.ts:26-31).
THEOREM Ordered == SessionsSpec => []OnlyCrossedSignInsRevert
<1>1. SInv => OnlyCrossedSignInsRevert
  BY DEF SInv, Promises
<1> QED BY <1>1, SessionsInvariance, PTL

\* The is_admin of an access token was the row's while its request ran (token.service.ts:33-40).
THEOREM Truthful == SessionsSpec => []ClaimsWereTrue
<1>1. SInv => ClaimsWereTrue
  BY DEF SInv, Promises
<1> QED BY <1>1, SessionsInvariance, PTL

\* A token is replaced for an answer, or by a request that failed (auth.service.ts:91-93).
THEOREM Losses == SessionsSpec => []LostOnlyByFailure
<1>1. SInv => LostOnlyByFailure
  BY DEF SInv, Promises
<1> QED BY <1>1, SessionsInvariance, PTL

\* What RefreshTokens promises of the tokens, in whole sessions.
THEOREM TokensInSessions == SessionsSpec => [](ChainForward /\ OnlyPresentedAreSpent /\ ReplayRejected)
  BY Implements, Chains, Spending, Replay, PTL
=============================================================================
