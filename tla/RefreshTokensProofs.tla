------------------------- MODULE RefreshTokensProofs -------------------------
(***************************************************************************)
(* What holds of RefreshTokens for every number of clients, users and      *)
(* requests.                                                               *)
(***************************************************************************)
EXTENDS RefreshTokens, SequenceTheorems, TLAPS

Rotating == {"insert", "retire", "second"}

\* What a request in flight may rely on: the token it presented and the one it inserted.
HeldBy(c) ==
  /\ pc[c] = "login" => mem[c].user \in Users
  /\ pc[c] \in {"validate", "logout"} => mem[c].token \in presented
  /\ pc[c] \in Rotating =>
       /\ mem[c].token \in presented /\ mem[c].token \in DOMAIN tokens
       /\ tokens[mem[c].token].user = mem[c].user
  /\ pc[c] \in {"retire", "second"} =>
       /\ mem[c].issued \in DOMAIN tokens /\ mem[c].token < mem[c].issued
       /\ tokens[mem[c].issued].user = mem[c].user
  /\ mem[c].replayed =>
       Used(mem[c].token) /\ pc[c] \notin Rotating /\ mem[c].issued = None
Held == \A c \in Clients : HeldBy(c)

IInv == TypeOK /\ ChainForward /\ OnlyPresentedAreSpent /\ Held

-----------------------------------------------------------------------------
\* The table: what an INSERT and what an UPDATE leave.

LEMMA RowFields ==
  ASSUME NEW r \in Row
  PROVE  /\ r.user \in Users /\ r.used \in BOOLEAN /\ r.expired \in BOOLEAN /\ r.replacedBy \in Nat
  BY DEF Row

LEMMA Domains == ASSUME TypeOK PROVE DOMAIN tokens = 1 .. Len(tokens) /\ Len(tokens) \in Nat
  BY LenProperties DEF TypeOK

LEMMA InsertFacts ==
  ASSUME TypeOK, NEW u \in Users, Insert(u)
  PROVE  /\ tokens' \in Seq(Row) /\ Len(tokens') = Len(tokens) + 1
         /\ DOMAIN tokens' = 1 .. Len(tokens) + 1
         /\ \A t \in DOMAIN tokens : tokens'[t] = tokens[t]
         /\ tokens'[Len(tokens) + 1] = Fresh(u)
<1>1. Fresh(u) \in Row
  BY DEF Fresh, Row, None
<1>2. tokens \in Seq(Row)
  BY DEF TypeOK
<1> QED BY <1>1, <1>2, LenProperties DEF Insert

\* An UPDATE of a row that was never inserted changes nothing.
LEMMA UpdateFacts ==
  ASSUME TypeOK, NEW t \in Nat, NEW r, t \in DOMAIN tokens => r \in Row,
         tokens' = [tokens EXCEPT ![t] = r]
  PROVE  /\ tokens' \in Seq(Row) /\ Len(tokens') = Len(tokens)
         /\ DOMAIN tokens' = DOMAIN tokens
         /\ \A i \in DOMAIN tokens : tokens'[i] = IF i = t THEN r ELSE tokens[i]
<1>1. tokens \in Seq(Row) /\ DOMAIN tokens = 1 .. Len(tokens)
  BY Domains DEF TypeOK
<1>2. CASE t \in DOMAIN tokens
  BY <1>1, <1>2, ExceptSeq, LenProperties
<1>3. CASE t \notin DOMAIN tokens
  <2>1. tokens' = tokens
    BY <1>1, <1>3
  <2> QED BY <1>1, <1>3, <2>1
<1> QED BY <1>2, <1>3

-----------------------------------------------------------------------------
\* Rows are added at the end, keep their user and, once used, stay used.
Extends ==
  \A t \in DOMAIN tokens :
    /\ t \in DOMAIN tokens' /\ tokens'[t].user = tokens[t].user
    /\ tokens[t].used => tokens'[t].used

\* A request that does not move keeps what it relies on while the table grows.
LEMMA HeldKept ==
  ASSUME NEW c \in Clients, HeldBy(c), Extends, presented \subseteq presented',
         pc'[c] = pc[c], mem'[c] = mem[c]
  PROVE  HeldBy(c)'
  BY DEF HeldBy, Extends, Used

\* A step of c that moves c alone.
Moves(c, l, m) ==
  /\ l \in Done \cup Labels /\ m \in Locals
  /\ pc' = [pc EXCEPT ![c] = l] /\ mem' = [mem EXCEPT ![c] = m]

\* The table and its history are well typed and the chains go forward after the step.
Tables ==
  /\ tokens' \in Seq(Row) /\ known' \subseteq DOMAIN tokens' /\ requests' \in Nat
  /\ presented' \subseteq known' \cup {None}
  /\ exchanged' \in Seq(Nat) /\ Len(exchanged') = Len(tokens')
  /\ ChainForward' /\ OnlyPresentedAreSpent'

LEMMA MoveKeepsInv ==
  ASSUME IInv, NEW c \in Clients, NEW l, NEW m, Moves(c, l, m), Tables, Extends,
         presented \subseteq presented', HeldBy(c)'
  PROVE  IInv'
<1>1. TypeOK'
  BY DEF IInv, Moves, Tables, TypeOK
<1>2. ASSUME NEW d \in Clients, d # c PROVE HeldBy(d)'
  <2>1. pc'[d] = pc[d] /\ mem'[d] = mem[d]
    BY <1>2 DEF IInv, Moves, TypeOK
  <2> QED BY <2>1, HeldKept DEF IInv, Held
<1> QED BY <1>1, <1>2 DEF IInv, Tables, Held

\* What the invariant says of c's memory.
LEMMA MemoryFacts ==
  ASSUME IInv, NEW c \in Clients
  PROVE  /\ HeldBy(c) /\ mem[c] \in Locals
         /\ mem[c].token \in Nat /\ mem[c].issued \in Nat
         /\ mem[c].user \in Users \cup {NoUser} /\ mem[c].replayed \in BOOLEAN
  BY DEF IInv, TypeOK, Held, Locals

\* A step that leaves the table alone keeps what is said of it.
LEMMA SameTables ==
  ASSUME IInv, tokens' = tokens, exchanged' = exchanged, requests' \in Nat,
         known' = known, presented \subseteq presented', presented' \subseteq known \cup {None}
  PROVE  Tables /\ Extends
  BY DEF IInv, TypeOK, Tables, Extends, ChainForward, OnlyPresentedAreSpent, Last

\* An insert keeps it too: the new row is unused and replaces nothing.
LEMMA InsertKeeps ==
  ASSUME IInv, NEW u \in Users, Insert(u), requests' = requests, presented' = presented,
         known \subseteq known', known' \subseteq DOMAIN tokens', exchanged' \in Seq(Nat), Len(exchanged') = Len(tokens) + 1
  PROVE  Tables /\ Extends
<1>0. /\ tokens' \in Seq(Row) /\ Len(tokens') = Len(tokens) + 1 /\ Len(tokens) \in Nat
      /\ DOMAIN tokens = 1 .. Len(tokens) /\ DOMAIN tokens' = 1 .. Len(tokens) + 1
      /\ \A t \in DOMAIN tokens : tokens'[t] = tokens[t]
      /\ tokens'[Len(tokens) + 1] = Fresh(u)
  BY InsertFacts, Domains DEF IInv
<1>1. Extends
  BY <1>0 DEF Extends
<1>2. \A t \in DOMAIN tokens' : t \in DOMAIN tokens \/ tokens'[t] = Fresh(u)
  BY <1>0
<1>3. ChainForward'
  <2> SUFFICES ASSUME NEW t \in DOMAIN tokens', tokens'[t].replacedBy # None
               PROVE  /\ tokens'[t].used
                      /\ tokens'[t].replacedBy \in t + 1 .. Len(tokens')
                      /\ tokens'[tokens'[t].replacedBy].user = tokens'[t].user
    BY DEF ChainForward, Last
  <2>1. t \in DOMAIN tokens
    BY <1>2 DEF Fresh
  <2>2. tokens'[t] = tokens[t]
    BY <1>0, <2>1
  <2>3. /\ tokens[t].used /\ tokens[t].replacedBy \in t + 1 .. Len(tokens)
        /\ tokens[tokens[t].replacedBy].user = tokens[t].user
    BY <2>1, <2>2 DEF IInv, ChainForward, Last
  <2>4. tokens[t].replacedBy \in DOMAIN tokens
    BY <1>0, <2>1, <2>3
  <2> QED BY <1>0, <2>1, <2>2, <2>3, <2>4
<1>4. OnlyPresentedAreSpent'
  BY <1>0, <1>2 DEF IInv, OnlyPresentedAreSpent, Fresh
<1>5. requests' \in Nat /\ presented' \subseteq known' \cup {None}
  BY DEF IInv, TypeOK
<1> QED BY <1>0, <1>1, <1>3, <1>4, <1>5 DEF Tables

-----------------------------------------------------------------------------
(* The steps. *)

LEMMA InitInv == Init => IInv
<1> SUFFICES ASSUME Init PROVE IInv
  OBVIOUS
<1>1. << >> \in Seq(Row) /\ << >> \in Seq(Nat) /\ Len(<< >>) = 0 /\ DOMAIN << >> = {}
  BY EmptySeq
<1>2. TypeOK
  BY <1>1 DEF Init, TypeOK, Blank, Locals, None, Done
<1>3. ChainForward /\ OnlyPresentedAreSpent
  BY <1>1 DEF Init, ChainForward, OnlyPresentedAreSpent
<1>4. Held
  BY DEF Init, Held, HeldBy, Blank, Rotating
<1> QED BY <1>2, <1>3, <1>4 DEF IInv

\* A request arrives: its memory is what the client sent.
LEMMA ArriveKeepsInv ==
  ASSUME IInv, NEW c \in Clients, Login(c) \/ Refresh(c) \/ Logout(c)
  PROVE  IInv' /\ Extends
<1>1. CASE Login(c)
  <2>1. PICK u \in Users : Arrive(c, "login", [Blank EXCEPT !.user = u]) /\ presented' = presented
    BY <1>1 DEF Login
  <2> DEFINE m == [Blank EXCEPT !.user = u]
  <2>2. m \in Locals
    BY DEF Blank, Locals, None
  <2>3. Moves(c, "login", m)
    BY <2>1, <2>2 DEF Arrive, Goto, Moves, Labels
  <2>4. Tables /\ Extends
    BY <2>1, SameTables DEF Arrive, IInv, TypeOK
  <2>5. HeldBy(c)'
    BY <2>1 DEF Arrive, Goto, HeldBy, Blank, Rotating, IInv, TypeOK
  <2> QED BY <2>1, <2>3, <2>4, <2>5, MoveKeepsInv
<1>2. CASE Refresh(c) \/ Logout(c)
  <2>1. PICK l \in {"validate", "logout"}, t \in known \cup {None} :
          /\ Arrive(c, l, [Blank EXCEPT !.token = t, !.replayed = Used(t)])
          /\ presented' = presented \cup {t}
    BY <1>2 DEF Refresh, Logout, Present
  <2> DEFINE m == [Blank EXCEPT !.token = t, !.replayed = Used(t)]
  <2>2. t \in Nat /\ Used(t) \in BOOLEAN
    <3>1. t \in DOMAIN tokens \/ t = 0
      BY DEF IInv, TypeOK, None
    <3>2. t \in Nat
      BY <3>1, Domains DEF IInv
    <3>3. Used(t) \in BOOLEAN
      BY <3>1, Domains, ElementOfSeq, RowFields DEF Used, IInv, TypeOK
    <3> QED BY <3>2, <3>3
  <2>3. m \in Locals
    BY <2>2 DEF Blank, Locals, None
  <2>4. Moves(c, l, m)
    BY <2>1, <2>3 DEF Arrive, Goto, Moves, Labels
  <2>5. Tables /\ Extends
    BY <2>1, SameTables DEF Arrive, IInv, TypeOK
  <2>6. pc'[c] = l /\ mem'[c] = m /\ tokens' = tokens
    BY <2>1 DEF Arrive, Goto, IInv, TypeOK
  <2>7. HeldBy(c)'
    BY <2>1, <2>6 DEF HeldBy, Blank, Rotating, Used
  <2> QED BY <2>1, <2>4, <2>5, <2>7, MoveKeepsInv
<1> QED BY <1>1, <1>2

LEMMA IssueFirstKeepsInv ==
  ASSUME IInv, NEW c \in Clients, IssueFirst(c)
  PROVE  IInv' /\ Extends
<1> USE DEF IssueFirst, Goto
<1>1. mem[c].user \in Users
  BY MemoryFacts DEF HeldBy
<1>2. exchanged' \in Seq(Nat) /\ Len(exchanged') = Len(tokens) + 1
  BY DEF IInv, TypeOK
<1>3. known' \subseteq DOMAIN tokens'
  BY <1>1, InsertFacts, Domains DEF Last, IInv, TypeOK
<1>4. Tables /\ Extends
  BY <1>1, <1>2, <1>3, InsertKeeps
<1>5. Moves(c, "ok", mem[c])
  BY MemoryFacts DEF Moves, Done, IInv, TypeOK
<1>6. HeldBy(c)'
  <2>1. pc'[c] = "ok" /\ mem'[c] = mem[c]
    BY <1>5 DEF Moves, IInv, TypeOK
  <2> QED BY <2>1, <1>4, MemoryFacts DEF HeldBy, Rotating, Used, Extends
<1> QED BY <1>4, <1>5, <1>6, MoveKeepsInv

LEMMA ValidateKeepsInv ==
  ASSUME IInv, NEW c \in Clients, Validate(c)
  PROVE  IInv' /\ Extends
<1> DEFINE t == mem[c].token
<1>1. Tables /\ Extends
  BY SameTables DEF Validate, IInv, TypeOK
<1>2. CASE Valid(t)
  <2>1. pc' = [pc EXCEPT ![c] = "insert"] /\ mem' = [mem EXCEPT ![c].user = tokens[t].user]
    BY <1>2 DEF Validate, Goto
  <2>2. tokens[t].user \in Users
    BY <1>2, Domains, ElementOfSeq, RowFields DEF Valid, IInv, TypeOK
  <2>3. [mem[c] EXCEPT !.user = tokens[t].user] \in Locals
    BY <2>2, MemoryFacts DEF Locals
  <2>4. Moves(c, "insert", [mem[c] EXCEPT !.user = tokens[t].user])
    BY <2>1, <2>3 DEF Moves, Labels, IInv, TypeOK
  <2>5. /\ pc'[c] = "insert" /\ mem'[c].user = tokens[t].user /\ mem'[c].token = t
        /\ mem'[c].replayed = mem[c].replayed /\ tokens' = tokens /\ presented' = presented
    BY <2>1, MemoryFacts DEF Locals, Validate, IInv, TypeOK
  <2>6. t \in presented /\ ~mem[c].replayed
    BY <1>2, MemoryFacts DEF HeldBy, Validate, Valid, Used
  <2>7. HeldBy(c)'
    BY <1>2, <2>5, <2>6 DEF HeldBy, Rotating, Valid
  <2> QED BY <1>1, <2>4, <2>7, MoveKeepsInv DEF Validate
<1>3. CASE ~Valid(t)
  <2>1. Moves(c, "rejected", mem[c])
    BY <1>3, MemoryFacts DEF Validate, Goto, Moves, Done, IInv, TypeOK
  <2>2. HeldBy(c)'
    BY <1>3, MemoryFacts DEF Validate, Goto, HeldBy, Rotating, Used, IInv, TypeOK
  <2> QED BY <1>1, <2>1, <2>2, MoveKeepsInv DEF Validate
<1> QED BY <1>2, <1>3

LEMMA InsertSuccessorKeepsInv ==
  ASSUME IInv, NEW c \in Clients, InsertSuccessor(c)
  PROVE  IInv' /\ Extends
<1> USE DEF InsertSuccessor, Goto
<1>1. /\ mem[c].token \in DOMAIN tokens /\ tokens[mem[c].token].user = mem[c].user
      /\ mem[c].token \in presented /\ ~mem[c].replayed
  BY MemoryFacts DEF HeldBy, Rotating
<1>2. mem[c].user \in Users
  BY <1>1, Domains, ElementOfSeq, RowFields DEF IInv, TypeOK
<1>3. exchanged' \in Seq(Nat) /\ Len(exchanged') = Len(tokens) + 1
  BY DEF IInv, TypeOK
<1>4. known' \subseteq DOMAIN tokens'
  BY <1>2, InsertFacts, Domains DEF IInv, TypeOK
<1>5. Tables /\ Extends
  BY <1>2, <1>3, <1>4, InsertKeeps
<1>6. Moves(c, "retire", [mem[c] EXCEPT !.issued = Last + 1])
  <2>1. Last + 1 \in Nat
    BY Domains DEF Last, IInv
  <2>2. [mem[c] EXCEPT !.issued = Last + 1] \in Locals
    BY <2>1, MemoryFacts DEF Locals
  <2> QED BY <2>2 DEF Moves, Labels, IInv, TypeOK
<1>7. /\ pc'[c] = "retire" /\ mem'[c].issued = Len(tokens) + 1 /\ mem'[c].token = mem[c].token
      /\ mem'[c].user = mem[c].user /\ mem'[c].replayed = mem[c].replayed
  BY MemoryFacts DEF Last, Locals, IInv, TypeOK
<1>8. HeldBy(c)'
  <2>0. /\ DOMAIN tokens = 1 .. Len(tokens) /\ Len(tokens) \in Nat
        /\ DOMAIN tokens' = 1 .. Len(tokens) + 1
        /\ \A t \in DOMAIN tokens : tokens'[t] = tokens[t]
        /\ tokens'[Len(tokens) + 1] = Fresh(mem[c].user)
    BY <1>2, InsertFacts, Domains DEF IInv
  <2>1. /\ tokens'[mem[c].token] = tokens[mem[c].token]
        /\ tokens'[Len(tokens) + 1].user = mem[c].user
    BY <1>1, <2>0 DEF Fresh
  <2>2. /\ mem[c].token \in DOMAIN tokens' /\ Len(tokens) + 1 \in DOMAIN tokens'
        /\ mem[c].token < Len(tokens) + 1
    BY <1>1, <2>0
  <2>3. mem[c].token \in presented'
    BY <1>1
  <2> QED BY <1>1, <1>7, <2>1, <2>2, <2>3 DEF HeldBy, Rotating
<1> QED BY <1>5, <1>6, <1>8, MoveKeepsInv

\* The row that is retired becomes used and points to a later row of its user.
LEMMA RetireKeepsInv ==
  ASSUME IInv, NEW c \in Clients, Retire(c)
  PROVE  IInv' /\ Extends
<1> DEFINE t == mem[c].token
           n == mem[c].issued
           r == [tokens[t] EXCEPT !.used = TRUE, !.replacedBy = n]
<1>1. /\ t \in DOMAIN tokens /\ tokens[t].user = mem[c].user /\ t \in presented
      /\ n \in DOMAIN tokens /\ t < n /\ tokens[n].user = mem[c].user /\ ~mem[c].replayed
  BY MemoryFacts DEF Retire, HeldBy, Rotating
<1>2. tokens[t] \in Row /\ t \in Nat /\ n \in Nat
  BY <1>1, MemoryFacts, Domains, ElementOfSeq DEF IInv, TypeOK
<1>3. r \in Row /\ r.user = tokens[t].user /\ r.used /\ r.replacedBy = n
  BY <1>2 DEF Row
<1>4. tokens' = [tokens EXCEPT ![t] = r]
  BY DEF Retire, Retired
<1>5. /\ tokens' \in Seq(Row) /\ Len(tokens') = Len(tokens) /\ DOMAIN tokens' = DOMAIN tokens
      /\ \A i \in DOMAIN tokens : tokens'[i] = IF i = t THEN r ELSE tokens[i]
  BY <1>2, <1>3, <1>4, UpdateFacts DEF IInv
<1>6. Extends
  BY <1>3, <1>5 DEF Extends
<1>7. ChainForward'
  <2> SUFFICES ASSUME NEW i \in DOMAIN tokens, tokens'[i].replacedBy # None
               PROVE  /\ tokens'[i].used
                      /\ tokens'[i].replacedBy \in i + 1 .. Len(tokens)
                      /\ tokens'[tokens'[i].replacedBy].user = tokens'[i].user
    BY <1>5 DEF ChainForward, Last
  <2>1. CASE i = t
    <3>1. tokens'[i] = r /\ tokens'[n] = tokens[n]
      BY <2>1, <1>1, <1>2, <1>5
    <3>2. n \in t + 1 .. Len(tokens)
      BY <1>1, <1>2, Domains DEF IInv
    <3> QED BY <2>1, <3>1, <3>2, <1>1, <1>3
  <2>2. CASE i # t
    <3>1. /\ tokens[i].used /\ tokens[i].replacedBy \in i + 1 .. Len(tokens)
          /\ tokens[tokens[i].replacedBy].user = tokens[i].user
      BY <2>2, <1>5 DEF IInv, ChainForward, Last
    <3> DEFINE k == tokens[i].replacedBy
    <3>2. k \in DOMAIN tokens
      BY <3>1, Domains DEF IInv
    <3>3. tokens'[i] = tokens[i]
      BY <2>2, <1>5
    <3>4. tokens'[k] = IF k = t THEN r ELSE tokens[k]
      BY <3>2, <1>5
    <3>5. tokens'[k].user = tokens[k].user
      <4> HIDE DEF r, t, k
      <4> QED BY <3>4, <1>3
    <3> QED BY <3>1, <3>3, <3>5
  <2> QED BY <2>1, <2>2
<1>8. Tables
  BY <1>1, <1>5, <1>7 DEF Tables, Retire, OnlyPresentedAreSpent, IInv, TypeOK
<1>9. Moves(c, "second", mem[c])
  BY MemoryFacts DEF Retire, Goto, Moves, Labels, IInv, TypeOK
<1>10. pc'[c] = "second" /\ mem'[c] = mem[c] /\ presented' = presented
  BY DEF Retire, Goto, IInv, TypeOK
<1>11. HeldBy(c)'
  BY <1>1, <1>3, <1>5, <1>10 DEF HeldBy, Rotating
<1> QED BY <1>6, <1>8, <1>9, <1>10, <1>11, MoveKeepsInv

LEMMA IssueSecondKeepsInv ==
  ASSUME IInv, NEW c \in Clients, IssueSecond(c)
  PROVE  IInv' /\ Extends
<1> USE DEF IssueSecond, Goto
<1>1. /\ mem[c].token \in DOMAIN tokens /\ tokens[mem[c].token].user = mem[c].user
      /\ mem[c].issued \in DOMAIN tokens /\ ~mem[c].replayed
  BY MemoryFacts DEF HeldBy, Rotating
<1>2. mem[c].user \in Users
  BY <1>1, Domains, ElementOfSeq, RowFields DEF IInv, TypeOK
<1>3. exchanged' \in Seq(Nat) /\ Len(exchanged') = Len(tokens) + 1
  <2> DEFINE t == mem[c].token
             e == [exchanged EXCEPT ![t] = @ + 1]
  <2>1. exchanged \in Seq(Nat) /\ t \in 1 .. Len(exchanged) /\ Len(exchanged) = Len(tokens)
    BY <1>1, Domains DEF IInv, TypeOK
  <2>2. exchanged[t] + 1 \in Nat
    BY <2>1, ElementOfSeq
  <2>3. e \in Seq(Nat) /\ Len(e) = Len(exchanged)
    BY <2>1, <2>2, ExceptSeq
  <2> QED BY <2>1, <2>3
<1>4. known' \subseteq DOMAIN tokens'
  BY <1>1, <1>2, InsertFacts, Domains DEF IInv, TypeOK
<1>5. Tables /\ Extends
  BY <1>2, <1>3, <1>4, InsertKeeps
<1>6. Moves(c, "ok", mem[c])
  BY MemoryFacts DEF Moves, Done, IInv, TypeOK
<1>7. pc'[c] = "ok" /\ mem'[c] = mem[c]
  BY <1>6 DEF Moves, IInv, TypeOK
<1>8. HeldBy(c)'
  BY <1>1, <1>7 DEF HeldBy, Rotating
<1> QED BY <1>5, <1>6, <1>8, MoveKeepsInv

\* A logout's token becomes used; its place in the chain stays.
LEMMA InvalidateKeepsInv ==
  ASSUME IInv, NEW c \in Clients, Invalidate(c)
  PROVE  IInv' /\ Extends
<1> DEFINE t == mem[c].token
           r == [tokens[t] EXCEPT !.used = TRUE]
<1>1. t \in presented /\ t \in Nat
  BY MemoryFacts DEF Invalidate, HeldBy
<1>2. t \in DOMAIN tokens => tokens[t] \in Row
  BY Domains, ElementOfSeq DEF IInv, TypeOK
<1>3. t \in DOMAIN tokens => /\ r \in Row /\ r.user = tokens[t].user /\ r.used
                             /\ r.replacedBy = tokens[t].replacedBy
  BY <1>2 DEF Row
<1>4. tokens' = [tokens EXCEPT ![t] = r]
  BY DEF Invalidate
<1>5. /\ tokens' \in Seq(Row) /\ Len(tokens') = Len(tokens) /\ DOMAIN tokens' = DOMAIN tokens
      /\ \A i \in DOMAIN tokens : tokens'[i] = IF i = t THEN r ELSE tokens[i]
  BY <1>1, <1>3, <1>4, UpdateFacts DEF IInv
<1>6. Extends
  BY <1>3, <1>5 DEF Extends
<1>7. ChainForward'
  <2> SUFFICES ASSUME NEW i \in DOMAIN tokens, tokens'[i].replacedBy # None
               PROVE  /\ tokens'[i].used
                      /\ tokens'[i].replacedBy \in i + 1 .. Len(tokens)
                      /\ tokens'[tokens'[i].replacedBy].user = tokens'[i].user
    BY <1>5 DEF ChainForward, Last
  <2>1. tokens'[i].replacedBy = tokens[i].replacedBy /\ tokens'[i].user = tokens[i].user
    BY <1>3, <1>5
  <2>2. /\ tokens[i].used /\ tokens[i].replacedBy \in i + 1 .. Len(tokens)
        /\ tokens[tokens[i].replacedBy].user = tokens[i].user
    BY <2>1 DEF IInv, ChainForward, Last
  <2>3. tokens[i].replacedBy \in DOMAIN tokens
    BY <2>2, Domains DEF IInv
  <2> QED BY <2>1, <2>2, <2>3, <1>3, <1>5
<1>8. Tables
  BY <1>1, <1>5, <1>7 DEF Tables, Invalidate, OnlyPresentedAreSpent, IInv, TypeOK
<1>9. Moves(c, "ok", mem[c])
  BY MemoryFacts DEF Invalidate, Goto, Moves, Done, IInv, TypeOK
<1>10. pc'[c] = "ok" /\ mem'[c] = mem[c] /\ presented' = presented
  BY DEF Invalidate, Goto, IInv, TypeOK
<1>11. HeldBy(c)'
  BY <1>6, <1>10, MemoryFacts DEF HeldBy, Rotating, Used, Extends
<1> QED BY <1>6, <1>8, <1>9, <1>10, <1>11, MoveKeepsInv

LEMMA FailKeepsInv ==
  ASSUME IInv, NEW c \in Clients, Fail(c)
  PROVE  IInv' /\ Extends
<1>1. Tables /\ Extends
  BY SameTables DEF Fail, IInv, TypeOK
<1>2. Moves(c, "error", mem[c])
  BY MemoryFacts DEF Fail, Goto, Moves, Done, IInv, TypeOK
<1>3. pc'[c] = "error" /\ mem'[c] = mem[c] /\ tokens' = tokens
  BY DEF Fail, Goto, IInv, TypeOK
<1>4. HeldBy(c)'
  BY <1>3, MemoryFacts DEF HeldBy, Rotating, Used
<1> QED BY <1>1, <1>2, <1>4, MoveKeepsInv DEF Fail

LEMMA ExpireKeepsInv ==
  ASSUME IInv, Expire
  PROVE  IInv' /\ Extends
<1>1. PICK t \in DOMAIN tokens : tokens' = [tokens EXCEPT ![t].expired = TRUE]
  BY DEF Expire
<1> DEFINE r == [tokens[t] EXCEPT !.expired = TRUE]
<1>2. tokens[t] \in Row /\ t \in Nat
  BY Domains, ElementOfSeq DEF IInv, TypeOK
<1>3. /\ r \in Row /\ r.user = tokens[t].user /\ r.used = tokens[t].used
      /\ r.replacedBy = tokens[t].replacedBy
  BY <1>2 DEF Row
<1>4. tokens' = [tokens EXCEPT ![t] = r]
  BY <1>1
<1>5. /\ tokens' \in Seq(Row) /\ Len(tokens') = Len(tokens) /\ DOMAIN tokens' = DOMAIN tokens
      /\ \A i \in DOMAIN tokens : tokens'[i] = IF i = t THEN r ELSE tokens[i]
  BY <1>2, <1>3, <1>4, UpdateFacts DEF IInv
<1>6. \A i \in DOMAIN tokens :
        /\ tokens'[i].user = tokens[i].user /\ tokens'[i].used = tokens[i].used
        /\ tokens'[i].replacedBy = tokens[i].replacedBy
  BY <1>3, <1>5
<1>7. Extends
  BY <1>5, <1>6 DEF Extends
<1>8. ChainForward'
  <2> SUFFICES ASSUME NEW i \in DOMAIN tokens, tokens'[i].replacedBy # None
               PROVE  /\ tokens'[i].used
                      /\ tokens'[i].replacedBy \in i + 1 .. Len(tokens)
                      /\ tokens'[tokens'[i].replacedBy].user = tokens'[i].user
    BY <1>5 DEF ChainForward, Last
  <2>1. /\ tokens[i].used /\ tokens[i].replacedBy \in i + 1 .. Len(tokens)
        /\ tokens[tokens[i].replacedBy].user = tokens[i].user
    BY <1>6 DEF IInv, ChainForward, Last
  <2>2. tokens[i].replacedBy \in DOMAIN tokens
    BY <2>1, Domains DEF IInv
  <2> QED BY <2>1, <2>2, <1>6
<1>9. OnlyPresentedAreSpent'
  BY <1>5, <1>6 DEF Expire, IInv, OnlyPresentedAreSpent
<1>10. TypeOK'
  BY <1>5 DEF Expire, IInv, TypeOK
<1>11. Held'
  <2> SUFFICES ASSUME NEW c \in Clients PROVE HeldBy(c)'
    BY DEF Held
  <2> QED BY <1>7, HeldKept DEF Expire, IInv, Held
<1> QED BY <1>7, <1>8, <1>9, <1>10, <1>11 DEF IInv

LEMMA NextKeepsInv == IInv /\ [Next]_vars => IInv' /\ Extends
<1> SUFFICES ASSUME IInv, [Next]_vars PROVE IInv' /\ Extends
  OBVIOUS
<1>1. CASE UNCHANGED vars
  <2>1. Extends
    BY <1>1 DEF vars, Extends
  <2> QED BY <1>1, <2>1 DEF vars, IInv, TypeOK, ChainForward, OnlyPresentedAreSpent, Held,
                              HeldBy, Used, Last
<1>2. ASSUME NEW c \in Clients, Login(c) \/ Refresh(c) \/ Logout(c) PROVE IInv' /\ Extends
  BY <1>2, ArriveKeepsInv
<1>3. ASSUME NEW c \in Clients,
             \/ IssueFirst(c) \/ Validate(c) \/ InsertSuccessor(c) \/ Retire(c)
             \/ IssueSecond(c) \/ Invalidate(c) \/ Fail(c)
      PROVE  IInv' /\ Extends
  BY <1>3, IssueFirstKeepsInv, ValidateKeepsInv, InsertSuccessorKeepsInv, RetireKeepsInv,
     IssueSecondKeepsInv, InvalidateKeepsInv, FailKeepsInv
<1> QED BY <1>1, <1>2, <1>3, ExpireKeepsInv DEF Next, Finished

-----------------------------------------------------------------------------
\* The inductive invariant: types, chains, and what the statements of a refresh that is
\* under way rely on (auth.service.ts:88-100).
THEOREM Invariance == Spec => []IInv
  BY InitInv, NextKeepsInv, PTL DEF Spec

\* Every variable keeps its type.
THEOREM TypeCorrect == Spec => []TypeOK
<1>1. IInv => TypeOK
  BY DEF IInv
<1> QED BY <1>1, Invariance, PTL

\* Chains of replaced tokens go forward, within one user's tokens, however refreshes and
\* logouts of one token overlap (refresh-token.service.ts:57-73).
THEOREM Chains == Spec => []ChainForward
<1>1. IInv => ChainForward
  BY DEF IInv
<1> QED BY <1>1, Invariance, PTL

\* No token is spent but those a request presented (refresh-token.service.ts:65, 72).
THEOREM Spending == Spec => []OnlyPresentedAreSpent
<1>1. IInv => OnlyPresentedAreSpent
  BY DEF IInv
<1> QED BY <1>1, Invariance, PTL

\* Who presents a used token gets no new one (refresh-token.service.ts:40-45).
THEOREM Replay == Spec => []ReplayRejected
<1>1. IInv => ReplayRejected
  BY DEF IInv, Held, HeldBy, ReplayRejected
<1> QED BY <1>1, Invariance, PTL

\* No step makes a used token usable, hands a token to another user or drops a row.
THEOREM Spent == Spec => SpentStaysSpent
<1>1. IInv /\ [Next]_vars =>
        [\A t \in DOMAIN tokens :
           /\ t \in DOMAIN tokens' /\ tokens'[t].user = tokens[t].user
           /\ tokens[t].used => tokens'[t].used]_vars
  BY NextKeepsInv DEF Extends
<1> QED BY <1>1, Invariance, PTL DEF Spec, SpentStaysSpent
=============================================================================
