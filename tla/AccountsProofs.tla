--------------------------- MODULE AccountsProofs ---------------------------
(* Proofs about Accounts, for any number of accounts, names, roles,         *)
(* subjects and concurrent requests.                                        *)
EXTENDS Accounts, TLAPS

\* What a request holds between its steps: the row it will write back carries
\* a role that its account was given; the name it looks up is one; an account
\* to be provisioned is enabled.
Holds(r, roles) ==
  /\ r.pc \in {"name", "write", "refresh"} => r.id \in Ids /\ <<r.id, r.row.role>> \in roles
  /\ r.pc = "name" => r.ask.name \in Names
  /\ r.pc = "provision" => r.row.active = TRUE

HeldRows == \A s \in Slots : Holds(req[s], granted)

\* Both UPDATE and INSERT keep the table well typed, its roles granted and its
\* subjects unique: the facts about the table that every handler relies on.
TableOK == /\ DOMAIN users \subseteq used /\ used \subseteq Ids
           /\ \A i \in DOMAIN users : users[i] \in RowType
           /\ \A i \in DOMAIN users : <<i, users[i].role>> \in granted
           /\ OneAccountPerSubject

\* Writing a row that keeps id and subject leaves the table in order.
LEMMA UpdateKeepsTable ==
  ASSUME NEW id \in Ids, NEW row \in RowType, TableOK,
         <<id, row.role>> \in granted, granted \subseteq granted', used' = used,
         UpdateRow(id, row)
  PROVE  TableOK' /\ DOMAIN users' = DOMAIN users
  <1>1. CASE users' = users
    BY <1>1 DEF TableOK, OneAccountPerSubject
  <1>2. CASE /\ id \in DOMAIN users
             /\ users' = [users EXCEPT ![id] = [row EXCEPT !.sub = users[id].sub]]
    <2>1. users[id].sub \in Subs \cup {None}
      BY <1>2 DEF TableOK, RowType
    <2>2. /\ DOMAIN users' = DOMAIN users
          /\ users'[id] = [row EXCEPT !.sub = users[id].sub]
          /\ \A i \in DOMAIN users : i # id => users'[i] = users[i]
      BY <1>2
    <2>3. /\ users'[id] \in RowType /\ users'[id].role = row.role
          /\ users'[id].sub = users[id].sub
      BY <2>1, <2>2 DEF RowType
    <2>4. \A i \in DOMAIN users' : users'[i].sub = users[i].sub
      BY <2>2, <2>3
    <2>5. \A i \in DOMAIN users' : <<i, users'[i].role>> \in granted'
      <3> SUFFICES ASSUME NEW i \in DOMAIN users
                   PROVE  <<i, users'[i].role>> \in granted'
        BY <2>2
      <3>1. CASE i = id
        <4>1. users'[i].role = row.role
          BY <3>1, <2>3
        <4> QED BY <4>1, <3>1
      <3>2. CASE i # id
        BY <3>2, <2>2 DEF TableOK
      <3> QED BY <3>1, <3>2
    <2>6. OneAccountPerSubject'
      BY <2>2, <2>4 DEF TableOK, OneAccountPerSubject
    <2>7. \A i \in DOMAIN users' : users'[i] \in RowType
      BY <2>2, <2>3 DEF TableOK
    <2> QED BY <2>2, <2>5, <2>6, <2>7 DEF TableOK
  <1> QED BY <1>1, <1>2 DEF UpdateRow

\* So does an insertion, which UNIQUE guards.
LEMMA InsertKeepsTable ==
  ASSUME NEW id \in Ids, NEW row \in RowType, TableOK,
         FitsBeside(DOMAIN users, row), Insert(id, row)
  PROVE  TableOK' /\ used \subseteq used' /\ granted' = granted \cup {<<id, row.role>>}
  <1>1. /\ id \notin DOMAIN users /\ DOMAIN users' = DOMAIN users \cup {id}
        /\ users'[id] = row
        /\ \A i \in DOMAIN users : users'[i] = users[i]
    BY DEF Insert, TableOK
  <1>2. used' = used \cup {id} /\ granted' = granted \cup {<<id, row.role>>}
    BY DEF Insert
  <1>3. row.sub # None => \A j \in DOMAIN users : users[j].sub # row.sub
    BY DEF FitsBeside
  <1> QED BY <1>1, <1>2, <1>3 DEF TableOK, OneAccountPerSubject

-----------------------------------------------------------------------------
(* The invariant. Its conjuncts beyond the table are about tokens and about *)
(* what the requests hold.                                                  *)

RequestType == [pc : {"idle", "name", "write", "refresh", "provision"},
                by : ClaimsType, id : Ids \cup {None},
                ask : Asks \cup {NoAsk}, read : RowType, row : RowType]

RequestsOK == req \in [Slots -> RequestType] /\ HeldRows

TokensOK == /\ tokens \subseteq [id : Ids, role : Roles]
            /\ \A t \in tokens : <<t.id, t.role>> \in granted

Inv == TableOK /\ RequestsOK /\ TokensOK /\ granted \subseteq Ids \X Roles

\* What the inductive invariant is for.
LEMMA InvGives == Inv => TypeOK /\ RolesWereGranted /\ OneAccountPerSubject
  BY DEF Inv, TableOK, RequestsOK, TokensOK, RequestType, TypeOK, RolesWereGranted

\* One request changes; if it holds a row to write, its role was granted.
LEMMA RequestStep ==
  ASSUME NEW s \in Slots, NEW r \in RequestType, RequestsOK,
         granted \subseteq granted', req' = [req EXCEPT ![s] = r], Holds(r, granted')
  PROVE  RequestsOK'
  BY DEF RequestsOK, HeldRows, Holds

\* A slot without a request holds no row.
LEMMA IdleType == Idle \in RequestType /\ \A roles : Holds(Idle, roles)
  BY AccountsAssumption DEF Holds, Idle, RequestType, RowType, ClaimsType, Claims, NoRow, Row, NoAsk

\* The seeded table is in order.
LEMMA InitInv == Init => Inv
  <1> SUFFICES ASSUME Init PROVE Inv
    OBVIOUS
  <1>1. PICK id \in Ids : /\ users = [i \in {id} |-> Row(AdminName, Admin, None)]
                          /\ used = {id} /\ granted = {<<id, Admin>>}
    BY DEF Init
  <1>2. TableOK /\ granted \subseteq Ids \X Roles
    BY <1>1, AccountsAssumption DEF TableOK, OneAccountPerSubject, Row, RowType
  <1>3. RequestsOK
    BY IdleType DEF Init, RequestsOK, HeldRows
  <1>4. TokensOK
    BY DEF Init, TokensOK
  <1> QED BY <1>2, <1>3, <1>4 DEF Inv

\* A login copies the stored role into a token.
LEMMA LoginKeeps == ASSUME Inv, NEW i \in Ids, Login(i) PROVE Inv'
  <1> USE DEF Inv, Login
  <1>1. TableOK' /\ granted' \subseteq Ids \X Roles
    BY DEF TableOK, OneAccountPerSubject
  <1>2. RequestsOK'
    BY DEF RequestsOK, HeldRows, Holds
  <1>3. TokensOK'
    BY DEF TokensOK, TableOK, Claims, RowType
  <1> QED BY <1>1, <1>2, <1>3

\* A created account gets the role the administrator asked for.
LEMMA CreateKeeps ==
  ASSUME Inv, NEW t \in tokens, NEW id \in Ids, NEW row \in RowType,
         CreateUser(t, id, row)
  PROVE  Inv'
  <1> USE DEF Inv, CreateUser
  <1>1. TableOK' /\ granted' = granted \cup {<<id, row.role>>}
    BY InsertKeepsTable
  <1>2. granted' \subseteq Ids \X Roles
    BY <1>1 DEF RowType
  <1>3. RequestsOK' /\ TokensOK'
    BY <1>1 DEF RequestsOK, HeldRows, Holds, TokensOK
  <1> QED BY <1>1, <1>2, <1>3

\* A deletion only makes the table smaller.
LEMMA DeleteKeeps ==
  ASSUME Inv, NEW t \in tokens, NEW i \in Ids, DeleteUser(t, i) PROVE Inv'
  <1> USE DEF Inv, DeleteUser
  <1>1. DOMAIN users' = DOMAIN users \ {i} /\ \A j \in DOMAIN users' : users'[j] = users[j]
    OBVIOUS
  <1>2. TableOK'
    BY <1>1 DEF TableOK, OneAccountPerSubject
  <1>3. RequestsOK' /\ TokensOK'
    BY DEF RequestsOK, HeldRows, Holds, TokensOK
  <1> QED BY <1>2, <1>3

\* The table and the tokens are as before, and roles are only added.
LEMMA GrantMore ==
  ASSUME TableOK, TokensOK, UNCHANGED <<users, used, tokens>>, granted \subseteq granted'
  PROVE  TableOK' /\ TokensOK'
  BY DEF TableOK, OneAccountPerSubject, TokensOK

\* What a request keeps between its steps is a row whose role was granted.
LEMMA UpdReadKeeps ==
  ASSUME Inv, NEW s \in Slots, NEW t \in tokens, NEW i \in Ids, NEW ask \in Asks,
         UpdRead(s, t, i, ask)
  PROVE  Inv'
  <1> USE DEF Inv
  <1> DEFINE held == [pc  |-> IF Renames(t, i, ask) THEN "name" ELSE "write",
                      by  |-> t, id |-> i, ask |-> ask,
                      read |-> users[i], row |-> Edited(t, users[i], ask)]
  <1>1. /\ i \in DOMAIN users /\ UNCHANGED <<users, used, tokens>>
        /\ granted' = IF t.role = Admin /\ ask.role # None
                      THEN granted \cup {<<i, ask.role>>} ELSE granted
        /\ req' = [req EXCEPT ![s] = held]
    BY DEF UpdRead
  <1>2. /\ users[i] \in RowType /\ <<i, users[i].role>> \in granted
        /\ ask.name \in Names \cup {None}
        /\ ask.role \in Roles \cup {None} /\ ask.active \in BOOLEAN \cup {None}
        /\ t \in [id : Ids, role : Roles]
    BY <1>1, AccountsAssumption DEF TableOK, TokensOK
  <1>3. /\ granted \subseteq granted' /\ granted' \subseteq Ids \X Roles
    BY <1>1, <1>2
  <1>4. Edited(t, users[i], ask) \in RowType
    BY <1>2 DEF Edited, Either, RowType
  <1>5. <<i, Edited(t, users[i], ask).role>> \in granted'
    <2>1. CASE t.role = Admin /\ ask.role # None
      BY <2>1, <1>1, <1>2 DEF Edited, Either, RowType
    <2>2. CASE ~(t.role = Admin /\ ask.role # None)
      BY <2>2, <1>1, <1>2 DEF Edited, Either, RowType
    <2> QED BY <2>1, <2>2
  <1>6. held \in RequestType
    BY <1>2, <1>4 DEF RequestType, ClaimsType
  <1>7. RequestsOK'
    <2>1. Holds(held, granted')
      BY <1>2, <1>5, AccountsAssumption DEF Holds, Renames
    <2> HIDE DEF held
    <2> QED BY <2>1, <1>1, <1>3, <1>6, RequestStep
  <1>8. TableOK' /\ TokensOK'
    BY <1>1, <1>3, GrantMore
  <1> QED BY <1>3, <1>7, <1>8

\* The check of the name changes nothing but the request.
LEMMA UpdNameKeeps == ASSUME Inv, NEW s \in Slots, UpdName(s) PROVE Inv'
  <1> USE DEF Inv
  <1>1. /\ UNCHANGED <<users, used, tokens, granted>> /\ req[s].pc = "name"
        /\ req[s] \in RequestType
        /\ Holds(req[s], granted)
    BY DEF UpdName, RequestsOK, HeldRows
  <1>2. TableOK' /\ TokensOK'
    BY <1>1, GrantMore
  <1>3. CASE Done(s)
    BY <1>1, <1>2, <1>3, IdleType, RequestStep DEF Done
  <1>4. CASE req' = [req EXCEPT ![s].pc = "write", ![s].row.name = req[s].ask.name]
    <2> DEFINE named == [req[s] EXCEPT !.pc = "write", !.row.name = req[s].ask.name]
    <2>1. named \in RequestType /\ Holds(named, granted)
      BY <1>1 DEF RequestType, RowType, Holds
    <2>2. req' = [req EXCEPT ![s] = named]
      BY <1>1, <1>4 DEF RequestsOK
    <2> HIDE DEF named
    <2>3. RequestsOK'
      BY <2>1, <2>2, <1>1, RequestStep
    <2> QED BY <2>3, <1>1, <1>2
  <1> QED BY <1>3, <1>4 DEF UpdName

\* The row written back has a granted role, however old it is.
LEMMA UpdWriteKeeps == ASSUME Inv, NEW s \in Slots, UpdWrite(s) PROVE Inv'
  <1> USE DEF Inv
  <1>1. /\ UNCHANGED <<used, tokens, granted>> /\ UpdateRow(req[s].id, req[s].row)
        /\ req[s].id \in Ids /\ req[s].row \in RowType
        /\ <<req[s].id, req[s].row.role>> \in granted
    BY DEF UpdWrite, RequestsOK, RequestType, HeldRows, Holds
  <1>2. TableOK'
    BY <1>1, UpdateKeepsTable
  <1>3. RequestsOK'
    BY <1>1, IdleType, RequestStep DEF UpdWrite, Done
  <1> QED BY <1>1, <1>2, <1>3 DEF TokensOK

\* The provider's role counts as granted when the login reads the account.
LEMMA OidcReadKeeps ==
  ASSUME Inv, NEW s \in Slots, NEW sub \in Subs, NEW name \in Names,
         NEW role \in Roles \cup {None}, OidcRead(s, sub, name, role)
  PROVE  Inv'
  <1> USE DEF Inv
  <1>1. UNCHANGED <<users, used, tokens>>
    BY DEF OidcRead
  <1>2. ASSUME NEW i \in DOMAIN users,
               req' = [req EXCEPT ![s] =
                         [Idle EXCEPT !.pc = "refresh", !.id = i, !.read = users[i],
                                      !.row = [users[i] EXCEPT !.role = Either(role, @)]]],
               granted' = granted \cup {<<i, Either(role, users[i].role)>>}
        PROVE  Inv'
    <2> DEFINE held == [Idle EXCEPT !.pc = "refresh", !.id = i, !.read = users[i],
                                    !.row = [users[i] EXCEPT !.role = Either(role, @)]]
    <2>1. i \in Ids /\ users[i] \in RowType
      BY DEF TableOK
    <2>2. Either(role, users[i].role) \in Roles
      BY <2>1 DEF Either, RowType
    <2>3. held \in RequestType /\ Holds(held, granted')
      BY <1>2, <2>1, <2>2, IdleType DEF RequestType, RowType, Holds
    <2> HIDE DEF held
    <2>4. RequestsOK'
      BY <1>2, <2>3, RequestStep DEF held
    <2> QED BY <1>1, <1>2, <2>1, <2>2, <2>4, GrantMore
  <1>3. ASSUME req' = [req EXCEPT ![s] =
                         [Idle EXCEPT !.pc = "provision",
                                      !.row = Row(name, Either(role, DefaultRole), sub)]],
               granted' = granted
        PROVE  Inv'
    <2> DEFINE held == [Idle EXCEPT !.pc = "provision",
                                    !.row = Row(name, Either(role, DefaultRole), sub)]
    <2>1. Either(role, DefaultRole) \in Roles
      BY AccountsAssumption DEF Either
    <2>2. Row(name, Either(role, DefaultRole), sub) \in RowType
      BY <2>1 DEF RowType, Row
    <2>3. held \in RequestType
      BY <2>2, IdleType DEF RequestType
    <2>4. held.pc = "provision" /\ held.row.active = TRUE
      BY DEF Idle, Row
    <2> HIDE DEF held
    <2>5. held \in RequestType /\ Holds(held, granted')
      BY <2>3, <2>4 DEF Holds
    <2>6. RequestsOK'
      BY <1>3, <2>5, RequestStep DEF held
    <2> QED BY <1>1, <1>3, <2>6, GrantMore
  <1> QED BY <1>2, <1>3 DEF OidcRead

\* The refreshed row and the token carry that role.
LEMMA OidcRefreshKeeps == ASSUME Inv, NEW s \in Slots, OidcRefresh(s) PROVE Inv'
  <1> USE DEF Inv
  <1>1. /\ UNCHANGED <<used, granted>> /\ UpdateRow(req[s].id, req[s].row)
        /\ req[s].id \in Ids /\ req[s].row \in RowType
        /\ <<req[s].id, req[s].row.role>> \in granted
    BY DEF OidcRefresh, RequestsOK, RequestType, HeldRows, Holds
  <1>2. TableOK'
    BY <1>1, UpdateKeepsTable
  <1>3. RequestsOK'
    BY <1>1, IdleType, RequestStep DEF OidcRefresh, Done
  <1>4. TokensOK'
    BY <1>1 DEF OidcRefresh, TokensOK, Claims, RowType
  <1> QED BY <1>1, <1>2, <1>3, <1>4

\* A first login inserts one account or fails.
LEMMA OidcProvisionKeeps ==
  ASSUME Inv, NEW s \in Slots, NEW id \in Ids, OidcProvision(s, id) PROVE Inv'
  <1> USE DEF Inv
  <1>1. req[s].row \in RowType /\ Done(s)
    BY DEF OidcProvision, RequestsOK, RequestType
  <1>2. CASE /\ FitsBeside(DOMAIN users, req[s].row) /\ Insert(id, req[s].row)
             /\ tokens' = tokens \cup {Claims(id, req[s].row.role)}
    <2>1. TableOK' /\ granted' = granted \cup {<<id, req[s].row.role>>}
      BY <1>1, <1>2, InsertKeepsTable
    <2>2. RequestsOK'
      BY <1>1, <2>1, IdleType, RequestStep DEF Done
    <2>3. TokensOK' /\ granted' \subseteq Ids \X Roles
      BY <1>1, <1>2, <2>1 DEF TokensOK, Claims, RowType
    <2> QED BY <2>1, <2>2, <2>3
  <1>3. CASE UNCHANGED <<users, used, tokens, granted>>
    BY <1>1, <1>3, GrantMore, IdleType, RequestStep DEF Done
  <1> QED BY <1>2, <1>3 DEF OidcProvision

\* A restart loses the requests and may seed the first account.
LEMMA RestartKeeps == ASSUME Inv, NEW id \in Ids, Restart(id) PROVE Inv'
  <1> USE DEF Inv
  <1>1. /\ UNCHANGED tokens /\ granted \subseteq granted' /\ TableOK'
        /\ granted' \subseteq Ids \X Roles
    <2>1. CASE DOMAIN users = {} /\ Insert(id, Row(AdminName, Admin, None))
      <3>1. Row(AdminName, Admin, None) \in RowType
        BY AccountsAssumption DEF Row, RowType
      <3>2. FitsBeside(DOMAIN users, Row(AdminName, Admin, None))
        BY <2>1 DEF FitsBeside
      <3>3. TableOK' /\ granted' = granted \cup {<<id, Row(AdminName, Admin, None).role>>}
        BY <2>1, <3>1, <3>2, InsertKeepsTable
      <3> QED BY <3>1, <3>3 DEF Restart, RowType
    <2>2. CASE UNCHANGED <<users, used, granted>>
      BY <2>2, GrantMore DEF Restart
    <2> QED BY <2>1, <2>2 DEF Restart
  <1>2. RequestsOK'
    BY IdleType DEF Restart, RequestsOK, HeldRows
  <1>3. TokensOK'
    BY <1>1 DEF TokensOK
  <1> QED BY <1>1, <1>2, <1>3

-----------------------------------------------------------------------------

\* Every step keeps the invariant.
LEMMA NextInv == Inv /\ [Next]_vars => Inv'
  <1> SUFFICES ASSUME Inv, [Next]_vars PROVE Inv'
    OBVIOUS
  <1>1. ASSUME NEW i \in Ids, Login(i) \/ Restart(i) PROVE Inv'
    BY <1>1, LoginKeeps, RestartKeeps
  <1>2. ASSUME NEW t \in tokens, NEW i \in Ids, DeleteUser(t, i) PROVE Inv'
    BY <1>2, DeleteKeeps
  <1>3. ASSUME NEW t \in tokens, NEW i \in Ids, NEW n \in Names, NEW r \in Roles,
               CreateUser(t, i, Row(n, r, None))
        PROVE  Inv'
    <2>1. Row(n, r, None) \in RowType
      BY DEF Row, RowType
    <2> QED BY <1>3, <2>1, CreateKeeps
  <1>4. ASSUME NEW t \in tokens, NEW i \in Ids, NEW s \in Slots, NEW ask \in Asks,
               UpdRead(s, t, i, ask)
        PROVE  Inv'
    BY <1>4, UpdReadKeeps
  <1>5. ASSUME NEW s \in Slots, UpdName(s) \/ UpdWrite(s) \/ OidcRefresh(s) PROVE Inv'
    BY <1>5, UpdNameKeeps, UpdWriteKeeps, OidcRefreshKeeps
  <1>6. ASSUME NEW s \in Slots, NEW sub \in Subs, NEW n \in Names, NEW r \in Roles \cup {None},
               OidcRead(s, sub, n, r)
        PROVE  Inv'
    BY <1>6, OidcReadKeeps
  <1>7. ASSUME NEW s \in Slots, NEW id \in Ids, OidcProvision(s, id) PROVE Inv'
    BY <1>7, OidcProvisionKeeps
  <1>8. CASE UNCHANGED vars
    BY <1>8 DEF vars, Inv, TableOK, OneAccountPerSubject, RequestsOK, HeldRows, Holds, TokensOK
  <1> QED BY <1>1, <1>2, <1>3, <1>4, <1>5, <1>6, <1>7, <1>8 DEF Next

\* The inductive invariant: table, requests in hand and tokens agree with the
\* roles that were granted, at every point of every interleaving.
THEOREM Invariance == Spec => []Inv
  BY InitInv, NextInv, PTL DEF Spec

\* The table, the tokens and the requests keep their types.
THEOREM TypeCorrect == Spec => []TypeOK
  BY Invariance, InvGives, PTL

\* However handlers interleave, an account never gets a role that it was not
\* given by an administrator, by the provider or at its creation.
THEOREM RolesGranted == Spec => []RolesWereGranted
  BY Invariance, InvGives, PTL

\* However many first logins of one subject race, it ends up with one account.
THEOREM OneAccount == Spec => []OneAccountPerSubject
  BY Invariance, InvGives, PTL

\* No handler brings a deleted account back, whenever it read the row.
THEOREM DeletedForGood == Spec => DeletedStaysDeleted
  <1>1. TypeOK /\ [Next]_vars => [\A i \in used \ DOMAIN users : i \notin DOMAIN users']_vars
    <2> SUFFICES ASSUME TypeOK, Next, NEW i \in used \ DOMAIN users PROVE i \notin DOMAIN users'
      BY DEF vars
    <2>1. ASSUME NEW id, NEW row, UpdateRow(id, row) \/ Insert(id, row)
          PROVE  i \notin DOMAIN users'
      BY <2>1 DEF UpdateRow, Insert
    <2>2. ASSUME NEW j \in Ids, Login(j) \/ Restart(j) PROVE i \notin DOMAIN users'
      BY <2>1, <2>2 DEF Login, Restart
    <2>3. ASSUME NEW t \in tokens, NEW j \in Ids, DeleteUser(t, j) PROVE i \notin DOMAIN users'
      BY <2>3 DEF DeleteUser
    <2>4. ASSUME NEW t \in tokens, NEW j \in Ids, NEW row, CreateUser(t, j, row)
          PROVE  i \notin DOMAIN users'
      BY <2>1, <2>4 DEF CreateUser
    <2>5. ASSUME NEW t \in tokens, NEW j \in Ids, NEW s \in Slots, NEW ask \in Asks,
                 UpdRead(s, t, j, ask)
          PROVE  i \notin DOMAIN users'
      BY <2>5 DEF UpdRead
    <2>6. ASSUME NEW s \in Slots, UpdName(s) \/ UpdWrite(s) \/ OidcRefresh(s)
          PROVE  i \notin DOMAIN users'
      BY <2>1, <2>6 DEF UpdName, UpdWrite, OidcRefresh
    <2>7. ASSUME NEW s \in Slots, NEW sub, NEW n, NEW r, OidcRead(s, sub, n, r)
          PROVE  i \notin DOMAIN users'
      BY <2>7 DEF OidcRead
    <2>8. ASSUME NEW s \in Slots, NEW id \in Ids, OidcProvision(s, id)
          PROVE  i \notin DOMAIN users'
      BY <2>1, <2>8 DEF OidcProvision
    <2> QED BY <2>2, <2>3, <2>4, <2>5, <2>6, <2>7, <2>8 DEF Next
  <1> QED BY <1>1, TypeCorrect, PTL DEF Spec, DeletedStaysDeleted

-----------------------------------------------------------------------------
(* Disabled accounts and usernames. What a request writes back differs from *)
(* what it read only where an administrator asked for it.                   *)

Holding == {"name", "write", "refresh"}

\* The name in hand is the one read, or one that another's administrator gave.
NameAccounted(r) ==
  \/ r.row.name = r.read.name
  \/ r.ask.name = r.row.name /\ r.by.role = Admin /\ r.by.id # r.id

\* The row in hand is enabled only if it was, or if an administrator asked.
ActiveAccounted(r) ==
  r.row.active => r.read.active \/ (r.by.role = Admin /\ r.ask.active = TRUE)

Accounted(r) ==
  /\ r.pc \in Holding => NameAccounted(r) /\ ActiveAccounted(r)
  /\ r.pc = "name" => r.by.role = Admin /\ r.by.id # r.id

AllAccounted == \A s \in Slots : Accounted(req[s])

\* One request changes, and accounts for what it holds.
LEMMA AccountedStep ==
  ASSUME NEW s \in Slots, NEW r, AllAccounted, TypeOK,
         req' = [req EXCEPT ![s] = r], Accounted(r)
  PROVE  AllAccounted'
  BY DEF AllAccounted, TypeOK

\* A slot without a request holds nothing to account for.
LEMMA IdleAccounted == Accounted(Idle)
  BY DEF Accounted, Holding, Idle

\* A profile update: only an administrator's fields differ from what was read.
LEMMA UpdReadAccounted ==
  ASSUME TypeOK, AllAccounted, NEW s \in Slots, NEW t \in tokens, NEW i \in Ids,
         NEW ask \in Asks, UpdRead(s, t, i, ask)
  PROVE  AllAccounted'
  <1> DEFINE held == [pc  |-> IF Renames(t, i, ask) THEN "name" ELSE "write",
                      by  |-> t, id |-> i, ask |-> ask,
                      read |-> users[i], row |-> Edited(t, users[i], ask)]
  <1>1. i \in DOMAIN users /\ req' = [req EXCEPT ![s] = held]
    BY DEF UpdRead
  <1>2. users[i] \in RowType /\ ask.active \in BOOLEAN \cup {None}
    BY <1>1, AccountsAssumption DEF TypeOK
  <1>3. Edited(t, users[i], ask).name = users[i].name
    BY <1>2 DEF Edited, RowType
  <1>4. t.role # Admin => Edited(t, users[i], ask) = users[i]
    BY DEF Edited
  <1>5. t.role = Admin => Edited(t, users[i], ask).active = Either(ask.active, users[i].active)
    BY <1>2 DEF Edited, RowType
  <1>6. NameAccounted(held)
    BY <1>3 DEF NameAccounted
  <1>7. ActiveAccounted(held)
    <2>1. CASE t.role # Admin
      BY <2>1, <1>4 DEF ActiveAccounted
    <2>2. CASE t.role = Admin /\ ask.active = None
      BY <2>2, <1>5 DEF ActiveAccounted, Either
    <2>3. CASE t.role = Admin /\ ask.active # None
      <3>1. held.row.active = ask.active
        BY <2>3, <1>5 DEF Either
      <3>2. ask.active \in BOOLEAN
        BY <2>3, <1>2
      <3> QED BY <2>3, <3>1, <3>2 DEF ActiveAccounted
    <2> QED BY <2>1, <2>2, <2>3
  <1>8. Accounted(held)
    BY <1>6, <1>7 DEF Accounted, Renames
  <1> HIDE DEF held
  <1> QED BY <1>1, <1>8, AccountedStep

\* The new name is taken over from what the administrator asked for.
LEMMA UpdNameAccounted ==
  ASSUME TypeOK, AllAccounted, NEW s \in Slots, UpdName(s) PROVE AllAccounted'
  <1>1. CASE Done(s)
    BY <1>1, IdleAccounted, AccountedStep DEF Done
  <1>2. CASE req' = [req EXCEPT ![s].pc = "write", ![s].row.name = req[s].ask.name]
    <2> DEFINE named == [req[s] EXCEPT !.pc = "write", !.row.name = req[s].ask.name]
    <2>1. /\ req[s].pc = "name" /\ Accounted(req[s])
          /\ req[s] \in RequestType
      BY DEF UpdName, AllAccounted, TypeOK, RequestType
    <2>2. /\ named.row.name = req[s].ask.name /\ named.row.active = req[s].row.active
          /\ named.read = req[s].read /\ named.by = req[s].by
          /\ named.id = req[s].id /\ named.ask = req[s].ask /\ named.pc = "write"
      BY <2>1 DEF RequestType, RowType
    <2>3. req' = [req EXCEPT ![s] = named]
      BY <1>2 DEF TypeOK
    <2> HIDE DEF named
    <2>4. Accounted(named)
      BY <2>1, <2>2 DEF Accounted, Holding, NameAccounted, ActiveAccounted
    <2> QED BY <2>3, <2>4, AccountedStep
  <1> QED BY <1>1, <1>2 DEF UpdName

\* An OIDC login changes the role only.
LEMMA OidcReadAccounted ==
  ASSUME TypeOK, AllAccounted, NEW s \in Slots, NEW sub, NEW name, NEW role,
         OidcRead(s, sub, name, role)
  PROVE  AllAccounted'
  <1>1. ASSUME NEW i \in DOMAIN users,
               req' = [req EXCEPT ![s] =
                         [Idle EXCEPT !.pc = "refresh", !.id = i, !.read = users[i],
                                      !.row = [users[i] EXCEPT !.role = Either(role, @)]]]
        PROVE  AllAccounted'
    <2> DEFINE held == [Idle EXCEPT !.pc = "refresh", !.id = i, !.read = users[i],
                                    !.row = [users[i] EXCEPT !.role = Either(role, @)]]
    <2>1. users[i] \in RowType
      BY DEF TypeOK
    <2>2. /\ held.pc = "refresh" /\ held.read = users[i]
          /\ held.row.name = users[i].name /\ held.row.active = users[i].active
      BY <2>1 DEF Idle, RowType
    <2> HIDE DEF held
    <2>3. Accounted(held)
      BY <2>2 DEF Accounted, NameAccounted, ActiveAccounted
    <2> QED BY <1>1, <2>3, AccountedStep DEF held
  <1>2. ASSUME req' = [req EXCEPT ![s] =
                         [Idle EXCEPT !.pc = "provision",
                                      !.row = Row(name, Either(role, DefaultRole), sub)]]
        PROVE  AllAccounted'
    <2> DEFINE held == [Idle EXCEPT !.pc = "provision",
                                    !.row = Row(name, Either(role, DefaultRole), sub)]
    <2>1. Accounted(held)
      BY DEF Idle, Accounted, Holding
    <2> HIDE DEF held
    <2> QED BY <1>2, <2>1, AccountedStep DEF held
  <1> QED BY <1>1, <1>2 DEF OidcRead

\* Every request accounts for what it holds, at every point of every
\* interleaving.
LEMMA AllAccountedInvariant == Spec => []AllAccounted
  <1>1. Init => AllAccounted
    BY IdleAccounted DEF Init, AllAccounted
  <1>2. TypeOK /\ AllAccounted /\ [Next]_vars => AllAccounted'
    <2> SUFFICES ASSUME TypeOK, AllAccounted, [Next]_vars PROVE AllAccounted'
      OBVIOUS
    <2>1. ASSUME NEW i \in Ids, Login(i) \/ Restart(i) PROVE AllAccounted'
      BY <2>1, IdleAccounted DEF Login, Restart, AllAccounted
    <2>2. ASSUME NEW t \in tokens, NEW i \in Ids, NEW row,
                 DeleteUser(t, i) \/ CreateUser(t, i, row)
          PROVE  AllAccounted'
      BY <2>2 DEF DeleteUser, CreateUser, AllAccounted
    <2>3. ASSUME NEW t \in tokens, NEW i \in Ids, NEW s \in Slots, NEW ask \in Asks,
                 UpdRead(s, t, i, ask)
          PROVE  AllAccounted'
      BY <2>3, UpdReadAccounted
    <2>4. ASSUME NEW s \in Slots, NEW id, UpdWrite(s) \/ OidcRefresh(s) \/ OidcProvision(s, id)
          PROVE  AllAccounted'
      BY <2>4, IdleAccounted, AccountedStep DEF UpdWrite, OidcRefresh, OidcProvision, Done
    <2>5. ASSUME NEW s \in Slots, UpdName(s) PROVE AllAccounted'
      BY <2>5, UpdNameAccounted
    <2>6. ASSUME NEW s \in Slots, NEW sub, NEW n, NEW r, OidcRead(s, sub, n, r)
          PROVE  AllAccounted'
      BY <2>6, OidcReadAccounted
    <2>7. CASE UNCHANGED vars
      BY <2>7 DEF vars, AllAccounted
    <2> QED BY <2>1, <2>2, <2>3, <2>4, <2>5, <2>6, <2>7 DEF Next
  <1> QED BY <1>1, <1>2, TypeCorrect, PTL DEF Spec

\* The row of an account that stays changes only when a request writes it back.
LEMMA RowsChange ==
  ASSUME TypeOK, Next, NEW i \in DOMAIN users, i \in DOMAIN users', users'[i] # users[i]
  PROVE  \E s \in Slots : /\ Writing(s) /\ req[s].id = i
                          /\ users'[i] = [req[s].row EXCEPT !.sub = users[i].sub]
  <1>1. ASSUME NEW id, NEW row, Insert(id, row) PROVE FALSE
    BY <1>1 DEF Insert, TypeOK
  <1>2. ASSUME NEW j \in Ids, Login(j) \/ Restart(j) PROVE FALSE
    BY <1>1, <1>2 DEF Login, Restart
  <1>3. ASSUME NEW t \in tokens, NEW j \in Ids, NEW row,
               DeleteUser(t, j) \/ CreateUser(t, j, row)
        PROVE  FALSE
    BY <1>1, <1>3 DEF DeleteUser, CreateUser
  <1>4. ASSUME NEW t, NEW j, NEW s \in Slots, NEW ask, UpdRead(s, t, j, ask) PROVE FALSE
    BY <1>4 DEF UpdRead
  <1>5. ASSUME NEW s \in Slots, NEW sub, NEW n, NEW r, NEW id,
               UpdName(s) \/ OidcRead(s, sub, n, r) \/ OidcProvision(s, id)
        PROVE  FALSE
    BY <1>1, <1>5 DEF UpdName, OidcRead, OidcProvision
  <1>6. ASSUME NEW s \in Slots, UpdWrite(s) \/ OidcRefresh(s)
        PROVE  /\ Writing(s) /\ req[s].id = i
               /\ users'[i] = [req[s].row EXCEPT !.sub = users[i].sub]
    <2>1. /\ req[s].pc \in {"write", "refresh"} /\ Done(s)
          /\ UpdateRow(req[s].id, req[s].row)
      BY <1>6 DEF UpdWrite, OidcRefresh
    <2>2. Writing(s)
      BY <2>1 DEF Writing, Done, TypeOK
    <2>3. /\ req[s].id \in DOMAIN users
          /\ users' = [users EXCEPT ![req[s].id] =
                         [req[s].row EXCEPT !.sub = users[req[s].id].sub]]
      BY <2>1 DEF UpdateRow
    <2> QED BY <2>2, <2>3
  <1> QED BY <1>2, <1>3, <1>4, <1>5, <1>6 DEF Next

\* However handlers overlap, a disabled account is enabled only by a request that
\* asks for it with an administrator's claims, or that read the row while enabled.
THEOREM EnabledByAdmins == Spec => OnlyAdminsEnable
  <1>1. TypeOK /\ AllAccounted /\ [Next]_vars =>
          [\A i \in DOMAIN users \cap DOMAIN users' :
             ~users[i].active /\ users'[i].active =>
               \E s \in Slots :
                 /\ Writing(s) /\ req[s].id = i
                 /\ \/ req[s].by.role = Admin /\ req[s].ask.active = TRUE
                    \/ req[s].read.active]_vars
    <2> SUFFICES ASSUME TypeOK, AllAccounted, Next, NEW i \in DOMAIN users, i \in DOMAIN users',
                        ~users[i].active, users'[i].active
                 PROVE  \E s \in Slots :
                          /\ Writing(s) /\ req[s].id = i
                          /\ \/ req[s].by.role = Admin /\ req[s].ask.active = TRUE
                             \/ req[s].read.active
      BY DEF vars
    <2>0. users'[i] # users[i]
      BY Zenon
    <2>1. PICK s \in Slots : /\ Writing(s) /\ req[s].id = i
                             /\ users'[i] = [req[s].row EXCEPT !.sub = users[i].sub]
      BY <2>0, RowsChange
    <2>2. users'[i].active = req[s].row.active
      <3>1. "active" \in DOMAIN req[s].row
        BY DEF TypeOK, RowType
      <3>2. [req[s].row EXCEPT !.sub = users[i].sub].active = req[s].row.active
        BY <3>1
      <3> QED BY <2>1, <3>2
    <2>3. ActiveAccounted(req[s])
      BY <2>1 DEF AllAccounted, Accounted, Holding, Writing
    <2> QED BY <2>1, <2>2, <2>3 DEF ActiveAccounted
  <1> QED BY <1>1, TypeCorrect, AllAccountedInvariant, PTL DEF Spec, OnlyAdminsEnable

\* However handlers overlap, an account gets only a name that an administrator
\* other than its owner asked for, or the one that the request read.
THEOREM RenamedByOthers == Spec => OnlyOthersRename
  <1>1. TypeOK /\ AllAccounted /\ [Next]_vars =>
          [\A i \in DOMAIN users \cap DOMAIN users' :
             users'[i].name # users[i].name =>
               \E s \in Slots :
                 /\ Writing(s) /\ req[s].id = i
                 /\ \/ /\ req[s].ask.name = users'[i].name
                       /\ req[s].by.role = Admin /\ req[s].by.id # i
                    \/ req[s].read.name = users'[i].name]_vars
    <2> SUFFICES ASSUME TypeOK, AllAccounted, Next, NEW i \in DOMAIN users, i \in DOMAIN users',
                        users'[i].name # users[i].name
                 PROVE  \E s \in Slots :
                          /\ Writing(s) /\ req[s].id = i
                          /\ \/ /\ req[s].ask.name = users'[i].name
                                /\ req[s].by.role = Admin /\ req[s].by.id # i
                             \/ req[s].read.name = users'[i].name
      BY DEF vars
    <2>1. PICK s \in Slots : /\ Writing(s) /\ req[s].id = i
                             /\ users'[i] = [req[s].row EXCEPT !.sub = users[i].sub]
      BY RowsChange
    <2>2. users'[i].name = req[s].row.name
      BY <2>1 DEF TypeOK, RowType
    <2>3. NameAccounted(req[s])
      BY <2>1 DEF AllAccounted, Accounted, Holding, Writing
    <2> QED BY <2>1, <2>2, <2>3 DEF NameAccounted
  <1> QED BY <1>1, TypeCorrect, AllAccountedInvariant, PTL DEF Spec, OnlyOthersRename

-----------------------------------------------------------------------------
(* Accounts implements Roster: every step of a handler is a step of the     *)
(* roster or leaves it alone.                                               *)

\* What the roster sees of a row.
Seen(row) == [role |-> row.role, active |-> row.active]

\* An insertion enrolls its id, with a token or without one.
LEMMA InsertEnrolls ==
  ASSUME NEW id \in Ids, NEW row \in RowType, row.active = TRUE, TableOK, Insert(id, row),
         tokens' \in {tokens, tokens \cup {Claims(id, row.role)}}
  PROVE  R!RosterNext
  <1>1. /\ id \notin used /\ id \notin DOMAIN users
        /\ DOMAIN users' = DOMAIN users \cup {id}
        /\ \A i \in DOMAIN users' : users'[i] = IF i = id THEN row ELSE users[i]
        /\ used' = used \cup {id} /\ granted' = granted \cup {<<id, row.role>>}
    BY DEF Insert, TableOK
  <1>2. row.role \in Roles /\ row.active = TRUE
    BY DEF RowType
  <1>3. R!Enroll(id, row.role)
    BY <1>1, <1>2 DEF R!Enroll, R!ClaimsOf, Claims
  <1> QED BY <1>2, <1>3 DEF R!RosterNext

\* Writing a row back is a Write of the roster, or it changes no row.
LEMMA UpdatePuts ==
  ASSUME NEW id \in Ids, NEW row \in RowType, TableOK, UpdateRow(id, row),
         <<id, row.role>> \in granted, UNCHANGED <<used, granted>>,
         tokens' \in {tokens, tokens \cup {Claims(id, row.role)}}
  PROVE  R!RosterNext \/ UNCHANGED R!rosterVars
  <1>1. CASE users' = users /\ tokens' = tokens
    BY <1>1 DEF R!rosterVars
  <1>2. CASE users' = users /\ tokens' = tokens \cup {Claims(id, row.role)}
    <2>1. R!Issue(id, row.role)
      BY <1>2 DEF R!Issue, R!ClaimsOf, Claims
    <2> QED BY <2>1 DEF R!RosterNext, RowType
  <1>3. CASE /\ id \in DOMAIN users
             /\ users' = [users EXCEPT ![id] = [row EXCEPT !.sub = users[id].sub]]
    <2>1. Seen(row) \in R!Account /\ Seen(row).role = row.role
      BY DEF Seen, R!Account, RowType
    <2>2. /\ DOMAIN users' = DOMAIN users
          /\ Seen(users'[id]) = Seen(row)
          /\ \A i \in DOMAIN users : i # id => users'[i] = users[i]
      BY <1>3 DEF Seen, RowType
    <2>3. R!Put(id, Seen(row))
      BY <1>3, <2>1, <2>2 DEF R!Put, Seen
    <2>4. R!Write(id, Seen(row))
      BY <2>1, <2>3 DEF R!Write, R!ClaimsOf, Claims
    <2> QED BY <2>1, <2>4 DEF R!RosterNext
  <1> QED BY <1>1, <1>2, <1>3 DEF UpdateRow

\* A role that a handler will write is given when the handler reads the row.
LEMMA Gives ==
  ASSUME NEW i \in Ids, NEW role \in Roles, i \in DOMAIN users,
         granted' = granted \cup {<<i, role>>}, UNCHANGED <<users, used, tokens>>
  PROVE  R!RosterNext
  <1>1. R!Give(i, role)
    BY DEF R!Give
  <1> QED BY <1>1 DEF R!RosterNext

\* Every step of Accounts, seen from the roster.
LEMMA StepRefines == ASSUME Inv, Next PROVE R!RosterNext \/ UNCHANGED R!rosterVars
  <1> USE DEF Inv
  <1>1. ASSUME NEW i \in Ids, Login(i) PROVE R!RosterNext
    <2>1. R!Issue(i, users[i].role) /\ users[i].role \in Roles
      BY <1>1 DEF Login, TableOK, RowType, R!Issue, R!ClaimsOf, Claims
    <2> QED BY <2>1 DEF R!RosterNext
  <1>2. ASSUME NEW i \in Ids, Restart(i) PROVE R!RosterNext \/ UNCHANGED R!rosterVars
    <2>1. CASE Insert(i, Row(AdminName, Admin, None))
      <3>1. Row(AdminName, Admin, None) \in RowType /\ Row(AdminName, Admin, None).active = TRUE
        BY AccountsAssumption DEF Row, RowType
      <3> HIDE DEF Row
      <3> QED BY <1>2, <2>1, <3>1, InsertEnrolls DEF Restart
    <2>2. CASE UNCHANGED <<users, used, granted>>
      BY <1>2, <2>2 DEF Restart, R!rosterVars
    <2> QED BY <1>2, <2>1, <2>2 DEF Restart
  <1>3. ASSUME NEW t \in tokens, NEW i \in Ids, DeleteUser(t, i) PROVE R!RosterNext
    <2>1. R!Remove(t, i)
      BY <1>3 DEF DeleteUser, R!Remove
    <2> QED BY <2>1 DEF R!RosterNext
  <1>4. ASSUME NEW t \in tokens, NEW i \in Ids, NEW n \in Names, NEW r \in Roles,
               CreateUser(t, i, Row(n, r, None))
        PROVE  R!RosterNext
    <2>1. Row(n, r, None) \in RowType /\ Row(n, r, None).active = TRUE
      BY DEF Row, RowType
    <2> QED BY <1>4, <2>1, InsertEnrolls DEF CreateUser
  <1>5. ASSUME NEW s \in Slots, NEW t \in tokens, NEW i \in Ids, NEW ask \in Asks,
               UpdRead(s, t, i, ask)
        PROVE  R!RosterNext \/ UNCHANGED R!rosterVars
    <2>1. i \in DOMAIN users /\ UNCHANGED <<users, used, tokens>>
      BY <1>5 DEF UpdRead
    <2>2. CASE t.role = Admin /\ ask.role # None
      <3>1. ask.role \in Roles /\ granted' = granted \cup {<<i, ask.role>>}
        BY <1>5, <2>2, AccountsAssumption DEF UpdRead
      <3> QED BY <2>1, <3>1, Gives
    <2>3. CASE ~(t.role = Admin /\ ask.role # None)
      <3>1. granted' = granted
        BY <1>5, <2>3 DEF UpdRead
      <3> QED BY <2>1, <3>1 DEF R!rosterVars
    <2> QED BY <2>2, <2>3
  <1>6. ASSUME NEW s \in Slots, UpdName(s) PROVE UNCHANGED R!rosterVars
    BY <1>6 DEF UpdName, R!rosterVars
  <1>7. ASSUME NEW s \in Slots, UpdWrite(s) \/ OidcRefresh(s)
        PROVE  R!RosterNext \/ UNCHANGED R!rosterVars
    <2>1. req[s].pc \in {"write", "refresh"} /\ UNCHANGED <<used, granted>>
          /\ UpdateRow(req[s].id, req[s].row)
          /\ tokens' \in {tokens, tokens \cup {Claims(req[s].id, req[s].row.role)}}
      BY <1>7 DEF UpdWrite, OidcRefresh
    <2>2. /\ req[s].id \in Ids /\ req[s].row \in RowType
          /\ <<req[s].id, req[s].row.role>> \in granted
      BY <2>1 DEF RequestsOK, HeldRows, Holds, RequestType
    <2> QED BY <2>1, <2>2, UpdatePuts
  <1>8. ASSUME NEW s \in Slots, NEW sub, NEW n, NEW r \in Roles \cup {None},
               OidcRead(s, sub, n, r)
        PROVE  R!RosterNext \/ UNCHANGED R!rosterVars
    <2>1. UNCHANGED <<users, used, tokens>>
      BY <1>8 DEF OidcRead
    <2>2. ASSUME NEW i \in DOMAIN users,
                 granted' = granted \cup {<<i, Either(r, users[i].role)>>}
          PROVE  R!RosterNext
      <3>1. i \in Ids /\ Either(r, users[i].role) \in Roles
        BY DEF TableOK, RowType, Either
      <3> QED BY <2>1, <2>2, <3>1, Gives
    <2>3. CASE granted' = granted
      BY <2>1, <2>3 DEF R!rosterVars
    <2> QED BY <1>8, <2>2, <2>3 DEF OidcRead
  <1>9. ASSUME NEW s \in Slots, NEW id \in Ids, OidcProvision(s, id)
        PROVE  R!RosterNext \/ UNCHANGED R!rosterVars
    <2>1. req[s].row \in RowType /\ req[s].row.active = TRUE
      BY <1>9 DEF RequestsOK, RequestType, HeldRows, Holds, OidcProvision
    <2>2. CASE ~FitsBeside(DOMAIN users, req[s].row)
      BY <1>9, <2>2 DEF OidcProvision, R!rosterVars
    <2>3. CASE FitsBeside(DOMAIN users, req[s].row)
      BY <1>9, <2>1, <2>3, InsertEnrolls DEF OidcProvision
    <2> QED BY <2>2, <2>3
  <1> QED
    BY <1>1, <1>2, <1>3, <1>4, <1>5, <1>6, <1>7, <1>8, <1>9 DEF Next

\* The gateway's accounts, with any number of overlapping requests, restarts
\* and deletions between their steps, are a roster: this is what Admission
\* relies on when it composes the roster with the connections.
THEOREM AccountsAreARoster == Spec => RosterRefined
  <1>1. Init => R!RosterInit
    BY DEF Init, R!RosterInit, Row
  <1>2. Inv /\ [Next]_vars => [R!RosterNext]_R!rosterVars
    <2> SUFFICES ASSUME Inv, [Next]_vars PROVE R!RosterNext \/ UNCHANGED R!rosterVars
      OBVIOUS
    <2>1. CASE Next
      BY <2>1, StepRefines
    <2>2. CASE UNCHANGED vars
      BY <2>2 DEF vars, R!rosterVars
    <2> QED BY <2>1, <2>2
  <1> QED BY <1>1, <1>2, Invariance, PTL DEF Spec, RosterRefined, R!RosterSpec
=============================================================================
