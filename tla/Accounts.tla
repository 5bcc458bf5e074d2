------------------------------ MODULE Accounts ------------------------------
(* The accounts of the gateway: the users table (db/mod.rs) and the         *)
(* handlers that read and write it (server/mod.rs). The Database mutex is   *)
(* held for one statement at a time, so a handler that reads a row, edits   *)
(* its copy and writes the whole copy back is several steps, and another    *)
(* handler may run between any two of them.                                 *)
(* A row keeps what decides what an account may do and whom a login finds:  *)
(* name, role, is_active and oidc_sub. Password and profile fields travel   *)
(* with it in the same statements and are left out.                         *)
EXTENDS Naturals, FiniteSets

CONSTANTS Ids,            \* account ids (random UUIDs: never used twice)
          Names,          \* usernames
          Fold,           \* a name without its case, as COLLATE NOCASE sees it
          Roles, Admin,   \* roles; the one that administers
          DefaultRole,    \* auth.default_role
          AutoProvision,  \* oidc.auto_provision_users
          Subs,           \* subjects of the OIDC provider
          Asks,           \* what updates may ask for; None leaves a field as it is
          AdminName,      \* name of the account seeded on the first start
          Slots,          \* requests that may be under way at one time
          None

ASSUME AccountsAssumption ==
  /\ Fold \in [Names -> Names] /\ {Admin, DefaultRole} \subseteq Roles
  /\ AutoProvision \in BOOLEAN /\ AdminName \in Names
  /\ Asks \subseteq
       [name : Names \cup {None}, role : Roles \cup {None}, active : BOOLEAN \cup {None}]
  /\ Ids # {} /\ None \notin Ids \cup Names \cup Roles \cup Subs \cup BOOLEAN

VARIABLES users,    \* the table: a row for each id in it
          used,     \* every id that was ever in the table
          tokens,   \* claims of the JWTs handed out
          req,      \* the requests under way; `read` keeps the row as it was read
          granted   \* history: the roles each account was ever given

vars == <<users, used, tokens, req, granted>>

Row(name, role, sub) == [name |-> name, role |-> role, active |-> TRUE, sub |-> sub]
Claims(id, role) == [id |-> id, role |-> role]

NoAsk == [name |-> None, role |-> None, active |-> None]
NoRow == Row(AdminName, Admin, None)
Idle == [pc |-> "idle", by |-> Claims(None, None), id |-> None, ask |-> NoAsk,
         read |-> NoRow, row |-> NoRow]

FitsBesideNames(others, row) ==  \* mutant: no UNIQUE (oidc_sub)
  \A j \in others : users[j].name # row.name

\* UNIQUE (username), UNIQUE (oidc_sub): the row fits beside those of others.
FitsBeside(others, row) ==
  /\ \A j \in others : users[j].name # row.name
  /\ row.sub # None => \A j \in others : users[j].sub # row.sub

\* get_user_by_username: the rows it may return (it returns one of them).
Lookup(name) == {i \in DOMAIN users : Fold[users[i].name] = Fold[name]}

\* INSERT under a new id, with the role it is given.
Insert(id, row) ==
  /\ id \notin used
  /\ users' = [i \in DOMAIN users \cup {id} |-> IF i = id THEN row ELSE users[i]]
  /\ used' = used \cup {id}
  /\ granted' = granted \cup {<<id, row.role>>}

UpsertRow(id, row) ==  \* mutant: a row that is missing is put back
  users' = IF FitsBeside(DOMAIN users \ {id}, row)
           THEN [i \in DOMAIN users \cup {id} |-> IF i = id THEN row ELSE users[i]]
           ELSE users

\* update_user: UPDATE ... WHERE id. It fails on a taken name; a row that has
\* gone in the meantime is not an error.
UpdateRow(id, row) ==
  users' = IF id \in DOMAIN users /\ FitsBeside(DOMAIN users \ {id}, row)
           THEN [users EXCEPT ![id] = [row EXCEPT !.sub = users[id].sub]]
           ELSE users

\* The first start: seed_initial_admin on an empty table.
Init == /\ \E id \in Ids : /\ users = [i \in {id} |-> Row(AdminName, Admin, None)]
                           /\ used = {id} /\ granted = {<<id, Admin>>}
        /\ tokens = {} /\ req = [s \in Slots |-> Idle]

Done(s) == req' = [req EXCEPT ![s] = Idle]

-----------------------------------------------------------------------------
(* Local login, and what administrators do in one statement.                *)

\* The name typed finds this account; its password is right.
Login(i) == /\ i \in DOMAIN users /\ users[i].active
            /\ \E n \in Names : i \in Lookup(n)
            /\ tokens' = tokens \cup {Claims(i, users[i].role)}
            /\ UNCHANGED <<users, used, req, granted>>

CreateUser(t, id, row) ==
  /\ t \in tokens /\ t.role = Admin
  /\ FitsBeside(DOMAIN users, row) /\ Insert(id, row)
  /\ UNCHANGED <<tokens, req>>

DeleteUser(t, i) ==
  /\ t \in tokens /\ t.role = Admin /\ t.id # i /\ i \in DOMAIN users
  /\ users' = [j \in DOMAIN users \ {i} |-> users[j]]
  /\ UNCHANGED <<used, tokens, req, granted>>

-----------------------------------------------------------------------------
(* api_update_user: read the row, look a new name up, write the row back.   *)

Either(asked, old) == IF asked = None THEN old ELSE asked

EditedByAnyone(t, row, ask) ==  \* mutant: not only administrators set these
  [row EXCEPT !.role = Either(ask.role, @), !.active = Either(ask.active, @)]

\* The row with the fields only an administrator can change.
Edited(t, row, ask) ==
  IF t.role = Admin
  THEN [row EXCEPT !.role = Either(ask.role, @), !.active = Either(ask.active, @)]
  ELSE row

RenamesSelf(t, i, ask) ==  \* mutant: an administrator's own account too
  t.role = Admin /\ ask.name \notin {None, users[i].name}

\* "Only administrators modifying another user can change a username."
Renames(t, i, ask) == t.role = Admin /\ t.id # i /\ ask.name \notin {None, users[i].name}

UpdRead(s, t, i, ask) ==
  /\ req[s] = Idle /\ t \in tokens /\ (t.role = Admin \/ t.id = i)
  /\ i \in DOMAIN users
  /\ req' = [req EXCEPT ![s] =
               [pc  |-> IF Renames(t, i, ask) THEN "name" ELSE "write",
                by  |-> t, id |-> i, ask |-> ask,
                read |-> users[i], row |-> Edited(t, users[i], ask)]]
  /\ granted' = IF t.role = Admin /\ ask.role # None
                THEN granted \cup {<<i, ask.role>>} ELSE granted
  /\ UNCHANGED <<users, used, tokens>>

\* The account the lookup returns must be the one edited.
UpdName(s) ==
  /\ req[s].pc = "name"
  /\ LET found == Lookup(req[s].ask.name)
     IN \/ /\ found = {} \/ req[s].id \in found
           /\ req' = [req EXCEPT ![s].pc = "write", ![s].row.name = req[s].ask.name]
        \/ /\ \E i \in found : i # req[s].id
           /\ Done(s)
  /\ UNCHANGED <<users, used, tokens, granted>>

UpdWrite(s) == /\ req[s].pc = "write"
               /\ UpdateRow(req[s].id, req[s].row) /\ Done(s)
               /\ UNCHANGED <<used, tokens, granted>>

-----------------------------------------------------------------------------
(* api_oidc_callback, once the provider has vouched for a subject. `role` is*)
(* what determine_role_for_groups makes of its groups, None without groups. *)

OidcRead(s, sub, name, role) ==
  LET found == {i \in DOMAIN users : users[i].sub = sub}
  IN /\ req[s] = Idle
     /\ \/ \E i \in found :
             /\ req' = [req EXCEPT ![s] =
                          [Idle EXCEPT !.pc = "refresh", !.id = i, !.read = users[i],
                                       !.row = [users[i] EXCEPT !.role = Either(role, @)]]]
             /\ granted' = granted \cup {<<i, Either(role, users[i].role)>>}
        \/ /\ found = {} /\ AutoProvision
           /\ req' = [req EXCEPT ![s] =
                        [Idle EXCEPT !.pc = "provision",
                                     !.row = Row(name, Either(role, DefaultRole), sub)]]
           /\ UNCHANGED granted
     /\ UNCHANGED <<users, used, tokens>>

\* The result of the update is ignored; the token is made from the row in hand.
OidcRefresh(s) == /\ req[s].pc = "refresh"
                  /\ UpdateRow(req[s].id, req[s].row) /\ Done(s)
                  /\ tokens' = tokens \cup {Claims(req[s].id, req[s].row.role)}
                  /\ UNCHANGED <<used, granted>>

OidcProvision(s, id) ==
  /\ req[s].pc = "provision" /\ Done(s)
  /\ IF FitsBeside(DOMAIN users, req[s].row)
     THEN Insert(id, req[s].row) /\ tokens' = tokens \cup {Claims(id, req[s].row.role)}
     ELSE UNCHANGED <<users, used, tokens, granted>>

-----------------------------------------------------------------------------
\* The process stops and starts again: requests are lost, tokens are not. An
\* empty table is seeded as on the first start.
Restart(id) == /\ req' = [s \in Slots |-> Idle]
               /\ IF DOMAIN users = {} THEN Insert(id, Row(AdminName, Admin, None))
                  ELSE UNCHANGED <<users, used, granted>>
               /\ UNCHANGED tokens

Next == \/ \E i \in Ids : Login(i) \/ Restart(i)
        \/ \E t \in tokens, i \in Ids :
             \/ DeleteUser(t, i)
             \/ \E n \in Names, r \in Roles : CreateUser(t, i, Row(n, r, None))
             \/ \E s \in Slots, ask \in Asks : UpdRead(s, t, i, ask)
        \/ \E s \in Slots :
             \/ UpdName(s) \/ UpdWrite(s) \/ OidcRefresh(s)
             \/ \E sub \in Subs, n \in Names, r \in Roles \cup {None} : OidcRead(s, sub, n, r)
             \/ \E id \in Ids : OidcProvision(s, id)

Spec == Init /\ [][Next]_vars

-----------------------------------------------------------------------------
(* Properties.                                                              *)

RowType == [name : Names, role : Roles, active : BOOLEAN, sub : Subs \cup {None}]
ClaimsType == [id : Ids \cup {None}, role : Roles \cup {None}]

\* Type invariant.
TypeOK == /\ DOMAIN users \subseteq used /\ used \subseteq Ids
          /\ \A i \in DOMAIN users : users[i] \in RowType
          /\ tokens \subseteq [id : Ids, role : Roles]
          /\ req \in [Slots -> [pc : {"idle", "name", "write", "refresh", "provision"},
                                by : ClaimsType, id : Ids \cup {None},
                                ask : Asks \cup {NoAsk}, read : RowType, row : RowType]]
          /\ granted \subseteq Ids \X Roles

\* An account has only roles that an administrator, the OIDC provider or its
\* creation gave it, and so has every token: a row that a handler holds while
\* others write brings back an old role at worst, never another account's.
RolesWereGranted ==
  /\ \A i \in DOMAIN users : <<i, users[i].role>> \in granted
  /\ \A t \in tokens : <<t.id, t.role>> \in granted

\* An account that was deleted stays deleted, whatever handler still holds its
\* row ("User deleted", server/mod.rs:592).
DeletedStaysDeleted == [][\A i \in used \ DOMAIN users : i \notin DOMAIN users']_vars

\* A subject of the OIDC provider has one account, also when two of its first
\* logins run at the same time and both find none (db/mod.rs:210).
OneAccountPerSubject ==
  \A i, j \in DOMAIN users : users[i].sub = users[j].sub /\ users[i].sub # None => i = j

Writing(s) == req[s].pc \in {"write", "refresh"} /\ req'[s] = Idle

\* A disabled account comes back only by a request with an administrator's
\* claims that asks for it ("Admins can disable or re-enable any account",
\* CHANGELOG.md:100), or by a handler that still holds the enabled row it read.
\* The claims are the token's: that their owner is enabled, or somebody else, is
\* not asked (server/mod.rs:483), so a disabled administrator may enable himself.
OnlyAdminsEnable ==
  [][\A i \in DOMAIN users \cap DOMAIN users' :
       ~users[i].active /\ users'[i].active =>
         \E s \in Slots :
           /\ Writing(s) /\ req[s].id = i
           /\ \/ req[s].by.role = Admin /\ req[s].ask.active = TRUE
              \/ req[s].read.active]_vars

\* The name of an account changes only to one that an administrator other than
\* its owner asked for ("Users cannot change username on themselves",
\* server/mod.rs:506), or back to the one that a handler read.
OnlyOthersRename ==
  [][\A i \in DOMAIN users \cap DOMAIN users' :
       users'[i].name # users[i].name =>
         \E s \in Slots :
           /\ Writing(s) /\ req[s].id = i
           /\ \/ /\ req[s].ask.name = users'[i].name
                 /\ req[s].by.role = Admin /\ req[s].by.id # i
              \/ req[s].read.name = users'[i].name]_vars

\* To the rest of the gateway the accounts are a Roster: whatever the handlers
\* in flight hold, nobody has a role he was not given, the deleted stay deleted,
\* and nobody is deleted but by another who was an administrator, also when two
\* of them delete each other (server/mod.rs:581).
R == INSTANCE Roster WITH Users <- Ids, given <- granted,
       rows <- [i \in DOMAIN users |-> [role |-> users[i].role, active |-> users[i].active]]
RosterRefined == R!RosterSpec
=============================================================================
