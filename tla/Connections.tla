----------------------------- MODULE Connections -----------------------------
(* The connection directory of the gateway: the connections table          *)
(* (db/mod.rs) and the handlers that change it (server/mod.rs). As for      *)
(* accounts, an update is a read, an edit of the copy and a write, with the *)
(* database free for others in between; unlike accounts, the write is an    *)
(* upsert, and it keeps some columns of the row it finds.                   *)
(* `data` stands for the fields an update always replaces (name, protocol,  *)
(* host, port, ...), `secret` for password_enc and private_key_enc.         *)
EXTENDS FiniteSets

CONSTANTS Ids,       \* connection ids (chosen by the client, or fresh)
          Callers,   \* claims of those who use the API
          Admin, Operator,
          Datas, Secrets,
          Slots,     \* updates and deletions that may be under way at one time
          None

ASSUME ConnectionsAssumption ==
  /\ \A c \in Callers : DOMAIN c = {"id", "role"}
  /\ None \notin Secrets \cup BOOLEAN

VARIABLES conns,  \* the table: a row for each id in it
          req     \* requests between their read and their write

vars == <<conns, req>>

Row(owner, global, data, secret) ==
  [owner |-> owner, global |-> global, data |-> data, secret |-> secret]

Owners == {c.id : c \in Callers}
Rows == [owner : Owners, global : BOOLEAN, data : Datas, secret : Secrets \cup {None}]

\* What the body of an update gives; None: the field is absent.
Asks == [data : Datas, global : BOOLEAN \cup {None}, secret : Secrets \cup {None}]

NotUnderWay == [pc |-> "idle"]
Idle(s) == req[s] = NotUnderWay
Done(s) == req' = [req EXCEPT ![s] = NotUnderWay]

Given(asked, old) == IF asked = None THEN old ELSE asked

SaveTakesOver(id, row) ==  \* mutant: created_by is overwritten as well
  conns' = [i \in DOMAIN conns \cup {id} |->
              IF i # id THEN conns[i]
              ELSE IF id \notin DOMAIN conns THEN row
              ELSE [row EXCEPT !.secret = Given(row.secret, conns[id].secret)]]

SaveReplaces(id, row) ==  \* mutant: no COALESCE
  conns' = [i \in DOMAIN conns \cup {id} |->
              IF i # id THEN conns[i]
              ELSE IF id \notin DOMAIN conns THEN row
              ELSE [row EXCEPT !.owner = conns[id].owner]]

\* save_connection: a new row, or the row that is there with everything
\* replaced but its creator and, when none is given, its secret.
Save(id, row) ==
  conns' = [i \in DOMAIN conns \cup {id} |->
              IF i # id THEN conns[i]
              ELSE IF id \notin DOMAIN conns THEN row
              ELSE [row EXCEPT !.owner  = conns[id].owner,
                               !.secret = Given(row.secret, conns[id].secret)]]

MayEdit(c, row) == c.role = Admin \/ row.owner = c.id

\* The directory starts with the terminal seeded for the first administrator.
Init == /\ \E id \in Ids, c \in Callers, d \in Datas :
             /\ c.role = Admin
             /\ conns = [i \in {id} |-> Row(c.id, TRUE, d, None)]
        /\ req = [s \in Slots |-> NotUnderWay]

-----------------------------------------------------------------------------
CreateVerbatim(c, id, ask) ==  \* mutant: an absent is_global is stored as it is
  /\ c.role \in {Admin, Operator}
  /\ LET global == IF c.role = Admin THEN ask.global ELSE FALSE
     IN Save(id, Row(c.id, global, ask.data, ask.secret))
  /\ UNCHANGED req

\* api_create_connection. Operators create personal connections.
Create(c, id, ask) ==
  /\ c.role \in {Admin, Operator}
  /\ LET global == IF c.role = Admin THEN Given(ask.global, TRUE) ELSE FALSE
     IN Save(id, Row(c.id, global, ask.data, ask.secret))
  /\ UNCHANGED req

\* The row an update writes. Only administrators set is_global.
Edited(c, row, ask) ==
  [row EXCEPT !.data = ask.data, !.secret = Given(ask.secret, @),
              !.global = IF c.role = Admin THEN Given(ask.global, @) ELSE @]

\* What update and delete do first: read the row, compare its creator.
MayStart(s, c, id) == /\ Idle(s) /\ c.role \in {Admin, Operator}
                      /\ id \in DOMAIN conns /\ MayEdit(c, conns[id])

\* api_update_connection. The row that is written back carries the secret that
\* was read. `gave` and `read` are history: the secret of the body, that of the row.
UpdRead(s, c, id, ask) ==
  /\ MayStart(s, c, id)
  /\ req' = [req EXCEPT ![s] = [pc |-> "save", id |-> id, row |-> Edited(c, conns[id], ask),
                                gave |-> ask.secret, read |-> conns[id].secret]]
  /\ UNCHANGED conns

UpdSave(s) == req[s].pc = "save" /\ Save(req[s].id, req[s].row) /\ Done(s)

\* api_delete_connection
DelRead(s, c, id) ==
  /\ MayStart(s, c, id)
  /\ req' = [req EXCEPT ![s] = [pc |-> "delete", id |-> id]]
  /\ UNCHANGED conns

DelWrite(s) == /\ req[s].pc = "delete"
               /\ conns' = [i \in DOMAIN conns \ {req[s].id} |-> conns[i]]
               /\ Done(s)

\* The process stops and starts again.
Restart == req' = [s \in Slots |-> NotUnderWay] /\ UNCHANGED conns

Next == \/ \E c \in Callers, id \in Ids :
             \/ \E ask \in Asks : Create(c, id, ask)
             \/ \E s \in Slots :
                  \/ \E ask \in Asks : UpdRead(s, c, id, ask)
                  \/ DelRead(s, c, id)
        \/ \E s \in Slots : UpdSave(s) \/ DelWrite(s)
        \/ Restart

Spec == Init /\ [][Next]_vars

-----------------------------------------------------------------------------
(* Properties.                                                              *)

\* Type invariant.
TypeOK ==
  /\ DOMAIN conns \subseteq Ids /\ \A i \in DOMAIN conns : conns[i] \in Rows
  /\ \A s \in Slots :
       \/ req[s] = NotUnderWay
       \/ req[s] \in [pc : {"save"}, id : Ids, row : Rows,
                      gave : Secrets \cup {None}, read : Secrets \cup {None}]
       \/ req[s] \in [pc : {"delete"}, id : Ids]

Staying == DOMAIN conns \cap DOMAIN conns'

\* A connection keeps its creator, and with it the operator whose personal
\* workspace it is in, for as long as it exists: whoever saves it, and however
\* many saves overlap ("isolated to the creator's workspace", ROADMAP.md:56).
OwnerKept == [][\A i \in Staying : conns'[i].owner = conns[i].owner]_vars

Saves(s, i) == req[s].pc = "save" /\ req[s].id = i /\ Idle(s)'

\* However many saves of a connection overlap, a stored secret never vanishes,
\* and it changes only to one that was given: by a POST, or by the update that
\* writes it. An update that gives none may bring back the one it read over a
\* newer one (server/mod.rs:801-868, db/mod.rs:738), and can do nothing else to it:
\* if nobody else saved in between, the stored secret stays.
SecretFollows ==
  [][\A i \in Staying : conns'[i].secret # conns[i].secret =>
       /\ conns'[i].secret # None
       /\ \/ UNCHANGED req
          \/ \E s \in Slots : /\ Saves(s, i)
                              /\ conns'[i].secret = Given(req[s].gave, req[s].read)]_vars
=============================================================================
