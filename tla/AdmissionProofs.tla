-------------------------- MODULE AdmissionProofs --------------------------
(* Proofs about Admission and about Connections, which it drives, for any   *)
(* number of accounts, connections, groups and permissions, and with any    *)
(* number of updates under way (the run of Admission has one). The first    *)
(* part is about the specification of Connections alone.                    *)
EXTENDS Admission, TLAPS

-----------------------------------------------------------------------------
(* The connections alone.                                                   *)

\* What a request holds between its two steps.
Saving == [pc : {"save"}, id : Ids, row : Rows,
           gave : Secrets \cup {None}, read : Secrets \cup {None}]
Held == Saving \cup [pc : {"delete"}, id : Ids]

Requests == \A s \in Slots : req[s] = NotUnderWay \/ req[s] \in Held

\* The secret an update writes is the one it was given, or else the one it read.
Carried ==
  \A s \in Slots : req[s].pc = "save" => req[s].row.secret = Given(req[s].gave, req[s].read)

\* The table is well typed; req is a function, so that one slot changes alone.
Inv == /\ DOMAIN conns \subseteq Ids /\ \A i \in DOMAIN conns : conns[i] \in Rows
       /\ DOMAIN req = Slots /\ Requests /\ Carried

LEMMA InvGives == Inv => TypeOK
  BY DEF Inv, Requests, Held, Saving, TypeOK

\* A save replaces one row, or adds it. The creator survives it, and so does the
\* secret, unless the new row has one.
LEMMA SaveRow ==
  ASSUME NEW id \in Ids, NEW row \in Rows, Inv, Save(id, row)
  PROVE  /\ DOMAIN conns' = DOMAIN conns \cup {id}
         /\ \A i \in DOMAIN conns' : conns'[i] \in Rows
         /\ \A i \in DOMAIN conns :
              /\ conns'[i].owner = conns[i].owner
              /\ conns'[i].secret # conns[i].secret =>
                   i = id /\ conns'[i].secret = row.secret /\ row.secret # None
  <1> USE DEF Inv
  <1>1. /\ DOMAIN conns' = DOMAIN conns \cup {id}
        /\ \A i \in DOMAIN conns : i # id => conns'[i] = conns[i]
    BY DEF Save
  <1>2. CASE id \notin DOMAIN conns
    <2>1. conns'[id] = row
      BY <1>2 DEF Save
    <2> QED BY <1>1, <1>2, <2>1
  <1>3. CASE id \in DOMAIN conns
    <2> DEFINE old == conns[id]
    <2>1. old \in Rows
      BY <1>3
    <2>2. conns'[id] = [row EXCEPT !.owner = old.owner, !.secret = Given(row.secret, old.secret)]
      BY <1>3 DEF Save
    <2> HIDE DEF old
    <2>3. /\ conns'[id] \in Rows /\ conns'[id].owner = old.owner
          /\ conns'[id].secret = Given(row.secret, old.secret)
      BY <2>1, <2>2 DEF Rows, Given
    <2>4. conns'[id].secret # old.secret => conns'[id].secret = row.secret /\ row.secret # None
      BY <2>3 DEF Given
    <2> QED BY <1>1, <1>3, <2>3, <2>4 DEF old
  <1> QED BY <1>2, <1>3

\* What an update saves is a row.
LEMMA EditedType ==
  ASSUME NEW c \in Callers, NEW row \in Rows, NEW ask \in Asks
  PROVE  Edited(c, row, ask) \in Rows
  BY DEF Edited, Rows, Asks, Given

LEMMA EditedSecret ==
  ASSUME NEW c \in Callers, NEW row \in Rows, NEW ask \in Asks
  PROVE  Edited(c, row, ask).secret = Given(ask.secret, row.secret)
  BY DEF Edited, Rows, Asks

\* What an administrator or an operator creates is a row.
LEMMA CreatedType ==
  ASSUME NEW c \in Callers, NEW ask \in Asks
  PROVE  Row(c.id, IF c.role = Admin THEN Given(ask.global, TRUE) ELSE FALSE,
             ask.data, ask.secret) \in Rows
  <1>1. ask.global \in BOOLEAN \cup {None} /\ ask.data \in Datas /\ ask.secret \in Secrets \cup {None}
    BY DEF Asks
  <1>2. Given(ask.global, TRUE) \in BOOLEAN
    BY <1>1 DEF Given
  <1>3. c.id \in Owners
    BY DEF Owners
  <1> QED BY <1>1, <1>2, <1>3 DEF Row, Rows

LEMMA InitInv == Init => Inv
  <1> SUFFICES ASSUME Init PROVE Inv
    OBVIOUS
  <1>1. PICK id \in Ids, c \in Callers, d \in Datas :
          conns = [i \in {id} |-> Row(c.id, TRUE, d, None)]
    BY DEF Init
  <1>2. Row(c.id, TRUE, d, None) \in Rows
    BY DEF Row, Rows, Owners
  <1> QED BY <1>1, <1>2 DEF Init, Inv, Requests, Carried, NotUnderWay

\* What SecretFollows says of one row.
Explained(i) ==
  conns'[i].secret # conns[i].secret =>
    /\ conns'[i].secret # None
    /\ \/ UNCHANGED req
       \/ \E s \in Slots : /\ Saves(s, i)
                           /\ conns'[i].secret = Given(req[s].gave, req[s].read)

\* One step, whoever takes it: the invariant is kept, every row that stays keeps
\* its creator, and a change of its secret is explained.
Steady == \A i \in Staying : conns'[i].owner = conns[i].owner /\ Explained(i)

LEMMA Step == Inv /\ [Next]_vars => Inv' /\ Steady
  <1> SUFFICES ASSUME Inv, [Next]_vars PROVE Inv' /\ Steady
    OBVIOUS
  <1> USE DEF Inv
  <1>1. ASSUME NEW c \in Callers, NEW id \in Ids, NEW ask \in Asks, Create(c, id, ask)
        PROVE  Inv' /\ Steady
    <2> DEFINE row == Row(c.id, IF c.role = Admin THEN Given(ask.global, TRUE) ELSE FALSE,
                          ask.data, ask.secret)
    <2>1. Save(id, row) /\ req' = req
      BY <1>1 DEF Create
    <2>2. row \in Rows
      BY CreatedType
    <2> HIDE DEF row
    <2> QED BY <2>1, <2>2, SaveRow DEF Requests, Carried, Steady, Explained, Staying
  <1>2. ASSUME NEW c \in Callers, NEW id \in Ids, NEW ask \in Asks, NEW s \in Slots,
               UpdRead(s, c, id, ask)
        PROVE  Inv' /\ Steady
    <2>1. id \in DOMAIN conns /\ conns' = conns
          /\ req' = [req EXCEPT ![s] = [pc |-> "save", id |-> id,
                                        row |-> Edited(c, conns[id], ask),
                                        gave |-> ask.secret, read |-> conns[id].secret]]
      BY <1>2 DEF UpdRead, MayStart
    <2>2. /\ Edited(c, conns[id], ask) \in Rows
          /\ Edited(c, conns[id], ask).secret = Given(ask.secret, conns[id].secret)
      BY <2>1, EditedType, EditedSecret
    <2>3. ask.secret \in Secrets \cup {None} /\ conns[id].secret \in Secrets \cup {None}
      BY <2>1 DEF Asks, Rows
    <2> DEFINE held == [pc |-> "save", id |-> id, row |-> Edited(c, conns[id], ask),
                        gave |-> ask.secret, read |-> conns[id].secret]
    <2>4. held \in Held /\ held.row.secret = Given(held.gave, held.read)
      BY <2>2, <2>3 DEF Held, Saving
    <2>5. req' = [req EXCEPT ![s] = held]
      BY <2>1
    <2> HIDE DEF held
    <2> QED BY <2>1, <2>4, <2>5 DEF Requests, Carried, Steady, Explained, Staying
  <1>3. ASSUME NEW c \in Callers, NEW id \in Ids, NEW s \in Slots, DelRead(s, c, id)
        PROVE  Inv' /\ Steady
    BY <1>3 DEF DelRead, Requests, Carried, Held, Steady, Explained, Staying
  <1>4. ASSUME NEW s \in Slots, UpdSave(s) PROVE Inv' /\ Steady
    <2>0. PICK id, row : id = req[s].id /\ row = req[s].row
      OBVIOUS
    <2>1. id \in Ids /\ row \in Rows /\ Save(id, row)
      BY <1>4, <2>0 DEF UpdSave, Requests, Held, Saving, NotUnderWay
    <2>2. req' = [req EXCEPT ![s] = NotUnderWay]
      BY <1>4 DEF UpdSave, Done
    <2>3. /\ DOMAIN conns' = DOMAIN conns \cup {id}
          /\ \A i \in DOMAIN conns' : conns'[i] \in Rows
          /\ \A i \in DOMAIN conns :
               /\ conns'[i].owner = conns[i].owner
               /\ conns'[i].secret # conns[i].secret =>
                    i = id /\ conns'[i].secret = row.secret /\ row.secret # None
      BY <2>1, SaveRow
    <2>4. DOMAIN req' = Slots /\ Requests' /\ Carried'
      BY <2>2 DEF Requests, Carried, NotUnderWay
    <2>5. Saves(s, id) /\ row.secret = Given(req[s].gave, req[s].read)
      BY <1>4, <2>0, <2>2 DEF UpdSave, Saves, Idle, Carried
    <2>6. Inv'
      BY <2>1, <2>3, <2>4
    <2>7. Steady
      BY <2>3, <2>5 DEF Steady, Explained, Staying
    <2> QED BY <2>6, <2>7
  <1>5. ASSUME NEW s \in Slots, DelWrite(s) PROVE Inv' /\ Steady
    <2>1. /\ DOMAIN conns' = DOMAIN conns \ {req[s].id}
          /\ \A i \in DOMAIN conns' : conns'[i] = conns[i]
          /\ req' = [req EXCEPT ![s] = NotUnderWay]
      BY <1>5 DEF DelWrite, Done
    <2> QED BY <2>1 DEF Requests, Carried, NotUnderWay, Steady, Explained, Staying
  <1>6. CASE Restart
    BY <1>6 DEF Restart, Requests, Carried, NotUnderWay, Steady, Explained, Staying
  <1>7. CASE UNCHANGED vars
    BY <1>7 DEF vars, Requests, Carried, Steady, Explained, Staying
  <1> QED BY <1>1, <1>2, <1>3, <1>4, <1>5, <1>6, <1>7 DEF Next

LEMMA Invariance == Spec => []Inv
  BY InitInv, Step, PTL DEF Spec

\* Types of the table and of what requests hold.
THEOREM TypeCorrect == Spec => []TypeOK
  BY Invariance, InvGives, PTL

\* However many saves overlap, a connection keeps its creator.
THEOREM OwnerNeverChanges == Spec => OwnerKept
  <1>1. Inv /\ [Next]_vars => [\A i \in Staying : conns'[i].owner = conns[i].owner]_vars
    BY Step DEF Steady
  <1> QED BY <1>1, Invariance, PTL DEF Spec, OwnerKept

\* However many saves overlap, a stored secret never vanishes, and it changes
\* only to one a POST gives, or to the one the update that writes it was given or
\* has read: an update that overlaps with no other save leaves it as it is.
THEOREM SecretFollowsSaves == Spec => SecretFollows
  <1>1. Inv /\ [Next]_vars => [\A i \in Staying : Explained(i)]_vars
    BY Step DEF Steady
  <1> QED BY <1>1, Invariance, PTL DEF Spec, SecretFollows, Explained

-----------------------------------------------------------------------------
(* The invariant of the whole.                                              *)

\* Permissions and memberships refer to what exists: ON DELETE CASCADE.
Referential == /\ grants \subseteq [conn : DOMAIN conns, to : DOMAIN rows \cup Groups]
               /\ members \subseteq (DOMAIN rows) \X Groups

\* The accounts, as far as the directory and the tunnels rely on them.
RosterOK == /\ DOMAIN rows \subseteq used /\ used \subseteq Users
            /\ \A u \in DOMAIN rows : rows[u] \in R!Account
            /\ given \subseteq Users \X Roles /\ tokens \subseteq Callers

\* The history a request keeps is about the whole time since its first read:
\* what holds now has held at some moment, what held always holds now. Whoever
\* has come as far as the list has no administrator's claims.
Watched ==
  ~Answered =>
    /\ \A t \in {tunnel.by}, c \in {tunnel.id}, role \in {tunnel.role} :
         Holding(t, c, role) \subseteq tunnel.ever /\ tunnel.always \subseteq Holding(t, c, role)
    /\ tunnel.pc = "list" => tunnel.by.role # Admin

TunnelOK == tunnel \in TunnelType /\ Watched

AdmInv == Inv /\ RosterOK /\ Referential /\ TunnelOK

LEMMA AdmInvGives == AdmInv => AdmTypeOK
  BY InvGives DEF AdmInv, RosterOK, Referential, TunnelOK, AdmTypeOK

\* What holds is a matter of the tables alone.
LEMMA SameHolding ==
  ASSUME UNCHANGED <<vars, grantVars>>
  PROVE  \A t, c, role : Holding(t, c, role)' = Holding(t, c, role)
  BY DEF vars, grantVars, Holding, Listed, GrantsTo

LEMMA HoldingType == \A t, c, role : Holding(t, c, role) \subseteq Both
  BY DEF Holding

-----------------------------------------------------------------------------
(* The tunnel request.                                                      *)

\* A request that is not answered has read something.
LEMMA UnderWay ==
  ASSUME tunnel \in TunnelType, ~Answered
  PROVE  tunnel \in [pc : {"conn", "list"}, by : Callers, id : Ids, role : Roles,
                     ever : SUBSET Both, always : SUBSET Both]
  BY DEF TunnelType, Answered

\* Others' steps are watched.
LEMMA WatchKeeps == ASSUME TunnelOK, Watch PROVE TunnelOK'
  <1>1. CASE Answered /\ UNCHANGED tunnel
    BY <1>1 DEF TunnelOK, Watched, Answered
  <1>2. CASE ~Answered
    <2>1. tunnel \in [pc : {"conn", "list"}, by : Callers, id : Ids, role : Roles,
                      ever : SUBSET Both, always : SUBSET Both]
      BY <1>2, UnderWay DEF TunnelOK
    <2>2. PICK t \in {tunnel.by}, c \in {tunnel.id}, role \in {tunnel.role} :
            tunnel' = [tunnel EXCEPT !.ever   = @ \cup Holding(t, c, role)',
                                     !.always = @ \cap Holding(t, c, role)']
      BY <1>2 DEF Watch
    <2> DEFINE now == Holding(t, c, role)'
    <2>3. now \subseteq Both
      BY DEF Holding
    <2>4. tunnel' = [tunnel EXCEPT !.ever = @ \cup now, !.always = @ \cap now]
      BY <2>2
    <2>5. t = tunnel'.by /\ c = tunnel'.id /\ role = tunnel'.role
      BY <2>1, <2>2
    <2> HIDE DEF now
    <2>6. /\ tunnel'.pc = tunnel.pc /\ tunnel'.by = tunnel.by
          /\ tunnel'.ever = tunnel.ever \cup now /\ tunnel'.always = tunnel.always \cap now
          /\ tunnel' \in TunnelType
      BY <2>1, <2>3, <2>4 DEF TunnelType
    <2>7. tunnel.pc = "list" => tunnel.by.role # Admin
      BY <1>2 DEF TunnelOK, Watched
    <2> QED BY <2>5, <2>6, <2>7 DEF TunnelOK, Watched, now
  <1> QED BY <1>1, <1>2 DEF Watch

\* Its own steps.
LEMMA ReadsKeep ==
  ASSUME AdmInv,
         \/ \E t \in tokens, c \in Ids : UserRead(t, c)
         \/ ConnRead \/ ListRead
  PROVE  TunnelOK' /\ UNCHANGED <<vars, accounts, grantVars>>
  <1>1. UNCHANGED <<vars, accounts, grantVars>>
    BY DEF UserRead, ConnRead, ListRead
  <1>2. \A t, c, role : Holding(t, c, role)' = Holding(t, c, role)
    BY <1>1, SameHolding
  <1>3. ASSUME NEW pc \in {"admitted", "refused"}, Answer(pc) PROVE TunnelOK'
    BY <1>3 DEF Answer, TunnelOK, TunnelType, Watched, Answered
  <1>4. ASSUME NEW t \in tokens, NEW c \in Ids, UserRead(t, c) PROVE TunnelOK'
    <2>1. CASE Answer("refused")
      BY <1>3, <2>1
    <2>2. CASE t.id \in DOMAIN rows /\ rows[t.id].active
      <3>0. PICK role : role = rows[t.id].role
        OBVIOUS
      <3> DEFINE now == Holding(t, c, role)
      <3>1. tunnel' = [pc |-> "conn", by |-> t, id |-> c, role |-> role,
                       ever |-> now, always |-> now]
        BY <1>4, <2>2, <3>0 DEF UserRead
      <3>2. role \in Roles /\ t \in Callers /\ now \subseteq Both
        BY <2>2, <3>0, HoldingType DEF AdmInv, RosterOK, R!Account
      <3>3. /\ tunnel'.by = t /\ tunnel'.id = c /\ tunnel'.role = role /\ tunnel'.pc = "conn"
            /\ tunnel'.ever = now /\ tunnel'.always = now
        BY <3>1
      <3>5. now = Holding(t, c, role)'
        BY <1>2
      <3> HIDE DEF now
      <3>4. tunnel' \in TunnelType
        BY <3>1, <3>2 DEF TunnelType
      <3> QED BY <3>3, <3>4, <3>5 DEF TunnelOK, Watched
    <2> QED BY <1>4, <2>1, <2>2 DEF UserRead
  <1>5. CASE ConnRead
    <2>1. CASE Answer("admitted") \/ Answer("refused")
      BY <1>1, <1>3, <2>1
    <2>2. CASE /\ ~NeedsNoList(tunnel.by, conns[tunnel.id])
               /\ tunnel' = [tunnel EXCEPT !.pc = "list"]
      <3>1. tunnel.pc = "conn" /\ ~Answered
        BY <1>5 DEF ConnRead, Answered
      <3>2. tunnel \in [pc : {"conn", "list"}, by : Callers, id : Ids, role : Roles,
                        ever : SUBSET Both, always : SUBSET Both]
        BY <3>1, UnderWay DEF AdmInv, TunnelOK
      <3>3. /\ tunnel' \in TunnelType /\ tunnel'.by = tunnel.by /\ tunnel'.id = tunnel.id
            /\ tunnel'.role = tunnel.role /\ tunnel'.ever = tunnel.ever
            /\ tunnel'.always = tunnel.always
        BY <2>2, <3>2 DEF TunnelType
      <3>4. tunnel.by.role # Admin
        BY <2>2 DEF NeedsNoList
      <3>5. \A t \in {tunnel'.by}, c \in {tunnel'.id}, role \in {tunnel'.role} :
              /\ Holding(t, c, role)' \subseteq tunnel'.ever
              /\ tunnel'.always \subseteq Holding(t, c, role)'
        BY <1>2, <3>1, <3>3 DEF AdmInv, TunnelOK, Watched
      <3> QED BY <1>1, <3>3, <3>4, <3>5 DEF TunnelOK, Watched
    <2> QED BY <1>5, <2>1, <2>2 DEF ConnRead
  <1>6. CASE ListRead
    BY <1>3, <1>6 DEF ListRead
  <1> QED BY <1>1, <1>4, <1>5, <1>6

-----------------------------------------------------------------------------
(* Accounts and connections under it.                                       *)

\* Whoever moves the directory has claims of a caller: its steps are steps of
\* Connections.
LEMMA DirectoryMovesSteps == ASSUME AdmInv, DirectoryMoves PROVE Next
  BY DEF DirectoryMoves, AdmInv, RosterOK, Next

\* Rows that are deleted take their permissions and memberships with them.
LEMMA CascadeKeeps == ASSUME Referential, Cascade PROVE Referential'
  <1>1. \A g \in grants : g \in [conn : DOMAIN conns, to : DOMAIN rows \cup Groups]
    BY DEF Referential
  <1>2. \A m \in members : m = <<m[1], m[2]>> /\ m[2] \in Groups
    BY DEF Referential
  <1>3. grants' \subseteq [conn : DOMAIN conns', to : DOMAIN rows' \cup Groups]
    <2> SUFFICES ASSUME NEW g \in grants'
                 PROVE  g \in [conn : DOMAIN conns', to : DOMAIN rows' \cup Groups]
      OBVIOUS
    <2>1. g \in grants /\ g.conn \in DOMAIN conns' /\ g.to \in DOMAIN rows' \cup Groups
      BY DEF Cascade
    <2> QED BY <1>1, <2>1
  <1>4. members' \subseteq (DOMAIN rows') \X Groups
    <2> SUFFICES ASSUME NEW m \in members' PROVE m \in (DOMAIN rows') \X Groups
      OBVIOUS
    <2>1. m \in members /\ m[1] \in DOMAIN rows'
      BY DEF Cascade
    <2> QED BY <1>2, <2>1
  <1> QED BY <1>3, <1>4 DEF Referential

\* A step of the roster keeps what is relied on.
LEMMA RosterKeeps == ASSUME RosterOK, R!RosterNext PROVE RosterOK'
  <1> USE DEF RosterOK
  <1>1. PICK id \in Users :
          \/ \E role \in Roles : R!Enroll(id, role) \/ R!Give(id, role) \/ R!Issue(id, role)
          \/ \E row \in R!Account : R!Write(id, row)
          \/ \E t \in tokens : R!Remove(t, id)
    BY DEF R!RosterNext
  <1>2. ASSUME NEW role \in Roles PROVE R!ClaimsOf(id, role) \in Callers
    BY AdmissionAssumption DEF R!ClaimsOf
  <1>3. ASSUME NEW role \in Roles, R!Enroll(id, role) PROVE RosterOK'
    BY <1>2, <1>3 DEF R!Enroll, R!Account
  <1>4. ASSUME NEW role \in Roles, R!Give(id, role) \/ R!Issue(id, role) PROVE RosterOK'
    BY <1>2, <1>4 DEF R!Give, R!Issue
  <1>5. ASSUME NEW row \in R!Account, R!Write(id, row) PROVE RosterOK'
    <2>1. row.role \in Roles
      BY DEF R!Account
    <2> QED BY <1>2, <1>5, <2>1 DEF R!Write, R!Put
  <1>6. ASSUME NEW t \in tokens, R!Remove(t, id) PROVE RosterOK'
    BY <1>6 DEF R!Remove
  <1> QED BY <1>1, <1>3, <1>4, <1>5, <1>6

\* A restart forgets the requests and answers nothing.
LEMMA RestartKeeps == ASSUME AdmInv, GatewayRestarts PROVE TunnelOK'
  <1>1. CASE Answered /\ tunnel' = tunnel
    BY <1>1 DEF AdmInv, TunnelOK, Watched, Answered
  <1>2. CASE tunnel' = NoTunnel
    BY <1>2 DEF NoTunnel, TunnelOK, TunnelType, Watched, Answered
  <1> QED BY <1>1, <1>2 DEF GatewayRestarts

\* Permissions and memberships are added for what exists.
LEMMA GrantsChangeKeeps == ASSUME AdmInv, GrantsChange PROVE Referential'
  <1> USE DEF AdmInv, Referential
  <1>1. UNCHANGED <<conns, rows>>
    BY DEF GrantsChange, vars, accounts
  <1>2. CASE \E c \in DOMAIN conns, to \in DOMAIN rows \cup Groups :
               grants' = grants \cup {[conn |-> c, to |-> to]} /\ UNCHANGED members
    BY <1>1, <1>2
  <1>3. CASE UNCHANGED members /\ \E g \in grants : grants' = grants \ {g}
    BY <1>1, <1>3
  <1>4. CASE /\ \E u \in DOMAIN rows, g \in Groups :
                  members' \in {members \cup {<<u, g>>}, members \ {<<u, g>>}}
             /\ UNCHANGED grants
    BY <1>1, <1>4
  <1> QED BY <1>2, <1>3, <1>4 DEF GrantsChange

LEMMA AdmInitInv == AdmInit => AdmInv
  <1> SUFFICES ASSUME AdmInit PROVE AdmInv
    OBVIOUS
  <1>1. Inv
    BY InitInv DEF AdmInit
  <1>2. RosterOK
    BY AdmissionAssumption DEF AdmInit, R!RosterInit, RosterOK, R!Account
  <1>3. Referential /\ TunnelOK
    BY DEF AdmInit, Referential, TunnelOK, TunnelType, NoTunnel, Watched, Answered
  <1> QED BY <1>1, <1>2, <1>3 DEF AdmInv

\* One step of the whole: the invariant is kept, and the directory takes a step
\* of its own or none.
LEMMA AdmStep == AdmInv /\ [AdmNext]_admVars => AdmInv' /\ [Next]_vars
  <1> SUFFICES ASSUME AdmInv, [AdmNext]_admVars PROVE AdmInv' /\ [Next]_vars
    OBVIOUS
  <1>1. ASSUME UNCHANGED accounts, RosterOK PROVE RosterOK'
    BY <1>1 DEF accounts, RosterOK
  <1>2. ASSUME UNCHANGED <<vars, accounts, grantVars>>, Referential PROVE Referential'
    BY <1>2 DEF vars, accounts, grantVars, Referential
  <1>3. ASSUME UNCHANGED vars, Inv PROVE Inv'
    BY <1>3, Step
  <1>4. CASE \/ \E t \in tokens, c \in Ids : UserRead(t, c)
             \/ ConnRead \/ ListRead
    BY <1>1, <1>2, <1>3, <1>4, ReadsKeep DEF AdmInv
  <1>5. CASE RosterMoves
    BY <1>3, <1>5, RosterKeeps, CascadeKeeps, WatchKeeps DEF RosterMoves, AdmInv
  <1>6. CASE DirectoryMoves
    <2>1. Next
      BY <1>6, DirectoryMovesSteps
    <2> QED BY <1>1, <1>6, <2>1, Step, CascadeKeeps, WatchKeeps DEF DirectoryMoves, AdmInv
  <1>7. CASE GrantsChange
    <2>1. UNCHANGED <<vars, accounts>> /\ Watch
      BY <1>7 DEF GrantsChange
    <2> QED BY <1>1, <1>3, <1>7, <2>1, GrantsChangeKeeps, WatchKeeps DEF AdmInv
  <1>8. CASE GatewayRestarts
    <2>1. Restart /\ UNCHANGED <<conns, accounts, grantVars>>
      BY <1>8 DEF GatewayRestarts, Restart
    <2>2. Next
      BY <2>1 DEF Next
    <2>3. Referential'
      BY <2>1 DEF AdmInv, Referential, accounts, grantVars
    <2> QED BY <1>1, <1>8, <2>1, <2>2, <2>3, Step, RestartKeeps DEF AdmInv
  <1>9. CASE UNCHANGED admVars
    <2>1. UNCHANGED <<vars, accounts, grantVars, tunnel>>
      BY <1>9 DEF admVars
    <2>2. TunnelOK'
      <3>1. \A t, c, role : Holding(t, c, role)' = Holding(t, c, role)
        BY <2>1, SameHolding
      <3> QED BY <2>1, <3>1 DEF AdmInv, TunnelOK, Watched, Answered
    <2> QED BY <1>1, <1>2, <1>3, <2>1, <2>2 DEF AdmInv
  <1> QED BY <1>4, <1>5, <1>6, <1>7, <1>8, <1>9 DEF AdmNext

LEMMA AdmInvariance == AdmSpec => []AdmInv
  BY AdmInitInv, AdmStep, PTL DEF AdmSpec

\* Types, and permissions and memberships that refer to what exists.
THEOREM AdmTypeCorrect == AdmSpec => []AdmTypeOK
  BY AdmInvariance, AdmInvGives, PTL

-----------------------------------------------------------------------------
(* What the directory promises holds in the whole as well.                  *)

\* The whole gateway drives the directory as Connections says: only callers
\* with claims that were handed out act on it.
LEMMA DirectoryInTheWhole == AdmSpec => Spec
  <1>1. AdmInit => Init
    BY DEF AdmInit
  <1> QED BY <1>1, AdmStep, AdmInvariance, PTL DEF AdmSpec, Spec

\* With accounts that come and go, a connection keeps its creator.
THEOREM OwnerKeptInTheWhole == AdmSpec => OwnerKept
  BY DirectoryInTheWhole, OwnerNeverChanges, PTL

\* With accounts that come and go, a stored secret changes only so as well.
THEOREM SecretFollowsInTheWhole == AdmSpec => SecretFollows
  BY DirectoryInTheWhole, SecretFollowsSaves, PTL

\* List and handlers agree: what fresh claims may open or change is listed.
THEOREM ListAgrees == AdmSpec => []ShownIsTrue
  <1>1. ShownIsTrue
    BY DEF ShownIsTrue, NeedsNoList, MayEdit, Listed
  <1> QED BY <1>1, PTL

-----------------------------------------------------------------------------
(* The answer.                                                              *)

Fits == /\ tunnel'.pc = "admitted" => tunnel.ever = Both
        /\ tunnel'.pc = "refused" => tunnel.always # Both

\* Whoever needs no list is on it.
LEMMA NoListIsListed ==
  ASSUME NEW t, NEW c \in DOMAIN conns, NEW role, NeedsNoList(t, conns[c])
  PROVE  t.role = Admin \/ c \in Listed(t.id, role)
  BY DEF NeedsNoList, Listed

\* Only the request's own reads answer it.
LEMMA OthersDoNotAnswer == ASSUME TunnelOK, ~Answered, Watch PROVE tunnel'.pc = tunnel.pc
  <1>1. tunnel \in [pc : {"conn", "list"}, by : Callers, id : Ids, role : Roles,
                    ever : SUBSET Both, always : SUBSET Both]
    BY UnderWay DEF TunnelOK
  <1>2. PICK ever, always : tunnel' = [tunnel EXCEPT !.ever = ever, !.always = always]
    BY DEF Watch
  <1> QED BY <1>1, <1>2

\* An answer fits what was read: at each moment one of the reads decides.
LEMMA AnswerFits == ASSUME AdmInv, AdmNext, ~Answered PROVE Fits
  <1>1. tunnel \in [pc : {"conn", "list"}, by : Callers, id : Ids, role : Roles,
                    ever : SUBSET Both, always : SUBSET Both]
    BY UnderWay DEF AdmInv, TunnelOK
  <1> DEFINE t == tunnel.by
             c == tunnel.id
             now == Holding(t, c, tunnel.role)
  <1>2. /\ now \subseteq tunnel.ever /\ tunnel.always \subseteq now
        /\ tunnel.ever \subseteq Both
        /\ tunnel.pc = "list" => t.role # Admin
    BY <1>1 DEF AdmInv, TunnelOK, Watched
  <1>3. "connection" \in now <=> c \in DOMAIN conns
    BY DEF Holding, Both
  <1>4. "right" \in now <=> t.role = Admin \/ c \in Listed(t.id, tunnel.role)
    BY DEF Holding, Both
  <1> HIDE DEF t, c, now
  <1>5. ASSUME "connection" \in now, "right" \in now, Answer("admitted") PROVE Fits
    <2>1. tunnel.ever = Both
      BY <1>2, <1>5 DEF Both
    <2> QED BY <1>5, <2>1 DEF Answer, Fits
  <1>6. ASSUME ~({"connection", "right"} \subseteq now), Answer("refused") PROVE Fits
    <2>1. tunnel.always # Both
      BY <1>2, <1>6 DEF Both
    <2> QED BY <1>6, <2>1 DEF Answer, Fits
  <1>7. CASE ConnRead
    <2>1. CASE c \notin DOMAIN conns
      <3>1. Answer("refused")
        BY <1>7, <2>1 DEF ConnRead, c
      <3> QED BY <1>3, <1>6, <2>1, <3>1
    <2>2. CASE c \in DOMAIN conns /\ NeedsNoList(t, conns[c])
      <3>1. Answer("admitted")
        BY <1>7, <2>2 DEF ConnRead, t, c
      <3>2. t.role = Admin \/ c \in Listed(t.id, tunnel.role)
        BY <2>2, NoListIsListed
      <3> QED BY <1>3, <1>4, <1>5, <2>2, <3>1, <3>2
    <2>3. CASE c \in DOMAIN conns /\ ~NeedsNoList(t, conns[c])
      <3>1. tunnel' = [tunnel EXCEPT !.pc = "list"]
        BY <1>7, <2>3 DEF ConnRead, t, c
      <3> QED BY <1>1, <3>1 DEF Fits
    <2> QED BY <2>1, <2>2, <2>3
  <1>8. CASE ListRead
    <2>1. tunnel.pc = "list"
      BY <1>8 DEF ListRead
    <2>2. CASE c \in Listed(t.id, tunnel.role)
      <3>1. Answer("admitted")
        BY <1>8, <2>2 DEF ListRead, t, c
      <3>2. c \in DOMAIN conns
        BY <2>2 DEF Listed
      <3> QED BY <1>3, <1>4, <1>5, <2>2, <3>1, <3>2
    <2>3. CASE c \notin Listed(t.id, tunnel.role)
      <3>1. Answer("refused")
        BY <1>8, <2>3 DEF ListRead, t, c
      <3> QED BY <1>2, <1>4, <1>6, <2>1, <2>3, <3>1
    <2> QED BY <2>2, <2>3
  <1>9. CASE RosterMoves \/ DirectoryMoves \/ GrantsChange
    <2>1. Watch
      BY <1>9 DEF RosterMoves, DirectoryMoves, GrantsChange
    <2> QED BY <1>1, <2>1, OthersDoNotAnswer DEF AdmInv, Fits
  <1>10. CASE GatewayRestarts
    <2>1. tunnel'.pc = "none"
      BY <1>10 DEF GatewayRestarts, NoTunnel
    <2> QED BY <2>1 DEF Fits
  <1>11. ASSUME NEW u \in tokens, NEW i \in Ids, UserRead(u, i) PROVE FALSE
    BY <1>11 DEF UserRead
  <1> QED BY <1>7, <1>8, <1>9, <1>10, <1>11 DEF AdmNext

\* Whatever changes between the reads of a tunnel request, it is admitted only
\* with a connection and a right that were there during it, and refused only if
\* one of them was missing at some moment of it.
THEOREM AnsweredWithinRequest == AdmSpec => AnswerWithinRequest
  <1>1. AdmInv /\ [AdmNext]_admVars =>
          [~Answered => /\ tunnel'.pc = "admitted" => tunnel.ever = Both
                        /\ tunnel'.pc = "refused" => tunnel.always # Both]_admVars
    BY AnswerFits DEF Fits
  <1> QED BY <1>1, AdmInvariance, PTL DEF AdmSpec, AnswerWithinRequest

-----------------------------------------------------------------------------
(* Who sees what.                                                           *)

\* Somebody with a role other than the administrator's sees what is his, what
\* is shared, and what was given to him or his group.
HasGrant(u, c) == \E g \in GrantsTo(u) : g.conn = c

LEMMA ListedOthers ==
  ASSUME NEW u, NEW c
  PROVE  /\ c \in Listed(u, Operator) <=>
              c \in DOMAIN conns /\ (conns[c].global \/ conns[c].owner = u \/ HasGrant(u, c))
         /\ c \in Listed(u, Operator)' <=>
              c \in DOMAIN conns' /\ (conns'[c].global \/ conns'[c].owner = u \/ HasGrant(u, c)')
  BY AdmissionAssumption DEF Listed, HasGrant

\* The change of a list is accounted for.
Follows(u) ==
  LET saw  == Listed(u, Operator)
      sees == Listed(u, Operator)'
      handed(c) == c \in DOMAIN conns /\ grantVars' # grantVars /\ UNCHANGED conns
  IN saw # sees =>
       /\ \A c \in sees \ saw : conns'[c].owner = u \/ conns'[c].global \/ handed(c)
       /\ \A c \in (saw \ sees) \cap DOMAIN conns' :
            (conns[c].global /\ ~conns'[c].global) \/ handed(c)

\* What a deletion takes with it concerns neither an account nor a connection
\* that stays.
LEMMA CascadeSpares ==
  ASSUME Referential, Cascade, NEW u \in DOMAIN rows, u \in DOMAIN rows',
         NEW c, c \in DOMAIN conns'
  PROVE  HasGrant(u, c)' <=> HasGrant(u, c)
  <1>1. \A g \in grants : g \in [conn : DOMAIN conns, to : DOMAIN rows \cup Groups]
    BY DEF Referential
  <1>2. \A m \in members : m = <<m[1], m[2]>> /\ m[2] \in Groups
    BY DEF Referential
  <1>3. ASSUME NEW g, g.conn = c, g \in grants PROVE g \in GrantsTo(u) <=> g \in GrantsTo(u)'
    <2>1. <<u, g.to>> \in members <=> <<u, g.to>> \in members'
      BY DEF Cascade
    <2>2. g.to = u \/ <<u, g.to>> \in members => g \in grants'
      BY <1>2, <1>3 DEF Cascade
    <2> QED BY <1>3, <2>1, <2>2 DEF GrantsTo, Cascade
  <1>4. ASSUME NEW g, g \in GrantsTo(u) \/ g \in GrantsTo(u)' PROVE g \in grants
    BY <1>4 DEF GrantsTo, Cascade
  <1> QED BY <1>3, <1>4 DEF HasGrant

\* A list changes only by a step of the directory or of the grants.
LEMMA ListStays ==
  ASSUME NEW u, UNCHANGED conns, \A c \in DOMAIN conns : HasGrant(u, c)' <=> HasGrant(u, c)
  PROVE  Listed(u, Operator)' = Listed(u, Operator)
  <1>1. \A c : c \in Listed(u, Operator)' <=> c \in Listed(u, Operator)
    BY ListedOthers
  <1>2. Listed(u, Operator) \subseteq DOMAIN conns /\ Listed(u, Operator)' \subseteq DOMAIN conns'
    BY DEF Listed
  <1> QED BY <1>1, <1>2

\* Every step, for an account that stays.
LEMMA StepFollows ==
  ASSUME AdmInv, AdmNext, NEW u \in DOMAIN rows, u \in DOMAIN rows'
  PROVE  Follows(u)
  <1>1. ASSUME Listed(u, Operator)' = Listed(u, Operator) PROVE Follows(u)
    BY <1>1 DEF Follows
  <1>2. ASSUME UNCHANGED <<conns, grantVars>> PROVE Follows(u)
    <2>1. \A c : HasGrant(u, c)' <=> HasGrant(u, c)
      BY <1>2 DEF HasGrant, GrantsTo, grantVars
    <2> QED BY <1>1, <1>2, <2>1, ListStays
  <1>3. CASE RosterMoves
    <2>1. UNCHANGED conns /\ Cascade
      BY <1>3 DEF RosterMoves, vars
    <2>2. \A c \in DOMAIN conns : HasGrant(u, c)' <=> HasGrant(u, c)
      BY <2>1, CascadeSpares DEF AdmInv
    <2> QED BY <1>1, <2>1, <2>2, ListStays
  <1>4. CASE DirectoryMoves
    <2>1. Steady /\ Cascade
      BY <1>4, DirectoryMovesSteps, Step DEF AdmInv, DirectoryMoves
    <2>2. \A c \in DOMAIN conns' : HasGrant(u, c)' <=> HasGrant(u, c)
      BY <2>1, CascadeSpares DEF AdmInv
    <2>3. \A c \in DOMAIN conns' : HasGrant(u, c) => c \in DOMAIN conns
      BY DEF HasGrant, GrantsTo, AdmInv, Referential
    <2>4. \A c \in Listed(u, Operator)' \ Listed(u, Operator) :
            conns'[c].owner = u \/ conns'[c].global
      BY <2>2, <2>3, ListedOthers
    <2>5. \A c \in (Listed(u, Operator) \ Listed(u, Operator)') \cap DOMAIN conns' :
            conns[c].global /\ ~conns'[c].global
      BY <2>1, <2>2, ListedOthers DEF Steady, Staying
    <2> QED BY <2>4, <2>5 DEF Follows
  <1>5. CASE GrantsChange
    <2>1. UNCHANGED conns
      BY <1>5 DEF GrantsChange, vars
    <2>2. CASE grantVars' = grantVars
      BY <1>2, <2>1, <2>2
    <2>3. CASE grantVars' # grantVars
      <3>1. \A c \in Listed(u, Operator) \cup Listed(u, Operator)' : c \in DOMAIN conns
        BY <2>1, ListedOthers
      <3> QED BY <2>1, <2>3, <3>1 DEF Follows
    <2> QED BY <2>2, <2>3
  <1>6. CASE \/ \E t \in tokens, c \in Ids : UserRead(t, c)
             \/ ConnRead \/ ListRead
    <2>1. UNCHANGED <<conns, grantVars>>
      BY <1>6 DEF UserRead, ConnRead, ListRead, vars
    <2> QED BY <1>2, <2>1
  <1>7. CASE GatewayRestarts
    BY <1>2, <1>7 DEF GatewayRestarts, Restart
  <1> QED BY <1>3, <1>4, <1>5, <1>6, <1>7 DEF AdmNext

\* What somebody sees changes only as somebody entitled to it made it change:
\* however deletions, late saves and changes of accounts interleave.
THEOREM SightFollowsRights == AdmSpec => RightsFollow
  <1>1. AdmInv /\ [AdmNext]_admVars => [\A u \in DOMAIN rows \cap DOMAIN rows' : Follows(u)]_admVars
    BY StepFollows
  <1> QED BY <1>1, AdmInvariance, PTL DEF AdmSpec, RightsFollow, Follows
=============================================================================
