------------------------------ MODULE Admission ------------------------------
(* Who may open a tunnel: ws_tunnel_handler (server/mod.rs) with the        *)
(* permission query list_connections_for_user (db/mod.rs), over the         *)
(* connections (Connections) and the accounts (Roster, which Accounts       *)
(* implements). The handler reads the account, then the connection, then    *)
(* the permissions; accounts and connections change between these reads.    *)
(* connection_permissions and user_groups are only read by the program:     *)
(* their rows come from outside and go with what they refer to.             *)
EXTENDS Connections, Naturals

CONSTANTS Users,     \* account ids
          Roles,
          Groups,
          MaxGrants  \* bound: rows of connection_permissions

ASSUME AdmissionAssumption ==
  /\ Callers = [id : Users, role : Roles] /\ {Admin, Operator} \subseteq Roles
  /\ Admin # Operator
  /\ Users \cap Groups = {} /\ None \notin Users

VARIABLES rows, used, given, tokens,  \* the accounts, see Roster
          grants,   \* connection_permissions: a connection, and a user or a group
          members,  \* user_groups
          tunnel       \* a tunnel request: what it has read, and what it was answered

R == INSTANCE Roster

accounts == <<rows, used, given, tokens>>
grantVars == <<grants, members>>
admVars == <<vars, accounts, grantVars, tunnel>>

NoTunnel == [pc |-> "none"]

-----------------------------------------------------------------------------
(* list_connections_for_user, for an account read as having `role`.         *)

GrantsTo(u) == {g \in grants : g.to = u \/ <<u, g.to>> \in members}

ListedWithoutGlobal(u, role) ==  \* mutant: no "OR (is_global = 1)"
  {c \in DOMAIN conns : \/ role = Admin \/ conns[c].owner = u
                        \/ \E g \in GrantsTo(u) : g.conn = c}

\* The connections it returns. can_connect is set on every one of them.
Listed(u, role) ==
  {c \in DOMAIN conns : \/ role = Admin \/ conns[c].global \/ conns[c].owner = u
                        \/ \E g \in GrantsTo(u) : g.conn = c}

NeedsAnyRole(t, row) ==  \* mutant: whoever may create connections may open them
  t.role \in {Admin, Operator} \/ row.owner = t.id \/ row.global

\* Who need not be on the list: by his claims or by the row that was read.
NeedsNoList(t, row) == t.role = Admin \/ row.owner = t.id \/ row.global

-----------------------------------------------------------------------------
(* ws_tunnel_handler, one action per read. `ever` and `always` are history: *)
(* which of the two conditions held at some, at every moment so far.       *)

Both == {"connection", "right"}

Holding(t, c, role) ==
  {k \in Both :
     \/ k = "connection" /\ c \in DOMAIN conns
     \/ k = "right" /\ (t.role = Admin \/ c \in Listed(t.id, role))}

Answered == tunnel.pc \in {"none", "admitted", "refused"}
Answer(pc) == tunnel' = [pc |-> pc]

\* The account named by the claims must exist and be enabled.
UserRead(t, c) ==
  /\ Answered /\ t \in tokens
  /\ IF t.id \in DOMAIN rows /\ rows[t.id].active
     THEN LET now == Holding(t, c, rows[t.id].role)
          IN tunnel' = [pc |-> "conn", by |-> t, id |-> c, role |-> rows[t.id].role,
                        ever |-> now, always |-> now]
     ELSE Answer("refused")
  /\ UNCHANGED <<vars, accounts, grantVars>>

ConnRead ==
  /\ tunnel.pc = "conn"
  /\ IF tunnel.id \notin DOMAIN conns THEN Answer("refused")
     ELSE IF NeedsNoList(tunnel.by, conns[tunnel.id]) THEN Answer("admitted")
     ELSE tunnel' = [tunnel EXCEPT !.pc = "list"]
  /\ UNCHANGED <<vars, accounts, grantVars>>

ListRead ==
  /\ tunnel.pc = "list"
  /\ Answer(IF tunnel.id \in Listed(tunnel.by.id, tunnel.role) THEN "admitted" ELSE "refused")
  /\ UNCHANGED <<vars, accounts, grantVars>>

-----------------------------------------------------------------------------
(* The others.                                                              *)

\* A request under way sees what the others make of the tables.
Watch ==
  \/ Answered /\ UNCHANGED tunnel
  \/ /\ ~Answered
     /\ \E t \in {tunnel.by}, c \in {tunnel.id}, role \in {tunnel.role} :
          tunnel' = [tunnel EXCEPT !.ever   = @ \cup Holding(t, c, role)',
                                   !.always = @ \cap Holding(t, c, role)']

GrantsForgetConnections ==  \* mutant: foreign keys are not enforced
  /\ UNCHANGED members
  /\ grants' = {g \in grants : g.to \in DOMAIN rows' \cup Groups}

\* REFERENCES ... ON DELETE CASCADE: permissions and memberships go with the
\* connection or account they refer to, and with nothing else.
Cascade ==
  /\ grants' = {g \in grants : g.conn \in DOMAIN conns' /\ g.to \in DOMAIN rows' \cup Groups}
  /\ members' = {m \in members : m[1] \in DOMAIN rows'}

\* Accounts, and connections by whoever has claims.
RosterMoves == R!RosterNext /\ UNCHANGED vars /\ Cascade /\ Watch
DirectoryMoves ==
  /\ \/ \E t \in tokens, c \in Ids :
          \/ \E a \in Asks : Create(t, c, a)
          \/ \E s \in Slots : DelRead(s, t, c) \/ \E a \in Asks : UpdRead(s, t, c, a)
     \/ \E s \in Slots : UpdSave(s) \/ DelWrite(s)
  /\ UNCHANGED accounts /\ Cascade /\ Watch

\* Rows that somebody with access to the database adds and removes.
GrantsChange ==
  /\ \/ /\ Cardinality(grants) < MaxGrants
        /\ \E c \in DOMAIN conns, to \in DOMAIN rows \cup Groups :
             grants' = grants \cup {[conn |-> c, to |-> to]}
        /\ UNCHANGED members
     \/ /\ \E g \in grants : grants' = grants \ {g}
        /\ UNCHANGED members
     \/ /\ \E u \in DOMAIN rows, g \in Groups :
             members' \in {members \cup {<<u, g>>}, members \ {<<u, g>>}}
        /\ UNCHANGED grants
  /\ UNCHANGED <<vars, accounts>> /\ Watch

\* The process stops and starts again: a request under way gets no answer.
GatewayRestarts == /\ Restart /\ tunnel' = IF Answered THEN tunnel ELSE NoTunnel
                   /\ UNCHANGED <<accounts, grantVars>>

AdmInit == /\ R!RosterInit /\ Init
           /\ \A c \in DOMAIN conns : conns[c].owner \in DOMAIN rows
           /\ grants = {} /\ members = {} /\ tunnel = NoTunnel

AdmNext == \/ \E t \in tokens, c \in Ids : UserRead(t, c)
           \/ ConnRead \/ ListRead
           \/ RosterMoves \/ DirectoryMoves \/ GrantsChange \/ GatewayRestarts

AdmSpec == AdmInit /\ [][AdmNext]_admVars

-----------------------------------------------------------------------------
(* Properties.                                                              *)

TunnelType ==
  [pc : {"none", "admitted", "refused"}] \cup
  [pc : {"conn", "list"}, by : Callers, id : Ids, role : Roles,
   ever : SUBSET Both, always : SUBSET Both]

\* Type invariant: permissions and memberships refer to what exists.
AdmTypeOK ==
  /\ TypeOK
  /\ DOMAIN rows \subseteq used /\ used \subseteq Users
  /\ \A u \in DOMAIN rows : rows[u] \in R!Account
  /\ given \subseteq Users \X Roles /\ tokens \subseteq Callers
  /\ grants \subseteq [conn : DOMAIN conns, to : DOMAIN rows \cup Groups]
  /\ members \subseteq (DOMAIN rows) \X Groups
  /\ tunnel \in TunnelType

\* Whatever changes between the three reads of a tunnel request: it is admitted
\* only if the connection was there and the right to it was held, each at some
\* moment of the request (though not at the same one); and once the account has
\* been found enabled it is refused only if one of them was missing at some
\* moment (server/mod.rs:1273-1327).
AnswerWithinRequest ==
  [][~Answered =>
       /\ tunnel'.pc = "admitted" => tunnel.ever = Both
       /\ tunnel'.pc = "refused" => tunnel.always # Both]_admVars

\* Somebody who is no administrator comes to see a connection only because he
\* made it, it is shared with all, or somebody gave it to him or to his group;
\* a connection deleted and made again, or saved late, brings no old permission
\* back. And he ceases to see it only if his permission is taken, or the
\* connection is no longer shared ("isolated to the creator's workspace",
\* ROADMAP.md:56): whoever saves it, no other save does it.
RightsFollow ==
  [][\A u \in DOMAIN rows \cap DOMAIN rows' :
       LET saw  == Listed(u, Operator)
           sees == Listed(u, Operator)'
           handed(c) == c \in DOMAIN conns /\ grantVars' # grantVars /\ UNCHANGED conns
       IN saw # sees =>
            /\ \A c \in sees \ saw : conns'[c].owner = u \/ conns'[c].global \/ handed(c)
            /\ \A c \in (saw \ sees) \cap DOMAIN conns' :
                 (conns[c].global /\ ~conns'[c].global) \/ handed(c)]_admVars

\* The list and the handlers agree: with claims as fresh as the account, what
\* may be opened or changed is on the list (db/mod.rs:560 against
\* server/mod.rs:1312 and :817).
ShownIsTrue ==
  \A t \in tokens, c \in DOMAIN conns :
    t.id \in DOMAIN rows /\ rows[t.id].role = t.role =>
      (NeedsNoList(t, conns[c]) \/ MayEdit(t, conns[c]) => c \in Listed(t.id, t.role))
=============================================================================
