------------------------------- MODULE Roster -------------------------------
(* What the accounts promise to whoever relies on them: an id is given to   *)
(* one account only, accounts and tokens have no role that was not given to *)
(* them, an account that has gone does not come back, and it goes only by   *)
(* the claims of an administrator who is somebody else. Accounts implements *)
(* it; Admission composes it with the connections in place of Accounts.     *)
CONSTANTS Users, Roles, Admin

VARIABLES rows,    \* the accounts that exist, with role and enabled flag
          used,    \* every id an account ever had
          given,   \* the roles each account was ever given
          tokens   \* the claims handed out

rosterVars == <<rows, used, given, tokens>>

Account == [role : Roles, active : BOOLEAN]
ClaimsOf(id, role) == [id |-> id, role |-> role]

\* The first administrator.
RosterInit == \E id \in Users : /\ rows = [i \in {id} |-> [role |-> Admin, active |-> TRUE]]
                                /\ used = {id} /\ given = {<<id, Admin>>} /\ tokens = {}

\* An account is created under a new id; it may be logged in at once.
Enroll(id, role) ==
  /\ id \notin used
  /\ rows' = [i \in DOMAIN rows \cup {id} |->
                IF i = id THEN [role |-> role, active |-> TRUE] ELSE rows[i]]
  /\ used' = used \cup {id} /\ given' = given \cup {<<id, role>>}
  /\ tokens' \in {tokens, tokens \cup {ClaimsOf(id, role)}}

\* A role is given; when it is written into the row is another matter.
Give(id, role) == /\ id \in DOMAIN rows
                  /\ given' = given \cup {<<id, role>>} /\ UNCHANGED <<rows, used, tokens>>

\* An existing account gets a role that it was given, now or in the past.
Put(id, row) == /\ id \in DOMAIN rows /\ <<id, row.role>> \in given
                /\ rows' = [rows EXCEPT ![id] = row]

\* A login may come with it.
Write(id, row) == /\ Put(id, row)
                  /\ tokens' \in {tokens, tokens \cup {ClaimsOf(id, row.role)}}
                  /\ UNCHANGED <<used, given>>

\* Claims carry a role the account was given, even if the account has gone.
Issue(id, role) == /\ <<id, role>> \in given
                   /\ tokens' = tokens \cup {ClaimsOf(id, role)}
                   /\ UNCHANGED <<rows, used, given>>

Remove(t, id) == /\ t \in tokens /\ t.role = Admin /\ t.id # id /\ id \in DOMAIN rows
                 /\ rows' = [i \in DOMAIN rows \ {id} |-> rows[i]]
                 /\ UNCHANGED <<used, given, tokens>>

RosterNext == \E id \in Users :
                \/ \E role \in Roles : Enroll(id, role) \/ Give(id, role) \/ Issue(id, role)
                \/ \E row \in Account : Write(id, row)
                \/ \E t \in tokens : Remove(t, id)

RosterSpec == RosterInit /\ [][RosterNext]_rosterVars
=============================================================================
