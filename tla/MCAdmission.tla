----------------------------- MODULE MCAdmission -----------------------------
(* Small instances of Admission: every pair of an account and a role is     *)
(* somebody's claims.                                                       *)
EXTENDS Admission, TLC

AllClaims == [id : Users, role : Roles]

\* The secrets in the table or in a save under way.
InUse == Secrets \cap ({conns[i].secret : i \in DOMAIN conns}
                      \cup {req[s].row.secret : s \in {u \in Slots : req[u].pc = "save"}})

\* Bounds of the run: few tokens, then a changed role or a member of a group;
\* one tunnel request is answered, which leaves nothing behind. It reads no
\* secret: while it is under way no row has one.
FewTokens == /\ Cardinality(tokens) <= 2
             /\ Cardinality(given) + Cardinality(members) <= 3
             /\ tunnel.pc \notin {"admitted", "refused"}
             /\ tunnel.pc # "none" => InUse = {}

Symmetric == Permutations(Users) \cup Permutations(Secrets)
=============================================================================
