----------------------------- MODULE MCAccounts -----------------------------
(* Small instances of Accounts: two names that differ in more than case.    *)
EXTENDS Accounts, TLC

CONSTANTS chief, ann

TwoNames == {chief, ann}
FoldTwo == (chief :> chief) @@ (ann :> ann)

Ask(name, role, active) == [name |-> name, role |-> role, active |-> active]

\* One update of each kind.
OneOfEach == {Ask(None, None, None), Ask(None, None, FALSE), Ask(None, None, TRUE),
              Ask(None, Admin, None), Ask(None, DefaultRole, None),
              Ask(ann, None, None)}

\* Bounds of the runs: few tokens, few changes of role.
FewTokens == Cardinality(tokens) <= 2 /\ Cardinality(granted) <= 3

Symmetric == Permutations(Ids) \cup Permutations(Slots)
=============================================================================
