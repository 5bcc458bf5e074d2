---------------------------- MODULE MCTransfers ----------------------------
(* A small instance of Transfers: an empty file and one of two blocks, both *)
(* with the same name.                                                      *)
EXTENDS Transfers, TLC

CONSTANTS long, short, name

OneName == (long :> name) @@ (short :> name)
Blocks == (long :> 2) @@ (short :> 0)
OneOrTwo == {<<long>>, <<short>>, <<short, long>>}

Symmetric == Permutations(Conns) \cup Permutations(Ids) \cup Permutations(Pushes)
             \cup Permutations(Lists)
=============================================================================
