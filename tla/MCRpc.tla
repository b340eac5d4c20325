------------------------------- MODULE MCRpc --------------------------------
(* Instances of Rpc for TLC. *)
EXTENDS Rpc, TLC
CONSTANTS c1, c2
Two == {c1, c2}
Symmetry == Permutations(Two)
=============================================================================
