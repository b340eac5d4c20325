------------------------------ MODULE MCRegion ------------------------------
(* Instances of Region for TLC. *)
EXTENDS Region, TLC
CONSTANTS w1, w2
Team  == {w1, w2}
Alone == {w1}
Symmetry == Permutations(Team)
=============================================================================
