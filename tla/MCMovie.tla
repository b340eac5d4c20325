------------------------------ MODULE MCMovie -------------------------------
(* Instances of Movie for TLC: the constants are numbers. *)
EXTENDS Movie
=============================================================================
