------------------------------ MODULE MCCamera ------------------------------
(* Instances of Camera for TLC: the constants are numbers. *)
EXTENDS Camera
=============================================================================
