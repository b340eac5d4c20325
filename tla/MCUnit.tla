------------------------------- MODULE MCUnit -------------------------------
(* Instances of Unit for TLC. *)
EXTENDS Unit

\* Links reach their own input fully and the next a little.
Narrow(d) == IF d = 0 THEN ONE ELSE IF d = 1 THEN 3 ELSE 0

\* Nothing, a faint, a half and a full input in every combination.
Frames == [Inputs -> {0, 2, 5, ONE}]
=============================================================================
