--------------------------- MODULE RegionGeometry ---------------------------
(* The index arithmetic of fabric/src/region.cpp.  A region of width x       *)
(* height pixels is cut into unitsx x unitsy units; every unit keeps its     *)
(* pixels in a flat vector of uwidth * uheight inputs.  Region::write        *)
(* scatters a row-major image over the units and Region::reform gathers one  *)
(* back, each with formulas of its own; this module states both.             *)
EXTENDS Integers

CONSTANTS unitsx, unitsy,    \* units per row and per column of the region
          uwidth, uheight    \* pixels per row and per column of a unit

\* The asserts of the constructor (width % unitsx == 0, height % unitsy == 0)
\* make width and height the products below.
ASSUME GeometryAssumption ==
  /\ unitsx \in Nat \ {0} /\ unitsy \in Nat \ {0}
  /\ uwidth \in Nat \ {0} /\ uheight \in Nat \ {0}

width   == unitsx * uwidth
height  == unitsy * uheight
outsize == uwidth * uheight

Columns == 0 .. unitsx - 1
Rows    == 0 .. unitsy - 1
Units   == Columns \X Rows
Inputs  == 0 .. outsize - 1
Outputs == 0 .. outsize - 1
Pixels  == 0 .. width * height - 1

-----------------------------------------------------------------------------
(* The order of nested for loops: an iteration is the tuple of its loop      *)
(* variables, outermost first, and iterations run in lexicographic order.    *)

Before(c, d) == \E n \in DOMAIN c : /\ c[n] < d[n]
                                    /\ \A m \in 1 .. n - 1 : c[m] = d[m]

\* c is the next iteration of a loop that still has the iterations todo.
Upcoming(c, todo) == \A d \in todo \ {c} : Before(c, d)

-----------------------------------------------------------------------------
(* Region::write: iteration <<x, y, xx, yy>> copies pixel WritePixel of the  *)
(* message to input WriteInput of unit <<x, y>>.                             *)

Cells == Columns \X Rows \X (0 .. uwidth - 1) \X (0 .. uheight - 1)

WriteUnit(c)  == <<c[1], c[2]>>
\* Mutant: one row too far.
WritePixel_NextRow(c) == c[1] * uwidth + c[3] + (c[2] * uheight + c[4] + 1) * width
WritePixel(c) == c[1] * uwidth + c[3] + (c[2] * uheight + c[4]) * width
WriteInput(c) == c[3] + c[4] * uwidth

(* Region::reform: pixel i of the reply is computed from input ReformInput   *)
(* of unit ReformUnit.                                                       *)

ReformUnit(i)  == LET x == i % width
                      y == i \div width
                  IN  <<x \div uwidth, y \div uheight>>
\* Mutant: the row within the unit is taken modulo the width.
ReformInput_Wraps(i) == LET ox == (i % width) % uwidth
                            oy == (i \div width) % uwidth
                        IN  oy * uwidth + ox
ReformInput(i) == LET ox == (i % width) % uwidth
                      oy == (i \div width) % uheight
                  IN  oy * uwidth + ox
=============================================================================
