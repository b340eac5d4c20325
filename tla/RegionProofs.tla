---------------------------- MODULE RegionProofs ----------------------------
(* Invariants of Region, and how old the values are that its threads read    *)
(* from each other, for every region size, team of workers, number of frames *)
(* and number of passes.                                                     *)
EXTENDS Region, TLAPS

-----------------------------------------------------------------------------
(* The scatter of Region::write and the gather of Region::reform are inverse *)
(* for every region size.                                                    *)

(* A row-major index is within the rows times the columns. *)
LEMMA MulBound ==
  ASSUME NEW m \in Nat \ {0}, NEW n \in Nat \ {0}, NEW q \in 0 .. n - 1, NEW r \in 0 .. m - 1
  PROVE  q * m + r \in 0 .. n * m - 1
<1>1. (n - 1 - q) * m >= 0
  BY SMT
<1>2. (n - 1 - q) * m = n * m - m - q * m
  BY SMT
<1>3. q * m >= 0 /\ q * m \in Int /\ n * m \in Int
  BY SMT
<1> QED
  BY <1>1, <1>2, <1>3, SMT

(* Division undoes the row-major pairing of a quotient and a remainder. *)
LEMMA DivMod ==
  ASSUME NEW m \in Nat \ {0}, NEW q \in Nat, NEW r \in 0 .. m - 1
  PROVE  /\ (q * m + r) \div m = q
         /\ (q * m + r) % m = r
<1> QED
  BY SMT

(* Every index below n * m is the pairing of its quotient and remainder. *)
LEMMA DivModBound ==
  ASSUME NEW m \in Nat \ {0}, NEW n \in Nat \ {0}, NEW i \in 0 .. n * m - 1
  PROVE  /\ i \div m \in 0 .. n - 1
         /\ i % m \in 0 .. m - 1
         /\ i = (i \div m) * m + (i % m)
<1> DEFINE q == i \div m
<1>0. n * m \in Int /\ i \in Int /\ i >= 0 /\ i < n * m
  BY SMT
<1>1. q \in Int /\ i % m \in 0 .. m - 1 /\ i = q * m + (i % m)
  BY <1>0, SMT
<1>2. q >= 0
  BY <1>0, SMT
<1>3. q < n
  <2> SUFFICES ASSUME q >= n PROVE FALSE
    BY <1>1, SMT
  <2>1. (q - n) * m >= 0
    BY <1>1, SMT
  <2>2. (q - n) * m = q * m - n * m
    BY <1>1, SMT
  <2> QED
    BY <1>0, <1>1, <2>1, <2>2, SMT
<1> QED
  BY <1>1, <1>2, <1>3, SMT

(* The derived sizes are positive. *)
LEMMA Sizes ==
  /\ width \in Nat \ {0} /\ height \in Nat \ {0} /\ outsize \in Nat \ {0}
<1> QED
  BY GeometryAssumption, SMT DEF width, height, outsize

(* Iterations of write stay inside the region, the message and the unit. *)
LEMMA WriteInRange ==
  ASSUME NEW c \in Cells
  PROVE  /\ WriteUnit(c) \in Units
         /\ WriteInput(c) \in Inputs
         /\ WritePixel(c) \in Pixels
<1>0. /\ c[1] \in Columns /\ c[2] \in Rows
      /\ c[3] \in 0 .. uwidth - 1 /\ c[4] \in 0 .. uheight - 1
  BY DEF Cells
<1>1. c[1] * uwidth + c[3] \in 0 .. width - 1
  BY <1>0, MulBound, GeometryAssumption DEF width, Columns
<1>2. c[2] * uheight + c[4] \in 0 .. height - 1
  BY <1>0, MulBound, GeometryAssumption DEF height, Rows
<1>3. (c[2] * uheight + c[4]) * width + (c[1] * uwidth + c[3]) \in 0 .. height * width - 1
  BY <1>1, <1>2, MulBound, Sizes
<1>4. WritePixel(c) \in Pixels
  <2>1. (c[2] * uheight + c[4]) * width \in Int /\ c[1] * uwidth \in Int /\ c[3] \in Int
    BY <1>0, <1>2, Sizes, GeometryAssumption, SMT DEF Columns
  <2>2. height * width = width * height
    BY Sizes, SMT
  <2>3. WritePixel(c) = (c[2] * uheight + c[4]) * width + (c[1] * uwidth + c[3])
    BY <2>1, SMT DEF WritePixel
  <2> QED
    BY <1>3, <2>2, <2>3 DEF Pixels
<1>5. WriteInput(c) \in Inputs
  <2>1. c[4] * uwidth + c[3] \in 0 .. uheight * uwidth - 1
    BY <1>0, MulBound, GeometryAssumption
  <2>2. WriteInput(c) = c[4] * uwidth + c[3] /\ uheight * uwidth = outsize
    BY <1>0, GeometryAssumption, SMT DEF WriteInput, outsize
  <2> QED
    BY <2>1, <2>2 DEF Inputs
<1> QED
  BY <1>0, <1>4, <1>5 DEF WriteUnit, Units

(* reform looks for a pixel exactly where write put it (region.cpp:94-95 and *)
(* 144-150), for every size of region and unit.                              *)
THEOREM GatherInvertsScatter ==
  ASSUME NEW c \in Cells
  PROVE  /\ ReformUnit(WritePixel(c)) = WriteUnit(c)
         /\ ReformInput(WritePixel(c)) = WriteInput(c)
<1>0. /\ c[1] \in Nat /\ c[2] \in Nat
      /\ c[3] \in 0 .. uwidth - 1 /\ c[4] \in 0 .. uheight - 1
  BY GeometryAssumption DEF Cells, Columns, Rows
<1> DEFINE x == c[1] * uwidth + c[3]
           y == c[2] * uheight + c[4]
<1>1. x \in 0 .. width - 1 /\ y \in Nat
  <2>1. x \in 0 .. width - 1
    BY MulBound, GeometryAssumption DEF Cells, width, Columns
  <2>2. y \in 0 .. height - 1
    BY MulBound, GeometryAssumption DEF Cells, height, Rows
  <2> QED
    BY <2>1, <2>2, Sizes
<1>2. WritePixel(c) = y * width + x
  <2>1. y * width \in Int /\ x \in Int
    BY <1>1, Sizes, SMT
  <2> QED
    BY <2>1, SMT DEF WritePixel
<1>3. WritePixel(c) \div width = y /\ WritePixel(c) % width = x
  BY <1>1, <1>2, DivMod, Sizes
<1>4. x \div uwidth = c[1] /\ x % uwidth = c[3]
  BY <1>0, DivMod, GeometryAssumption
<1>5. y \div uheight = c[2] /\ y % uheight = c[4]
  BY <1>0, DivMod, GeometryAssumption
<1>6. ReformUnit(WritePixel(c)) = WriteUnit(c)
  BY <1>3, <1>4, <1>5 DEF ReformUnit, WriteUnit
<1>7. ReformInput(WritePixel(c)) = WriteInput(c)
  <2>1. c[4] * uwidth + c[3] = c[3] + c[4] * uwidth
    BY <1>0, GeometryAssumption, SMT
  <2> QED
    BY <1>3, <1>4, <1>5, <2>1 DEF ReformInput, WriteInput
<1> QED
  BY <1>6, <1>7

(* No pixel of the message is left out: each is copied by some iteration.    *)
THEOREM EveryPixelWritten ==
  ASSUME NEW i \in Pixels
  PROVE  \E c \in Cells : WritePixel(c) = i
<1> DEFINE x == i % width
           y == i \div width
           c == <<x \div uwidth, y \div uheight, x % uwidth, y % uheight>>
<1>1. i \in 0 .. height * width - 1
  BY Sizes, SMT DEF Pixels
<1>2. /\ y \in 0 .. height - 1 /\ x \in 0 .. width - 1
      /\ i = y * width + x
  BY <1>1, DivModBound, Sizes
<1>3. /\ x \div uwidth \in Columns /\ x % uwidth \in 0 .. uwidth - 1
      /\ x = (x \div uwidth) * uwidth + (x % uwidth)
  BY <1>2, DivModBound, GeometryAssumption DEF width, Columns
<1>4. /\ y \div uheight \in Rows /\ y % uheight \in 0 .. uheight - 1
      /\ y = (y \div uheight) * uheight + (y % uheight)
  BY <1>2, DivModBound, GeometryAssumption DEF height, Rows
<1>5. c \in Cells
  BY <1>3, <1>4 DEF Cells
<1>6. WritePixel(c) = x + y * width
  <2>1. /\ c[1] * uwidth + c[3] = x
        /\ c[2] * uheight + c[4] = y
    <3>1. /\ c[1] = x \div uwidth /\ c[2] = y \div uheight
          /\ c[3] = x % uwidth /\ c[4] = y % uheight
      OBVIOUS
    <3> QED
      BY <1>3, <1>4, <3>1
  <2> HIDE DEF c, x, y
  <2> QED
    BY <2>1 DEF WritePixel
<1>7. x + y * width = i
  <2>1. y * width \in Int /\ x \in Int
    BY <1>2, Sizes, SMT
  <2> HIDE DEF x, y
  <2> QED
    BY <1>2, <2>1, SMT
<1> QED
  BY <1>5, <1>6, <1>7

-----------------------------------------------------------------------------
(* Invariants of Region                                                      *)

USE GeometryAssumption, RegionAssumption

(* The unit and the input that reform takes a pixel from exist. *)
LEMMA ReformInRange ==
  ASSUME NEW i \in Pixels
  PROVE  ReformUnit(i) \in Units /\ ReformInput(i) \in Inputs
<1>1. PICK c \in Cells : WritePixel(c) = i
  BY EveryPixelWritten
<1> QED
  BY <1>1, GatherInvertsScatter, WriteInRange

LEMMA RowZero == \A x \in Columns : <<x, 0>> \in Units
  BY DEF Units, Rows, Columns

LEMMA UnitShape ==
  ASSUME NEW u \in Units
  PROVE  /\ u = <<u[1], u[2]>> /\ u[1] \in Columns /\ u[2] \in Rows
         /\ u # Nowhere
  BY DEF Units, Nowhere

-----------------------------------------------------------------------------
(* Type correctness *)

LEMMA TypeInit == Init => TypeOK
<1> SUFFICES ASSUME Init PROVE TypeOK
  OBVIOUS
<1>1. inputs \in [Units -> [Inputs -> [frame : Frames, pixel : Pixels \cup {NoPixel}]]]
  BY DEF Init, Frames
<1>2. /\ outputs \in [Units -> [Outputs -> Output]]
      /\ links \in [Units -> [Pairs -> Passes]]
  BY DEF Init, Output, Passes
<1>3. /\ image \in [Pixels -> SUBSET Term]
      /\ call \in {"idle", "write", "reform"} /\ rtodo = {} /\ tested = {}
  BY DEF Init
<1>8. rbase \in Passes /\ pass \in Passes
  BY DEF Init, Passes
<1>4. /\ seen \in [Workers -> [Pairs -> Frames]]
      /\ base \in [Workers -> Frames]
  BY DEF Init, Frames
<1>5. basis \in [Units -> SUBSET Frames]
  BY DEF Init, Frames
<1>6. frame \in Frames /\ Complete \in Frames /\ todo = {} /\ unclaimed = {}
  BY DEF Init, Complete, Frames
<1>7. /\ at \in [Workers -> Units \cup {Nowhere}]
      /\ reads \in [Workers -> SUBSET Pairs]
      /\ slots \in [Workers -> SUBSET Outputs]
      /\ slot \in [Workers -> Outputs \cup {NoSlot}]
      /\ tolearn \in [Workers -> SUBSET Inputs]
  BY DEF Init
<1> QED
  BY <1>1, <1>2, <1>3, <1>4, <1>5, <1>6, <1>7, <1>8 DEF TypeOK

\* Entering processUnit keeps the types of what it sets.
LEMMA EnterType ==
  ASSUME TypeOK, NEW w \in Workers, NEW u \in Units, Enter(w, u)
  PROVE  /\ at' \in [Workers -> Units \cup {Nowhere}]
         /\ reads' \in [Workers -> SUBSET Pairs]
         /\ slots' \in [Workers -> SUBSET Outputs]
         /\ base' \in [Workers -> Frames]
BY DEF TypeOK, Enter

\* So does storing an output.
LEMMA StoreType ==
  ASSUME TypeOK, NEW w \in Workers, at[w] \in Units, NEW j \in Outputs, NEW a \in BOOLEAN,
         Store(w, j, a)
  PROVE  /\ outputs' \in [Units -> [Outputs -> Output]]
         /\ slots' \in [Workers -> SUBSET Outputs]
<1>1. [pass |-> pass, active |-> a] \in Output
  BY DEF TypeOK, Output
<1> QED
  BY <1>1 DEF TypeOK, Store

\* The tables of processUnit are in use only inside a unit, a slot is learned
\* only after all links were collected, and links only for a slot.
Inside ==
  \A w \in Workers :
    /\ at[w] = Nowhere => reads[w] = {} /\ slots[w] = {} /\ slot[w] = NoSlot
    /\ slot[w] # NoSlot => reads[w] = {} /\ slot[w] \in slots[w]
    /\ slot[w] = NoSlot => tolearn[w] = {}

LEMMA InsideInit == Init => Inside
BY DEF Init, Inside

LEMMA InsideNext == TypeOK /\ Inside /\ [Next]_vars => Inside'
<1> SUFFICES ASSUME TypeOK, Inside, [Next]_vars
             PROVE  Inside'
  OBVIOUS
<1> USE DEF Inside
<1>1. CASE UNCHANGED vars
  BY <1>1 DEF vars, workervars
<1>2. CASE Rpc \/ NextPass
  BY <1>2 DEF Rpc, StartWrite, StartReform, WriteCell, EndWrite, ReformTest, ReformAdd,
              EndReform, NextPass, workervars
<1>3. ASSUME NEW w \in Workers, Work(w)
      PROVE  Inside'
  <2> USE DEF TypeOK
  <2>1. CASE Claim(w)
    BY <2>1, UnitShape, RowZero DEF Claim, Enter
  <2>2. CASE Collect(w)
    BY <2>2 DEF Collect
  <2>3. CASE Mismatch(w) \/ Renew(w)
    BY <2>3 DEF Mismatch, Renew, Between, Store
  <2>4. CASE Match(w)
    BY <2>4 DEF Match, Between, Outputs, NoSlot
  <2>5. CASE Learn(w)
    BY <2>5 DEF Learn
  <2>6. CASE Activate(w)
    BY <2>6 DEF Activate, Store
  <2>7. CASE Leave(w)
    BY <2>7, UnitShape DEF Leave, Between, Enter, Nowhere
  <2> QED
    BY <1>3, <2>1, <2>2, <2>3, <2>4, <2>5, <2>6, <2>7 DEF Work
<1> QED
  BY <1>1, <1>2, <1>3 DEF Next

LEMMA TypeNext == TypeOK /\ Inside /\ [Next]_vars => TypeOK'
<1> SUFFICES ASSUME TypeOK, Inside, [Next]_vars
             PROVE  TypeOK'
  OBVIOUS
<1>1. CASE UNCHANGED vars
  BY <1>1 DEF vars, workervars, rpcvars, unitvars, TypeOK, Complete
<1>2. CASE StartWrite
  <2>1. frame' \in Frames /\ Complete' \in Frames
    BY <1>2 DEF StartWrite, TypeOK, Complete, Frames
  <2> QED
    BY <1>2, <2>1 DEF StartWrite, TypeOK, workervars, unitvars
<1>3. CASE WriteCell
  <2> PICK c \in todo : WriteCell!(c)
    BY <1>3 DEF WriteCell
  <2>1. WriteUnit(c) \in Units /\ WriteInput(c) \in Inputs /\ WritePixel(c) \in Pixels
    BY WriteInRange DEF TypeOK
  <2>2. inputs' \in [Units -> [Inputs -> [frame : Frames, pixel : Pixels \cup {NoPixel}]]]
    BY <2>1 DEF TypeOK
  <2> QED
    BY <2>2 DEF TypeOK, workervars, Complete
<1>4. CASE EndWrite
  BY <1>4 DEF EndWrite, TypeOK, workervars, unitvars, Complete
<1>5. CASE StartReform
  BY <1>5 DEF StartReform, TypeOK, workervars, unitvars, Complete
<1>6. CASE ReformTest
  <2> PICK r \in rtodo : ReformTest!2!(r)
    BY <1>6 DEF ReformTest
  <2>1. outputs[ReformUnit(r[1])][r[2]] \in Output
    BY ReformInRange DEF TypeOK
  <2>2. tested' \subseteq Output /\ rtodo' \subseteq Pixels \X Outputs
    BY <2>1 DEF TypeOK
  <2> QED
    BY <1>6, <2>2 DEF ReformTest, TypeOK, workervars, unitvars, Complete
<1>7. CASE ReformAdd
  <2> PICK r \in rtodo, o \in tested : ReformAdd!1!(r, o)
    BY <1>7 DEF ReformAdd
  <2>1. [slot |-> r[2], tested |-> o, added |-> outputs[ReformUnit(r[1])][r[2]]] \in Term
    BY ReformInRange DEF TypeOK, Term
  <2>2. image' \in [Pixels -> SUBSET Term]
    BY <2>1 DEF TypeOK
  <2> QED
    BY <1>7, <2>2 DEF ReformAdd, TypeOK, workervars, unitvars, Complete
<1>8. CASE EndReform
  BY <1>8 DEF EndReform, TypeOK, workervars, unitvars, Complete, Passes
<1>9. CASE NextPass
  <2>1. pass' \in Passes
    BY <1>9 DEF NextPass, TypeOK, Passes
  <2> QED
    BY <1>9, <2>1 DEF NextPass, TypeOK, workervars, unitvars, rpcvars, Complete
<1>10. ASSUME NEW w \in Workers, Work(w)
       PROVE  TypeOK'
  <2> USE DEF TypeOK, unitvars, rpcvars, Complete
  <2>1. CASE Claim(w)
    BY <2>1, EnterType, RowZero DEF Claim
  <2>2. CASE Collect(w)
    <3>1. at[w] \in Units
      BY <2>2 DEF Collect, Inside
    <3> PICK p \in reads[w] : Collect(w)!1!(p)
      BY <2>2 DEF Collect
    <3>2. inputs[at[w]][p[1]].frame \in Frames
      BY <3>1 DEF Pairs
    <3>3. seen' \in [Workers -> [Pairs -> Frames]]
      BY <3>2
    <3> QED
      BY <2>2, <3>3 DEF Collect
  <2>3. CASE Mismatch(w) \/ Renew(w)
    <3> PICK j \in slots[w], a \in BOOLEAN : Store(w, j, a)
      BY <2>3 DEF Mismatch, Renew
    <3>1. at[w] \in Units
      BY <2>3 DEF Mismatch, Renew, Between
    <3>2. /\ outputs' \in [Units -> [Outputs -> Output]]
          /\ slots' \in [Workers -> SUBSET Outputs]
      BY <3>1, StoreType
    <3> QED
      BY <2>3, <3>2 DEF Mismatch, Renew
  <2>4. CASE Match(w)
    BY <2>4 DEF Match
  <2>5. CASE Learn(w)
    <3> PICK i \in tolearn[w] : Learn(w)!1!(i)
      BY <2>5 DEF Learn
    <3>1. links' \in [Units -> [Pairs -> Passes]]
      OBVIOUS
    <3> QED
      BY <2>5, <3>1 DEF Learn
  <2>6. CASE Activate(w)
    BY <2>6, StoreType DEF Activate, Inside
  <2>7. CASE Leave(w)
    <3>1. at[w] \in Units /\ at[w][1] \in Columns /\ at[w][2] \in Rows
      BY <2>7, UnitShape DEF Leave, Between
    <3>2. basis' \in [Units -> SUBSET Frames]
      BY <2>7, <3>1 DEF Leave
    <3>3. seen' \in [Workers -> [Pairs -> Frames]]
      BY <2>7 DEF Leave, Frames
    <3>4. /\ at' \in [Workers -> Units \cup {Nowhere}]
          /\ reads' \in [Workers -> SUBSET Pairs]
          /\ slots' \in [Workers -> SUBSET Outputs]
          /\ base' \in [Workers -> Frames]
      <4>1. CASE at[w][2] + 1 < unitsy
        <5>1. <<at[w][1], at[w][2] + 1>> \in Units
          BY <3>1, <4>1 DEF Units, Rows
        <5> QED
          BY <2>7, <4>1, <5>1, EnterType DEF Leave
      <4>2. CASE ~(at[w][2] + 1 < unitsy)
        <5>1. /\ at' = [at EXCEPT ![w] = Nowhere]
              /\ base' = [base EXCEPT ![w] = 0]
              /\ UNCHANGED <<reads, slots>>
          BY <2>7, <4>2 DEF Leave
        <5>2. 0 \in Frames
          BY DEF Frames
        <5> QED
          BY <5>1, <5>2
      <4> QED
        BY <4>1, <4>2
    <3> QED
      BY <2>7, <3>2, <3>3, <3>4 DEF Leave
  <2> QED
    BY <1>10, <2>1, <2>2, <2>3, <2>4, <2>5, <2>6, <2>7 DEF Work
<1> QED
  BY <1>1, <1>2, <1>3, <1>4, <1>5, <1>6, <1>7, <1>8, <1>9, <1>10 DEF Next, Rpc

\* The types of the variables are those TypeOK gives them.
THEOREM TypeCorrect == Spec => [](TypeOK /\ Inside)
<1>1. Init => TypeOK /\ Inside
  BY TypeInit, InsideInit
<1>2. TypeOK /\ Inside /\ [Next]_vars => (TypeOK /\ Inside)'
  BY TypeNext, InsideNext
<1> QED
  BY <1>1, <1>2, PTL DEF Spec

-----------------------------------------------------------------------------
(* Exclusive use of the units *)

\* A column is handed to one worker at a time and not offered while it has it.
ColumnOwned ==
  /\ \A w \in Workers : at[w] # Nowhere => at[w][1] \notin unclaimed
  /\ \A v, w \in Workers : v # w /\ at[v] # Nowhere /\ at[w] # Nowhere => at[v][1] # at[w][1]

LEMMA ColumnOwnedNext == TypeOK /\ ColumnOwned /\ [Next]_vars => ColumnOwned'
<1> SUFFICES ASSUME TypeOK, ColumnOwned, [Next]_vars
             PROVE  ColumnOwned'
  OBVIOUS
<1>1. CASE UNCHANGED <<at, unclaimed>>
  BY <1>1 DEF ColumnOwned
<1>2. CASE NextPass
  BY <1>2 DEF NextPass, Joined, workervars, ColumnOwned
<1>3. ASSUME NEW w \in Workers, Claim(w)
      PROVE  ColumnOwned'
  <2> PICK x \in unclaimed : Enter(w, <<x, 0>>) /\ unclaimed' = unclaimed \ {x}
    BY <1>3 DEF Claim
  <2>1. at' = [at EXCEPT ![w] = <<x, 0>>]
    BY DEF Enter
  <2> QED
    BY <2>1 DEF ColumnOwned, TypeOK
<1>4. ASSUME NEW w \in Workers, Leave(w)
      PROVE  ColumnOwned'
  <2>1. at[w] # Nowhere /\ UNCHANGED unclaimed
    BY <1>4 DEF Leave, Between
  <2>2. CASE at' = [at EXCEPT ![w] = Nowhere]
    BY <2>1, <2>2 DEF ColumnOwned, TypeOK
  <2>3. CASE at' = [at EXCEPT ![w] = <<at[w][1], at[w][2] + 1>>]
    BY <2>1, <2>3 DEF ColumnOwned, TypeOK
  <2> QED
    BY <1>4, <2>2, <2>3 DEF Leave, Enter
<1>5. ASSUME NEW w \in Workers,
             Collect(w) \/ Mismatch(w) \/ Renew(w) \/ Match(w) \/ Learn(w) \/ Activate(w)
      PROVE  UNCHANGED <<at, unclaimed>>
  BY <1>5 DEF Collect, Mismatch, Renew, Match, Learn, Activate
<1>6. CASE Rpc
  BY <1>1, <1>6 DEF Rpc, StartWrite, StartReform, WriteCell, EndWrite, ReformTest, ReformAdd,
                    EndReform, workervars
<1>7. CASE UNCHANGED vars
  BY <1>1, <1>7 DEF vars, workervars
<1> QED
  BY <1>1, <1>2, <1>3, <1>4, <1>5, <1>6, <1>7 DEF Next, Work

\* No two workers are ever in processUnit for the same unit, for any team and
\* any number of units, with no lock: columns and the join are enough.
THEOREM UnitsExclusive == Spec => []ExclusiveUnit
<1>1. Init => ColumnOwned
  BY DEF Init, ColumnOwned
<1>2. ColumnOwned => ExclusiveUnit
  BY DEF ColumnOwned, ExclusiveUnit
<1> QED
  BY <1>1, <1>2, ColumnOwnedNext, TypeCorrect, PTL DEF Spec

-----------------------------------------------------------------------------
(* The frame of the last write is where reform looks for it *)

\* Every iteration of the write that is done has put its pixel in place.
Landed ==
  /\ todo # {} => call = "write"
  /\ frame > 0 => \A c \in Cells \ todo :
       inputs[WriteUnit(c)][WriteInput(c)] = [frame |-> frame, pixel |-> WritePixel(c)]

\* Two iterations of write never store to the same input.
LEMMA WriteInjective ==
  ASSUME NEW c \in Cells, NEW d \in Cells,
         WriteUnit(c) = WriteUnit(d), WriteInput(c) = WriteInput(d)
  PROVE  c = d
<1>1. /\ c[3] \in 0 .. uwidth - 1 /\ c[4] \in Nat
      /\ d[3] \in 0 .. uwidth - 1 /\ d[4] \in Nat
  BY DEF Cells
<1>2. /\ WriteInput(c) = c[4] * uwidth + c[3]
      /\ WriteInput(d) = d[4] * uwidth + d[3]
  BY <1>1, SMT DEF WriteInput
<1>3. c[3] = d[3] /\ c[4] = d[4]
  <2>1. (c[4] * uwidth + c[3]) \div uwidth = c[4] /\ (c[4] * uwidth + c[3]) % uwidth = c[3]
    BY <1>1, DivMod
  <2>2. (d[4] * uwidth + d[3]) \div uwidth = d[4] /\ (d[4] * uwidth + d[3]) % uwidth = d[3]
    BY <1>1, DivMod
  <2> QED
    BY <1>2, <2>1, <2>2
<1> QED
  BY <1>3 DEF Cells, WriteUnit

LEMMA LandedNext == TypeOK /\ Landed /\ [Next]_vars => Landed'
<1> SUFFICES ASSUME TypeOK, Landed, [Next]_vars
             PROVE  Landed'
  OBVIOUS
<1>1. CASE UNCHANGED <<inputs, call, frame, todo>>
  BY <1>1 DEF Landed
<1>2. CASE StartWrite
  BY <1>2 DEF StartWrite, Landed
<1>3. CASE WriteCell
  <2> PICK c \in todo : WriteCell!(c)
    BY <1>3 DEF WriteCell
  <2>1. c \in Cells /\ WriteUnit(c) \in Units /\ WriteInput(c) \in Inputs
    BY WriteInRange DEF TypeOK
  <2>2. ASSUME NEW d \in Cells \ todo', frame > 0
        PROVE  inputs'[WriteUnit(d)][WriteInput(d)] = [frame |-> frame, pixel |-> WritePixel(d)]
    <3>1. WriteUnit(d) \in Units /\ WriteInput(d) \in Inputs
      BY WriteInRange
    <3>2. CASE d = c
      BY <2>1, <3>1, <3>2 DEF TypeOK
    <3>3. CASE d # c
      <4>1. WriteUnit(d) # WriteUnit(c) \/ WriteInput(d) # WriteInput(c)
        BY <2>1, <3>3, WriteInjective
      <4>2. inputs'[WriteUnit(d)][WriteInput(d)] = inputs[WriteUnit(d)][WriteInput(d)]
        BY <2>1, <3>1, <4>1 DEF TypeOK
      <4> QED
        BY <2>2, <3>3, <4>2 DEF Landed
    <3> QED
      BY <3>2, <3>3
  <2> QED
    BY <2>2 DEF Landed
<1>4. CASE EndWrite
  BY <1>4 DEF EndWrite, unitvars, Landed
<1>5. CASE StartReform
  BY <1>5 DEF StartReform, unitvars, Landed
<1>6. CASE EndReform
  BY <1>6 DEF EndReform, unitvars, Landed
<1>7. CASE ReformTest \/ ReformAdd
  BY <1>1, <1>7 DEF ReformTest, ReformAdd, unitvars
<1>8. CASE NextPass
  BY <1>1, <1>8 DEF NextPass, unitvars, rpcvars
<1>9. ASSUME NEW w \in Workers, Work(w)
      PROVE  UNCHANGED <<inputs, call, frame, todo>>
  BY <1>9 DEF Work, Claim, Collect, Mismatch, Renew, Match, Learn, Activate, Leave,
              unitvars, rpcvars
<1>10. CASE UNCHANGED vars
  BY <1>1, <1>10 DEF vars, unitvars, rpcvars
<1> QED
  BY <1>1, <1>2, <1>3, <1>4, <1>5, <1>6, <1>7, <1>8, <1>9, <1>10 DEF Next, Rpc

\* Between writes every input holds the pixel of the last frame that reform
\* assigns to it, for every size of region and unit.
THEOREM FramesLand == Spec => []FrameLandsInPlace
<1>1. Init => Landed
  BY DEF Init, Landed
<1>2. Landed => FrameLandsInPlace
  <2> SUFFICES ASSUME Landed, call # "write", frame > 0, NEW i \in Pixels
               PROVE  inputs[ReformUnit(i)][ReformInput(i)] = [frame |-> frame, pixel |-> i]
    BY DEF FrameLandsInPlace
  <2>1. PICK c \in Cells : WritePixel(c) = i
    BY EveryPixelWritten
  <2> QED
    BY <2>1, GatherInvertsScatter DEF Landed
<1> QED
  BY <1>1, <1>2, LandedNext, TypeCorrect, PTL DEF Spec

-----------------------------------------------------------------------------
(* Links are learned before the output is published *)

\* A slot that is being learned has the pass's number on the links done, and
\* is not active; a slot that is not has one number on all of its links.
Learning(u, j) == \E w \in Workers : at[w] = u /\ slot[w] = j
Settled ==
  /\ \A w \in Workers : slot[w] # NoSlot =>
       \A i \in Inputs \ tolearn[w] : links[at[w]][<<i, slot[w]>>] = pass
  /\ \A u \in Units, j \in Outputs :
       /\ outputs[u][j].active => ~Learning(u, j)
       /\ ~Learning(u, j) => \A i, k \in Inputs : links[u][<<i, j>>] = links[u][<<k, j>>]

\* A worker that stores the output of a slot is alone in the unit.
LEMMA SettledStore ==
  ASSUME TypeOK, Inside, ColumnOwned, Settled, NEW w \in Workers, at[w] \in Units,
         NEW j \in Outputs, NEW a \in BOOLEAN, Store(w, j, a),
         \/ slot[w] = NoSlot /\ slot' = slot
         \/ slot[w] = j /\ tolearn[w] = {} /\ slot' = [slot EXCEPT ![w] = NoSlot],
         UNCHANGED <<links, at, tolearn, pass>>
  PROVE  Settled'
<1>1. \A v \in Workers : at[v] = at[w] => v = w
  BY UnitShape DEF ColumnOwned
<1>2. NoSlot \notin Outputs
  BY DEF NoSlot, Outputs
<1>3. \A u \in Units, k \in Outputs :
        outputs'[u][k] = IF u = at[w] /\ k = j THEN [pass |-> pass, active |-> a] ELSE outputs[u][k]
  BY DEF Store, TypeOK
<1>4. ~Learning(at[w], j)'
  BY <1>1, <1>2 DEF Learning, TypeOK
<1>5. \A u \in Units, k \in Outputs : u # at[w] \/ k # j => (Learning(u, k)' <=> Learning(u, k))
  BY <1>2 DEF Learning, TypeOK
<1>6. \A i, k \in Inputs : links[at[w]][<<i, j>>] = links[at[w]][<<k, j>>]
  <2>1. CASE slot[w] = NoSlot
    <3>1. ~Learning(at[w], j)
      BY <1>1, <1>2, <2>1 DEF Learning
    <3> QED
      BY <3>1 DEF Settled
  <2>2. CASE slot[w] = j /\ tolearn[w] = {}
    BY <1>2, <2>2 DEF Settled
  <2> QED
    BY <2>1, <2>2
<1>7. \A v \in Workers : slot'[v] # NoSlot =>
        \A i \in Inputs \ tolearn'[v] : links'[at'[v]][<<i, slot'[v]>>] = pass'
  BY DEF Settled, TypeOK
<1>8. ASSUME NEW u \in Units, NEW k \in Outputs
      PROVE  (/\ outputs[u][k].active => ~Learning(u, k)
              /\ ~Learning(u, k) => \A i, h \in Inputs : links[u][<<i, k>>] = links[u][<<h, k>>])'
  BY <1>3, <1>4, <1>5, <1>6 DEF Settled
<1> QED
  BY <1>7, <1>8 DEF Settled

LEMMA SettledNext == TypeOK /\ Inside /\ ColumnOwned /\ Settled /\ [Next]_vars => Settled'
<1> SUFFICES ASSUME TypeOK, Inside, ColumnOwned, Settled, [Next]_vars
             PROVE  Settled'
  OBVIOUS
<1>1. CASE UNCHANGED <<outputs, links, at, slot, tolearn, pass>>
  BY <1>1 DEF Settled, Learning
<1>2. CASE Rpc \/ UNCHANGED vars
  BY <1>1, <1>2 DEF Rpc, StartWrite, StartReform, WriteCell, EndWrite, ReformTest, ReformAdd,
                    EndReform, workervars, unitvars, vars
<1>3. CASE NextPass
  <2>1. \A w \in Workers : slot[w] = NoSlot
    BY <1>3 DEF NextPass, Joined, Inside
  <2> QED
    BY <1>3, <2>1 DEF NextPass, Settled, Learning, unitvars, workervars
<1>4. ASSUME NEW w \in Workers, Claim(w) \/ Leave(w)
      PROVE  Settled'
  <2>1. slot[w] = NoSlot /\ NoSlot \notin Outputs
    BY <1>4 DEF Claim, Leave, Between, Inside, NoSlot, Outputs
  <2>2. /\ UNCHANGED <<outputs, links, slot, tolearn, pass>>
        /\ \A v \in Workers : v # w => at'[v] = at[v]
    BY <1>4 DEF Claim, Leave, Enter, unitvars, TypeOK
  <2>3. \A u \in Units, j \in Outputs : Learning(u, j)' <=> Learning(u, j)
    BY <2>1, <2>2 DEF Learning
  <2>4. \A v \in Workers : slot'[v] # NoSlot =>
          \A i \in Inputs \ tolearn'[v] : links'[at'[v]][<<i, slot'[v]>>] = pass'
    BY <2>1, <2>2 DEF Settled
  <2> QED
    BY <2>2, <2>3, <2>4 DEF Settled
<1>5. ASSUME NEW w \in Workers, Collect(w)
      PROVE  Settled'
  BY <1>1, <1>5 DEF Collect, unitvars
<1>6. ASSUME NEW w \in Workers, Mismatch(w) \/ Renew(w)
      PROVE  Settled'
  <2>1. PICK j \in slots[w], a \in BOOLEAN : Store(w, j, a)
    BY <1>6 DEF Mismatch, Renew
  <2>2. /\ j \in Outputs /\ at[w] \in Units /\ slot[w] = NoSlot
        /\ UNCHANGED <<links, at, slot, tolearn, pass>>
    BY <1>6 DEF Mismatch, Renew, Between, TypeOK
  <2> QED
    BY <2>1, <2>2, SettledStore
<1>7. ASSUME NEW w \in Workers, Activate(w)
      PROVE  Settled'
  <2>1. PICK a \in BOOLEAN : Store(w, slot[w], a)
    BY <1>7 DEF Activate
  <2>2. /\ slot[w] \in Outputs /\ at[w] \in Units /\ tolearn[w] = {}
        /\ slot' = [slot EXCEPT ![w] = NoSlot]
        /\ UNCHANGED <<links, at, tolearn, pass>>
    BY <1>7 DEF Activate, Inside, TypeOK
  <2> QED
    BY <2>1, <2>2, SettledStore
<1>8. ASSUME NEW w \in Workers, Match(w)
      PROVE  Settled'
  <2> PICK j \in slots[w] : /\ ~outputs[at[w]][j].active
                            /\ slot' = [slot EXCEPT ![w] = j]
    BY <1>8 DEF Match
  <2>1. /\ j \in Outputs /\ at[w] \in Units /\ slot[w] = NoSlot
        /\ tolearn' = [tolearn EXCEPT ![w] = Inputs]
        /\ UNCHANGED <<outputs, links, at, pass>>
    BY <1>8 DEF Match, Between, TypeOK, unitvars
  <2>2. /\ slot'[w] = j /\ tolearn'[w] = Inputs
        /\ \A v \in Workers : v # w => slot'[v] = slot[v] /\ tolearn'[v] = tolearn[v]
    BY <2>1 DEF TypeOK
  <2>3. \A u \in Units, k \in Outputs :
          Learning(u, k)' <=> Learning(u, k) \/ (u = at[w] /\ k = j)
    <3>1. NoSlot \notin Outputs
      BY DEF NoSlot, Outputs
    <3> QED
      BY <2>1, <2>2, <3>1 DEF Learning
  <2>4. \A v \in Workers : slot'[v] # NoSlot =>
          \A i \in Inputs \ tolearn'[v] : links'[at'[v]][<<i, slot'[v]>>] = pass'
    BY <2>1, <2>2 DEF Settled
  <2> QED
    BY <2>1, <2>3, <2>4 DEF Settled
<1>9. ASSUME NEW w \in Workers, Learn(w)
      PROVE  Settled'
  <2> PICK i \in tolearn[w] : /\ links' = [links EXCEPT ![at[w]][<<i, slot[w]>>] = pass]
                              /\ tolearn' = [tolearn EXCEPT ![w] = @ \ {i}]
    BY <1>9 DEF Learn
  <2>1. /\ slot[w] # NoSlot /\ slot[w] \in Outputs /\ at[w] \in Units /\ i \in Inputs
        /\ UNCHANGED <<outputs, at, slot, pass>>
    BY <1>9 DEF Learn, Inside, TypeOK
  <2>2. \A v \in Workers : at[v] = at[w] => v = w
    BY <2>1, UnitShape DEF ColumnOwned
  <2>3. \A u \in Units, h \in Inputs, k \in Outputs :
          links'[u][<<h, k>>] = IF u = at[w] /\ h = i /\ k = slot[w] THEN pass ELSE links[u][<<h, k>>]
    BY <2>1 DEF TypeOK, Pairs
  <2>4. \A u \in Units, k \in Outputs : Learning(u, k)' <=> Learning(u, k)
    BY <2>1 DEF Learning
  <2>5. Learning(at[w], slot[w])
    BY DEF Learning
  <2>6. ASSUME NEW v \in Workers, slot[v] # NoSlot, NEW h \in Inputs \ tolearn'[v]
        PROVE  links'[at[v]][<<h, slot[v]>>] = pass
    <3>1. at[v] \in Units /\ slot[v] \in Outputs
      BY <2>6 DEF Inside, TypeOK
    <3>2. CASE v = w
      BY <2>1, <2>3, <2>6, <3>1, <3>2 DEF Settled, TypeOK
    <3>3. CASE v # w
      <4>1. at[v] # at[w] /\ h \notin tolearn[v]
        BY <2>2, <2>6, <3>3 DEF TypeOK
      <4> QED
        BY <2>3, <2>6, <3>1, <4>1 DEF Settled
    <3> QED
      BY <3>2, <3>3
  <2> QED
    BY <2>1, <2>3, <2>4, <2>5, <2>6 DEF Settled
<1> QED
  BY <1>2, <1>3, <1>4, <1>5, <1>6, <1>7, <1>8, <1>9 DEF Next, Work

\* A slot's links were all learned in one pass unless a worker is learning
\* them, and then the slot is not active.
THEOREM LinksSettled == Spec => []ActiveLinksSettled
<1>1. Init => Settled
  BY DEF Init, Settled, Learning, Pairs, NoSlot, Outputs
<1>2. Settled => ActiveLinksSettled
  BY DEF Settled, Learning, ActiveLinksSettled
<1>3. Init => ColumnOwned
  BY DEF Init, ColumnOwned
<1>4. Spec => []ColumnOwned
  BY <1>3, ColumnOwnedNext, TypeCorrect, PTL DEF Spec
<1> QED
  BY <1>1, <1>2, <1>4, SettledNext, TypeCorrect, PTL DEF Spec

-----------------------------------------------------------------------------
(* How old the values are that the threads of Region read from each other    *)

LEMMA ColumnsOwned == Spec => []ColumnOwned
<1>1. Init => ColumnOwned
  BY DEF Init, ColumnOwned
<1> QED
  BY <1>1, ColumnOwnedNext, TypeCorrect, PTL DEF Spec

-----------------------------------------------------------------------------
(* A pass renews every output *)

\* The pass has been through slot j of unit u: the unit's column was handed
\* out, and a worker still in it is below u, or in u with slot j stored.
Done(u, j) ==
  /\ u[1] \notin unclaimed
  /\ \A w \in Workers : at[w] # Nowhere /\ at[w][1] = u[1] =>
       u[2] < at[w][2] \/ (u = at[w] /\ j \notin slots[w])

Renewed ==
  \A u \in Units, j \in Outputs :
    /\ outputs[u][j].pass \in {pass - 1, pass}
    /\ Done(u, j) => outputs[u][j].pass = pass

\* Storing an output is the only way to get a slot done.
LEMMA RenewedStore ==
  ASSUME TypeOK, Renewed, NEW w \in Workers, at[w] \in Units,
         NEW j \in Outputs, NEW a \in BOOLEAN, Store(w, j, a),
         UNCHANGED <<at, pass, unclaimed>>
  PROVE  Renewed'
<1>1. \A u \in Units, k \in Outputs :
        outputs'[u][k] = IF u = at[w] /\ k = j THEN [pass |-> pass, active |-> a] ELSE outputs[u][k]
  BY DEF Store, TypeOK
<1>2. \A v \in Workers : slots'[v] = IF v = w THEN slots[w] \ {j} ELSE slots[v]
  BY DEF Store, TypeOK
<1>3. ASSUME NEW u \in Units, NEW k \in Outputs, u # at[w] \/ k # j
      PROVE  Done(u, k)' => Done(u, k)
  BY <1>2, <1>3 DEF Done
<1> QED
  BY <1>1, <1>3 DEF Renewed

LEMMA RenewedNext == TypeOK /\ Inside /\ Renewed /\ [Next]_vars => Renewed'
<1> SUFFICES ASSUME TypeOK, Inside, Renewed, [Next]_vars
             PROVE  Renewed'
  OBVIOUS
<1>1. CASE UNCHANGED <<outputs, at, slots, pass, unclaimed>>
  BY <1>1 DEF Renewed, Done
<1>2. CASE Rpc \/ UNCHANGED vars
  BY <1>1, <1>2 DEF Rpc, StartWrite, StartReform, WriteCell, EndWrite, ReformTest, ReformAdd,
                    EndReform, workervars, unitvars, vars
<1>3. CASE NextPass
  <2>1. \A u \in Units, j \in Outputs : outputs[u][j].pass = pass /\ ~Done(u, j)'
    BY <1>3, UnitShape DEF NextPass, Joined, Renewed, Done, workervars
  <2>2. pass' \in {pass, pass + 1} /\ outputs' = outputs /\ pass \in Int
    BY <1>3 DEF NextPass, unitvars, TypeOK, Passes
  <2> QED
    BY <2>1, <2>2 DEF Renewed
<1>4. ASSUME NEW w \in Workers, Claim(w)
      PROVE  Renewed'
  <2> PICK x \in unclaimed : Enter(w, <<x, 0>>) /\ unclaimed' = unclaimed \ {x}
    BY <1>4 DEF Claim
  <2>1. /\ at[w] = Nowhere /\ at'[w] = <<x, 0>> /\ slots'[w] = Outputs
        /\ \A v \in Workers : v # w => at'[v] = at[v] /\ slots'[v] = slots[v]
        /\ UNCHANGED <<outputs, pass>>
    BY <1>4 DEF Claim, Enter, TypeOK, unitvars
  <2>2. at'[w] # Nowhere /\ at'[w][1] = x /\ at'[w][2] = 0
    BY <2>1 DEF Nowhere
  <2>3. ASSUME NEW u \in Units, NEW j \in Outputs, Done(u, j)'
        PROVE  Done(u, j)
    <3>1. u[2] \in Nat
      BY UnitShape DEF Rows
    <3>2. u[1] # x
      BY <2>1, <2>2, <2>3, <3>1 DEF Done
    <3>3. u[1] \notin unclaimed
      BY <2>3, <3>2 DEF Done
    <3> QED
      BY <2>1, <2>3, <3>3 DEF Done
  <2> QED
    BY <2>1, <2>3 DEF Renewed
<1>5. ASSUME NEW w \in Workers, Mismatch(w) \/ Renew(w)
      PROVE  Renewed'
  <2>1. PICK j \in slots[w], a \in BOOLEAN : Store(w, j, a)
    BY <1>5 DEF Mismatch, Renew
  <2>2. /\ j \in Outputs /\ at[w] \in Units
        /\ UNCHANGED <<at, pass, unclaimed>>
    BY <1>5 DEF Mismatch, Renew, Between, TypeOK
  <2> QED
    BY <2>1, <2>2, RenewedStore
<1>6. ASSUME NEW w \in Workers, Activate(w)
      PROVE  Renewed'
  <2>1. PICK a \in BOOLEAN : Store(w, slot[w], a)
    BY <1>6 DEF Activate
  <2>2. /\ slot[w] \in Outputs /\ at[w] \in Units
        /\ UNCHANGED <<at, pass, unclaimed>>
    BY <1>6 DEF Activate, Inside, TypeOK
  <2> QED
    BY <2>1, <2>2, RenewedStore
<1>7. ASSUME NEW w \in Workers, Leave(w)
      PROVE  Renewed'
  <2>1. /\ at[w] \in Units /\ slots[w] = {} /\ UNCHANGED <<outputs, pass, unclaimed>>
        /\ at[w] # Nowhere /\ at[w] = <<at[w][1], at[w][2]>> /\ at[w][2] \in Rows
    BY <1>7, UnitShape DEF Leave, Between, TypeOK, unitvars
  <2>2. \A v \in Workers : v # w => at'[v] = at[v] /\ slots'[v] = slots[v]
    BY <1>7 DEF Leave, Enter, TypeOK
  <2>3. ASSUME NEW u \in Units, NEW j \in Outputs, Done(u, j)'
        PROVE  Done(u, j)
    <3>1. u = <<u[1], u[2]>> /\ u[2] \in Rows
      BY UnitShape
    <3>2. u[1] = at[w][1] => u[2] < at[w][2] \/ u = at[w]
      <4>1. CASE at[w][2] + 1 < unitsy
        <5>1. at'[w] = <<at[w][1], at[w][2] + 1>> /\ slots'[w] = Outputs
          BY <1>7, <4>1 DEF Leave, Enter, TypeOK
        <5>2. at'[w] # Nowhere /\ at'[w][1] = at[w][1] /\ at'[w][2] = at[w][2] + 1
          BY <5>1 DEF Nowhere
        <5>3. u[1] = at[w][1] => u[2] < at[w][2] + 1
          BY <2>3, <5>1, <5>2 DEF Done
        <5> QED
          BY <2>1, <3>1, <5>3 DEF Rows
      <4>2. CASE ~(at[w][2] + 1 < unitsy)
        <5>1. u[2] < at[w][2] \/ u[2] = at[w][2]
          BY <2>1, <3>1, <4>2 DEF Rows
        <5> QED
          BY <2>1, <3>1, <5>1
      <4> QED
        BY <4>1, <4>2
    <3> QED
      BY <2>1, <2>2, <2>3, <3>2 DEF Done
  <2> QED
    BY <2>1, <2>3 DEF Renewed
<1>8. ASSUME NEW w \in Workers, Collect(w) \/ Match(w) \/ Learn(w)
      PROVE  UNCHANGED <<outputs, at, slots, pass, unclaimed>>
  BY <1>8 DEF Collect, Match, Learn, unitvars
<1> QED
  BY <1>1, <1>2, <1>3, <1>4, <1>5, <1>6, <1>7, <1>8 DEF Next, Work

LEMMA AlwaysRenewed == Spec => []Renewed
<1>1. Init => Renewed
  BY DEF Init, Renewed
<1> QED
  BY <1>1, RenewedNext, TypeCorrect, PTL DEF Spec

\* Every output is of this pass or the last, and all are of this pass when the
\* team has joined, whatever the order in which workers take the columns.
THEOREM EveryPassCompletes == Spec => []PassesComplete
<1>1. Renewed => PassesComplete
  <2> SUFFICES ASSUME Renewed, NEW u \in Units, NEW j \in Outputs
               PROVE  /\ outputs[u][j].pass \in {pass - 1, pass}
                      /\ Joined => outputs[u][j].pass = pass
    BY DEF PassesComplete
  <2>1. Joined => Done(u, j)
    BY DEF Joined, Done
  <2> QED
    BY <2>1 DEF Renewed
<1> QED
  BY <1>1, AlwaysRenewed, PTL

-----------------------------------------------------------------------------
(* What a reply is made of *)

\* A slot the pass has not been through yet is of an earlier pass.
Owing ==
  \A u \in Units, j \in Outputs :
    ~Done(u, j) /\ pass < MaxPass => outputs[u][j].pass < pass

\* A worker that stores an output has the slot done.
LEMMA OwingStore ==
  ASSUME TypeOK, ColumnOwned, Owing, NEW w \in Workers, at[w] \in Units,
         NEW j \in Outputs, NEW a \in BOOLEAN, Store(w, j, a),
         UNCHANGED <<at, pass, unclaimed>>
  PROVE  Owing'
<1>1. \A u \in Units, k \in Outputs :
        outputs'[u][k] = IF u = at[w] /\ k = j THEN [pass |-> pass, active |-> a] ELSE outputs[u][k]
  BY DEF Store, TypeOK
<1>2. \A v \in Workers : slots'[v] = IF v = w THEN slots[w] \ {j} ELSE slots[v]
  BY DEF Store, TypeOK
<1>3. Done(at[w], j)'
  <2>1. at[w] # Nowhere
    BY UnitShape
  <2>2. \A v \in Workers : at[v] # Nowhere /\ at[v][1] = at[w][1] => v = w
    BY <2>1 DEF ColumnOwned
  <2> QED
    BY <1>2, <2>1, <2>2 DEF Done, ColumnOwned
<1>4. \A u \in Units, k \in Outputs : Done(u, k) => Done(u, k)'
  BY <1>2 DEF Done
<1> QED
  BY <1>1, <1>3, <1>4 DEF Owing

LEMMA OwingNext ==
  TypeOK /\ Inside /\ ColumnOwned /\ Renewed /\ Owing /\ [Next]_vars => Owing'
<1> SUFFICES ASSUME TypeOK, Inside, ColumnOwned, Renewed, Owing, [Next]_vars
             PROVE  Owing'
  OBVIOUS
<1>1. CASE UNCHANGED <<outputs, at, slots, pass, unclaimed>>
  BY <1>1 DEF Owing, Done
<1>2. CASE Rpc \/ UNCHANGED vars
  BY <1>1, <1>2 DEF Rpc, StartWrite, StartReform, WriteCell, EndWrite, ReformTest, ReformAdd,
                    EndReform, workervars, unitvars, vars
<1>3. CASE NextPass
  <2>1. \A u \in Units, j \in Outputs : outputs[u][j].pass = pass
    BY <1>3 DEF NextPass, Joined, Renewed, Done
  <2>2. outputs' = outputs /\ (pass' < MaxPass => pass < pass')
    BY <1>3 DEF NextPass, unitvars, TypeOK, Passes
  <2> QED
    BY <2>1, <2>2 DEF Owing
<1>4. ASSUME NEW w \in Workers, Claim(w)
      PROVE  Owing'
  <2> PICK x \in unclaimed : Enter(w, <<x, 0>>) /\ unclaimed' = unclaimed \ {x}
    BY <1>4 DEF Claim
  <2>1. /\ at'[w] = <<x, 0>> /\ \A v \in Workers : v # w => at'[v] = at[v] /\ slots'[v] = slots[v]
        /\ UNCHANGED <<outputs, pass>>
    BY <1>4 DEF Claim, Enter, TypeOK, unitvars
  <2>2. ASSUME NEW u \in Units, NEW j \in Outputs, Done(u, j)
        PROVE  Done(u, j)'
    BY <2>1, <2>2 DEF Done
  <2> QED
    BY <2>1, <2>2 DEF Owing
<1>5. ASSUME NEW w \in Workers, Mismatch(w) \/ Renew(w)
      PROVE  Owing'
  <2>1. PICK j \in slots[w], a \in BOOLEAN : Store(w, j, a)
    BY <1>5 DEF Mismatch, Renew
  <2>2. /\ j \in Outputs /\ at[w] \in Units
        /\ UNCHANGED <<at, pass, unclaimed>>
    BY <1>5 DEF Mismatch, Renew, Between, TypeOK
  <2> QED
    BY <2>1, <2>2, OwingStore
<1>6. ASSUME NEW w \in Workers, Activate(w)
      PROVE  Owing'
  <2>1. PICK a \in BOOLEAN : Store(w, slot[w], a)
    BY <1>6 DEF Activate
  <2>2. /\ slot[w] \in Outputs /\ at[w] \in Units
        /\ UNCHANGED <<at, pass, unclaimed>>
    BY <1>6 DEF Activate, Inside, TypeOK
  <2> QED
    BY <2>1, <2>2, OwingStore
<1>7. ASSUME NEW w \in Workers, Leave(w)
      PROVE  Owing'
  <2>1. /\ slots[w] = {} /\ UNCHANGED <<outputs, pass, unclaimed>>
        /\ at[w] # Nowhere /\ at[w][2] \in Nat
    BY <1>7, UnitShape DEF Leave, Between, TypeOK, unitvars, Rows
  <2>2. \A v \in Workers : v # w => at'[v] = at[v] /\ slots'[v] = slots[v]
    BY <1>7 DEF Leave, Enter, TypeOK
  <2>3. at'[w] = Nowhere \/ (at'[w][1] = at[w][1] /\ at'[w][2] = at[w][2] + 1)
    BY <1>7 DEF Leave, Enter, TypeOK
  <2>4. ASSUME NEW u \in Units, NEW j \in Outputs, Done(u, j)
        PROVE  Done(u, j)'
    <3>1. u[2] \in Nat
      BY UnitShape DEF Rows
    <3>2. at[w][1] = u[1] => u[2] < at[w][2] \/ u[2] = at[w][2]
      BY <2>1, <2>4 DEF Done
    <3>3. at'[w] # Nowhere /\ at'[w][1] = u[1] => u[2] < at'[w][2]
      BY <2>1, <2>3, <3>1, <3>2
    <3> QED
      BY <2>1, <2>2, <2>4, <3>3 DEF Done
  <2> QED
    BY <2>1, <2>4 DEF Owing
<1>8. ASSUME NEW w \in Workers, Collect(w) \/ Match(w) \/ Learn(w)
      PROVE  UNCHANGED <<outputs, at, slots, pass, unclaimed>>
  BY <1>8 DEF Collect, Match, Learn, unitvars
<1> QED
  BY <1>1, <1>2, <1>3, <1>4, <1>5, <1>6, <1>7, <1>8 DEF Next, Work

\* What a worker's step does to the outputs: nothing, or it stores one that
\* was of an earlier pass.
LEMMA OutputsAdvance ==
  ASSUME TypeOK, Inside, Owing, NEW w \in Workers, Work(w), NEW u \in Units, NEW j \in Outputs
  PROVE  \/ outputs'[u][j] = outputs[u][j]
         \/ outputs'[u][j].pass = pass /\ (pass < MaxPass => outputs[u][j].pass < pass)
<1>1. ASSUME NEW k \in slots[w], NEW a \in BOOLEAN, Store(w, k, a), at[w] \in Units
      PROVE  \/ outputs'[u][j] = outputs[u][j]
             \/ outputs'[u][j].pass = pass /\ (pass < MaxPass => outputs[u][j].pass < pass)
  <2>1. outputs'[u][j] = IF u = at[w] /\ j = k THEN [pass |-> pass, active |-> a] ELSE outputs[u][j]
    BY <1>1 DEF Store, TypeOK
  <2>2. at[w] # Nowhere /\ at[w][2] \in Nat
    BY <1>1, UnitShape DEF Rows
  <2>3. ~Done(at[w], k)
    BY <1>1, <2>2 DEF Done
  <2> QED
    BY <1>1, <2>1, <2>3 DEF Owing
<1>2. CASE Mismatch(w) \/ Renew(w)
  BY <1>1, <1>2 DEF Mismatch, Renew, Between, TypeOK
<1>3. CASE Activate(w)
  BY <1>1, <1>3 DEF Activate, Inside, TypeOK
<1>4. CASE Claim(w) \/ Collect(w) \/ Match(w) \/ Learn(w) \/ Leave(w)
  BY <1>4 DEF Claim, Collect, Match, Learn, Leave, unitvars
<1> QED
  BY <1>2, <1>3, <1>4 DEF Work

\* The upcoming iteration of reform is of the lowest pixel left, and the only one.
LEMMA NextPair ==
  ASSUME rtodo \subseteq Pixels \X Outputs, NEW r \in rtodo, Upcoming(r, rtodo),
         NEW d \in rtodo, d # r
  PROVE  r[1] <= d[1] /\ ~Upcoming(d, rtodo)
<1>1. \A c \in {r, d} : DOMAIN c = {1, 2} /\ c[1] \in Int /\ c[2] \in Int
  BY DEF Pixels, Outputs
<1>2. 1 .. 1 - 1 = {} /\ 1 .. 2 - 1 = {1}
  BY SMT
<1>3. \A c, e \in {r, d} : Before(c, e) <=> c[1] < e[1] \/ (c[1] = e[1] /\ c[2] < e[2])
  BY <1>1, <1>2 DEF Before
<1>4. Before(r, d)
  BY DEF Upcoming
<1>5. r[1] <= d[1] /\ ~Before(d, r)
  BY <1>1, <1>3, <1>4
<1> QED
  BY <1>5 DEF Upcoming

\* o was read from slot j of unit u.
Past(o, u, j) ==
  /\ o.pass <= outputs[u][j].pass
  /\ o # outputs[u][j] /\ outputs[u][j].pass < MaxPass => o.pass < outputs[u][j].pass

\* Only a reform has pixels to do or terms, no term is of a pixel still to
\* come, and each derives from its slot: what was tested, of a pass since the
\* one before the call, is no older than the terms taken from that slot.
Gathered ==
  /\ rbase <= pass
  /\ rtodo # {} => call = "reform"
  /\ rtodo = {} => tested = {}
  /\ call # "reform" => \A i \in Pixels : image[i] = {}
  /\ \A i \in Pixels : \A t \in image[i] :
       /\ Past(t.added, ReformUnit(i), t.slot)
       /\ \A r \in rtodo : i <= r[1]
  /\ \A r \in rtodo, o \in tested : Upcoming(r, rtodo) =>
       /\ rbase - 1 <= o.pass /\ Past(o, ReformUnit(r[1]), r[2])
       /\ \A i \in Pixels : \A t \in image[i] :
            ReformUnit(i) = ReformUnit(r[1]) /\ t.slot = r[2] => t.added.pass <= o.pass
  /\ ReformRegular

\* An output that was read stays one that was read when a pass stores another.
LEMMA PastKept ==
  ASSUME TypeOK, Renewed, NEW o \in Output, NEW u \in Units, NEW j \in Outputs, Past(o, u, j),
         \/ outputs'[u][j] = outputs[u][j]
         \/ outputs'[u][j].pass = pass /\ (pass < MaxPass => outputs[u][j].pass < pass)
  PROVE  Past(o, u, j)'
<1>1. outputs[u][j] \in Output
  BY DEF TypeOK
<1>2. \A q \in Output : q.pass \in Int
  BY DEF Output, Passes
<1>3. o.pass \in Int /\ outputs[u][j].pass \in Int /\ pass \in Int /\ MaxPass \in Int
  BY <1>1, <1>2, RegionAssumption DEF TypeOK, Passes, RegionAssumption
<1>4. outputs[u][j].pass <= pass
  BY <1>3 DEF Renewed
<1> QED
  BY <1>3, <1>4 DEF Past

\* The numbers that Gathered and ReformRegular compare are integers, and every
\* pixel and slot they name exists.
LEMMA TermFacts ==
  ASSUME TypeOK
  PROVE  /\ rbase \in Int /\ pass \in Int /\ MaxPass \in Int
         /\ \A i \in Pixels : i \in Int /\ ReformUnit(i) \in Units
         /\ \A i \in Pixels : \A t \in image[i] :
              /\ t.added \in Output /\ t.tested \in Output /\ t.slot \in Outputs
              /\ t.added.pass \in Int /\ t.tested.pass \in Int
         /\ \A r \in rtodo : /\ r[1] \in Pixels /\ r[1] \in Int /\ r[2] \in Outputs
                             /\ ReformUnit(r[1]) \in Units
         /\ \A o \in tested : o \in Output /\ o.pass \in Int
         /\ \A u \in Units, j \in Outputs : /\ outputs[u][j] \in Output
                                            /\ outputs[u][j].pass \in Int
<1>1. \A o \in Output : o.pass \in Int
  BY DEF Output, Passes
<1>2. \A i \in Pixels : i \in Int /\ ReformUnit(i) \in Units
  BY ReformInRange DEF Pixels
<1>3. \A i \in Pixels : \A t \in image[i] : t.added \in Output /\ t.tested \in Output /\ t.slot \in Outputs
  BY DEF TypeOK, Term
<1>4. \A r \in rtodo : r[1] \in Pixels /\ r[2] \in Outputs
  BY DEF TypeOK
<1>5. /\ tested \subseteq Output /\ rbase \in Int /\ pass \in Int /\ MaxPass \in Int
      /\ \A u \in Units, j \in Outputs : outputs[u][j] \in Output
  BY DEF TypeOK, Passes
<1> QED
  BY <1>1, <1>2, <1>3, <1>4, <1>5

\* An active slot is tested: no term taken from it is of a later pass.
LEMMA GatheredTest ==
  ASSUME TypeOK, Renewed, Gathered, ReformTest
  PROVE  Gathered'
<1> PICK r \in rtodo : ReformTest!2!(r)
  BY DEF ReformTest
<1> DEFINE u == ReformUnit(r[1])
           o == outputs[u][r[2]]
<1>1. /\ tested = {} /\ Upcoming(r, rtodo)
      /\ UNCHANGED <<outputs, call, image, rbase, pass>>
  BY DEF ReformTest, unitvars
<1>2. ReformRegular'
  BY <1>1 DEF Gathered, ReformRegular
<1>3. CASE o.active
  <2>1. tested' = {o} /\ rtodo' = rtodo
    BY <1>3
  <2>2. rbase - 1 <= o.pass /\ Past(o, u, r[2])
    BY TermFacts DEF Gathered, Renewed, Past
  <2>3. ASSUME NEW d \in rtodo, Upcoming(d, rtodo)
        PROVE  d = r
    BY <1>1, <2>3, NextPair DEF TypeOK
  <2>4. \A i \in Pixels : \A t \in image[i] :
          ReformUnit(i) = u /\ t.slot = r[2] => t.added.pass <= o.pass
    BY DEF Gathered, Past
  <2> HIDE DEF o
  <2> QED
    BY <1>1, <1>2, <2>1, <2>2, <2>3, <2>4 DEF Gathered, Past
<1>4. CASE ~o.active
  <2>1. tested' = {} /\ rtodo' = rtodo \ {r}
    BY <1>1, <1>4
  <2> QED
    BY <1>1, <1>2, <2>1 DEF Gathered, Past
<1> QED
  BY <1>3, <1>4

\* The output is added: it is what was tested or of a later pass, and every
\* term of an earlier pixel is no later than what was tested.
LEMMA GatheredAdd ==
  ASSUME TypeOK, Renewed, Gathered, ReformAdd
  PROVE  Gathered'
<1> PICK r \in rtodo, o \in tested : ReformAdd!1!(r, o)
  BY DEF ReformAdd
<1> DEFINE u == ReformUnit(r[1])
           a == outputs[u][r[2]]
           n == [slot |-> r[2], tested |-> o, added |-> a]
<1>1. /\ tested' = {} /\ rtodo' = rtodo \ {r} /\ Upcoming(r, rtodo)
      /\ image' = [image EXCEPT ![r[1]] = @ \cup {n}]
      /\ UNCHANGED <<outputs, call, rbase, pass>>
  BY DEF ReformAdd, unitvars
<1>2. /\ r[1] \in Pixels /\ u \in Units /\ r[2] \in Outputs
      /\ n.slot = r[2] /\ n.tested = o /\ n.added = a
  BY TermFacts
<1>3. /\ rbase - 1 <= o.pass /\ o.pass <= a.pass /\ a.pass <= pass
      /\ o # a /\ a.pass < MaxPass => o.pass < a.pass
  BY <1>1, <1>2, TermFacts DEF Gathered, Past, Renewed
<1>4. \A i \in Pixels : \A t \in image[i] :
        /\ ReformUnit(i) = u /\ t.slot = r[2] => t.added.pass <= o.pass
        /\ i <= r[1]
  BY <1>1 DEF Gathered
<1>5. \A d \in rtodo' : r[1] <= d[1]
  BY <1>1, NextPair DEF TypeOK
<1> HIDE DEF n
<1>6. ASSUME NEW i \in Pixels, NEW t \in image'[i]
      PROVE  t \in image[i] \/ (t = n /\ i = r[1])
  BY <1>1, <1>2, <1>6 DEF TypeOK
<1>7. Past(a, u, r[2])
  BY <1>2, TermFacts DEF Past
<1> HIDE DEF a, u
<1>8. ASSUME NEW i \in Pixels, NEW t \in image'[i]
      PROVE  Past(t.added, ReformUnit(i), t.slot)' /\ \A d \in rtodo' : i <= d[1]
  <2>1. CASE t \in image[i]
    BY <1>1, <2>1 DEF Gathered, Past
  <2>2. CASE t = n /\ i = r[1]
    BY <1>1, <1>2, <1>5, <1>7, <2>2 DEF Past, u
  <2> QED
    BY <1>6, <1>8, <2>1, <2>2
<1>9. ReformRegular'
  <2>1. ASSUME NEW i \in Pixels, NEW t \in image'[i]
        PROVE  /\ t.tested.pass \in rbase - 1 .. t.added.pass /\ t.added.pass <= pass
               /\ t.tested # t.added /\ t.added.pass < MaxPass => t.tested.pass < t.added.pass
    <3>1. CASE t \in image[i]
      BY <3>1 DEF Gathered, ReformRegular
    <3>2. CASE t = n
      BY <1>2, <1>3, <3>2, TermFacts DEF a
    <3> QED
      BY <1>6, <2>1, <3>1, <3>2
  <2>2. ASSUME NEW i \in Pixels, NEW t \in image'[i], NEW k \in Pixels, NEW v \in image'[k],
               i < k, ReformUnit(i) = ReformUnit(k), t.slot = v.slot
        PROVE  t.added.pass <= v.tested.pass
    <3>1. CASE t \in image[i] /\ v \in image[k]
      BY <2>2, <3>1 DEF Gathered, ReformRegular
    <3>2. CASE t \in image[i] /\ v = n /\ k = r[1]
      BY <1>2, <1>4, <2>2, <3>2 DEF u
    <3>3. CASE t = n /\ i = r[1] /\ v \in image[k]
      <4>1. k <= r[1]
        BY <1>4, <3>3
      <4> QED
        BY <2>2, <3>3, <4>1, TermFacts
    <3>4. CASE t = n /\ i = r[1] /\ v = n /\ k = r[1]
      BY <2>2, <3>4, TermFacts
    <3> QED
      BY <1>6, <2>2, <3>1, <3>2, <3>3, <3>4
  <2> QED
    BY <1>1, <2>1, <2>2 DEF ReformRegular
<1>10. call = "reform"
  BY DEF Gathered
<1> QED
  BY <1>1, <1>8, <1>9, <1>10 DEF Gathered

LEMMA GatheredNext ==
  TypeOK /\ Inside /\ Renewed /\ Owing /\ Gathered /\ [Next]_vars => Gathered'
<1> SUFFICES ASSUME TypeOK, Inside, Renewed, Owing, Gathered, [Next]_vars
             PROVE  Gathered'
  OBVIOUS
<1>1. CASE UNCHANGED <<outputs, rbase, pass, rtodo, tested, call, image>>
  BY <1>1 DEF Gathered, ReformRegular, Past
<1>2. CASE StartWrite \/ WriteCell \/ EndWrite
  BY <1>2 DEF StartWrite, WriteCell, EndWrite, unitvars, Gathered, ReformRegular, Past
<1>3. CASE StartReform
  <2>1. rtodo = {} /\ tested = {} /\ \A i \in Pixels : image[i] = {}
    BY <1>3 DEF StartReform, Gathered
  <2>2. /\ call' = "reform" /\ rbase' = pass
        /\ UNCHANGED <<outputs, tested, image, pass>>
    BY <1>3 DEF StartReform, unitvars
  <2> QED
    BY <2>1, <2>2, TermFacts DEF Gathered, ReformRegular
<1>4. CASE ReformTest
  BY <1>4, GatheredTest
<1>5. CASE ReformAdd
  BY <1>5, GatheredAdd
<1>6. CASE EndReform
  <2>1. /\ rtodo' = {} /\ tested' = {} /\ \A i \in Pixels : image'[i] = {}
        /\ rbase' = 0 /\ pass' = pass /\ pass >= 0
    BY <1>6 DEF EndReform, Gathered, TypeOK, Passes
  <2> QED
    BY <2>1, TermFacts DEF Gathered, ReformRegular
<1>7. CASE NextPass
  <2>1. pass' >= pass /\ pass' \in Int /\ UNCHANGED <<outputs, rbase, rtodo, tested, call, image>>
    BY <1>7, TermFacts DEF NextPass, rpcvars, unitvars
  <2>2. ReformRegular'
    BY <2>1, TermFacts DEF Gathered, ReformRegular
  <2>3. (rbase <= pass)'
    BY <2>1, TermFacts DEF Gathered
  <2> QED
    BY <2>1, <2>2, <2>3 DEF Gathered, Past
<1>8. ASSUME NEW w \in Workers, Work(w)
      PROVE  Gathered'
  <2>1. UNCHANGED <<rbase, pass, rtodo, tested, call, image>>
    BY <1>8 DEF Work, Claim, Collect, Mismatch, Renew, Match, Learn, Activate, Leave, rpcvars
  <2>2. \A o \in Output, u \in Units, j \in Outputs : Past(o, u, j) => Past(o, u, j)'
    BY <1>8, OutputsAdvance, PastKept
  <2>3. \A i \in Pixels : \A t \in image[i] : Past(t.added, ReformUnit(i), t.slot)'
    BY <2>2, TermFacts DEF Gathered
  <2>4. ASSUME NEW r \in rtodo, NEW o \in tested, Upcoming(r, rtodo)
        PROVE  Past(o, ReformUnit(r[1]), r[2])'
    BY <2>2, <2>4, TermFacts DEF Gathered
  <2>5. ReformRegular'
    BY <2>1 DEF Gathered, ReformRegular
  <2> QED
    BY <2>1, <2>3, <2>4, <2>5 DEF Gathered
<1>9. CASE UNCHANGED vars
  BY <1>1, <1>9 DEF vars, rpcvars, unitvars
<1> QED
  BY <1>1, <1>2, <1>3, <1>4, <1>5, <1>6, <1>7, <1>8, <1>9 DEF Next, Rpc

\* What a reply tests is no staler than the pass before the one during which
\* the call began, what it adds is what it tested or of a later pass, and its
\* pixels do not go back in time, for any number of passes run meanwhile.
THEOREM RepliesRegular == Spec => []ReformRegular
<1>1. Init => Gathered
  BY DEF Init, Gathered, ReformRegular
<1>2. Init => Owing
  BY DEF Init, Owing, Done
<1>3. Spec => []Owing
  BY <1>2, OwingNext, ColumnsOwned, AlwaysRenewed, TypeCorrect, PTL DEF Spec
<1>4. Gathered => ReformRegular
  BY DEF Gathered
<1> QED
  BY <1>1, <1>3, <1>4, GatheredNext, AlwaysRenewed, TypeCorrect, PTL DEF Spec

-----------------------------------------------------------------------------
(* What a worker may read while frames are written *)

\* No input is older than the last complete frame.
Recent == \A u \in Units, i \in Inputs : inputs[u][i].frame \in Complete .. frame

(* Every input of every unit is written by some iteration of write. *)
LEMMA EveryInputWritten ==
  ASSUME NEW u \in Units, NEW i \in Inputs
  PROVE  \E c \in Cells : WriteUnit(c) = u /\ WriteInput(c) = i
<1> DEFINE c == <<u[1], u[2], i % uwidth, i \div uwidth>>
<1>1. i \in 0 .. uheight * uwidth - 1
  <2>1. uwidth * uheight = uheight * uwidth
    BY SMT
  <2> QED
    BY <2>1 DEF Inputs, outsize
<1>2. /\ i \div uwidth \in 0 .. uheight - 1
      /\ i % uwidth \in 0 .. uwidth - 1
      /\ i = (i \div uwidth) * uwidth + (i % uwidth)
  BY <1>1, DivModBound
<1>3. c \in Cells
  BY <1>2, UnitShape DEF Cells
<1>4. WriteInput(c) = (i % uwidth) + (i \div uwidth) * uwidth
  BY DEF WriteInput
<1>5. WriteInput(c) = i
  <2>1. (i \div uwidth) * uwidth \in Int
    BY <1>2, SMT
  <2> QED
    BY <1>2, <1>4, <2>1, SMT
<1>6. WriteUnit(c) = u
  BY UnitShape DEF WriteUnit
<1> QED
  BY <1>3, <1>5, <1>6

\* A write advances what it touches and what has been complete stays complete.
Forward == /\ Complete' >= Complete
           /\ \A u \in Units, i \in Inputs : inputs'[u][i].frame >= inputs[u][i].frame

LEMMA FrameNumbers ==
  ASSUME TypeOK
  PROVE  /\ frame \in Int /\ Complete \in Int /\ Complete <= frame
         /\ \A u \in Units, i \in Inputs : inputs[u][i].frame \in Int
BY DEF TypeOK, Frames, Complete

LEMMA RecentNext == TypeOK /\ Landed /\ Recent /\ [Next]_vars => Recent' /\ Forward
<1> SUFFICES ASSUME TypeOK, Landed, Recent, [Next]_vars
             PROVE  Recent' /\ Forward
  OBVIOUS
<1>0. frame \in Int /\ Complete \in Int /\ \A u \in Units, i \in Inputs : inputs[u][i].frame \in Int
  BY FrameNumbers
<1>1. CASE UNCHANGED <<inputs, call, frame>>
  BY <1>0, <1>1 DEF Recent, Forward, Complete
<1>2. CASE StartWrite
  <2>1. inputs' = inputs /\ Complete' = frame /\ frame' = frame + 1 /\ Complete = frame
    BY <1>0, <1>2 DEF StartWrite, Complete, unitvars
  <2> QED
    BY <1>0, <2>1 DEF Recent, Forward
<1>3. CASE WriteCell
  <2> PICK c \in todo : inputs' = [inputs EXCEPT ![WriteUnit(c)][WriteInput(c)] =
                                    [frame |-> frame, pixel |-> WritePixel(c)]]
    BY <1>3 DEF WriteCell
  <2>1. WriteUnit(c) \in Units /\ WriteInput(c) \in Inputs
    BY WriteInRange DEF TypeOK
  <2>2. Complete' = Complete /\ frame' = frame
    BY <1>3 DEF WriteCell, Complete
  <2>3. \A u \in Units, i \in Inputs :
          inputs'[u][i].frame = IF u = WriteUnit(c) /\ i = WriteInput(c) THEN frame
                                ELSE inputs[u][i].frame
    BY <2>1 DEF TypeOK
  <2>4. Complete <= frame
    BY FrameNumbers
  <2> QED
    BY <1>0, <2>2, <2>3, <2>4 DEF Recent, Forward
<1>4. CASE EndWrite
  <2>1. /\ inputs' = inputs /\ Complete' = frame /\ frame' = frame
        /\ Complete = frame - 1 /\ todo = {}
    BY <1>4 DEF EndWrite, Complete, unitvars
  <2>2. frame > 0
    BY <1>0, <2>1 DEF TypeOK, Frames
  <2>3. ASSUME NEW u \in Units, NEW i \in Inputs
        PROVE  inputs[u][i].frame = frame
    <3>1. PICK c \in Cells : WriteUnit(c) = u /\ WriteInput(c) = i
      BY EveryInputWritten
    <3>2. inputs[u][i] = [frame |-> frame, pixel |-> WritePixel(c)]
      BY <2>1, <2>2, <3>1 DEF Landed
    <3> QED
      BY <3>2
  <2> QED
    BY <1>0, <2>1, <2>3 DEF Recent, Forward
<1>5. CASE StartReform \/ EndReform
  <2>1. UNCHANGED <<inputs, Complete, frame>>
    BY <1>5 DEF StartReform, EndReform, unitvars, Complete
  <2> QED
    BY <1>0, <2>1 DEF Recent, Forward
<1>6. CASE ReformTest \/ ReformAdd \/ NextPass
  BY <1>1, <1>6 DEF ReformTest, ReformAdd, NextPass, unitvars, rpcvars
<1>7. ASSUME NEW w \in Workers, Work(w)
      PROVE  UNCHANGED <<inputs, call, frame>>
  BY <1>7 DEF Work, Claim, Collect, Mismatch, Renew, Match, Learn, Activate, Leave,
              unitvars, rpcvars
<1>8. CASE UNCHANGED vars
  BY <1>1, <1>8 DEF vars, unitvars, rpcvars
<1> QED
  BY <1>1, <1>2, <1>3, <1>4, <1>5, <1>6, <1>7, <1>8 DEF Next, Rpc

\* The order of two nested loops.
LEMMA BeforePair ==
  ASSUME NEW p \in Pairs, NEW q \in Pairs
  PROVE  Before(p, q) <=> p[1] < q[1] \/ (p[1] = q[1] /\ p[2] < q[2])
<1>1. /\ p = <<p[1], p[2]>> /\ DOMAIN p = {1, 2}
      /\ p[1] \in Int /\ p[2] \in Int /\ q[1] \in Int /\ q[2] \in Int
  BY Sizes DEF Pairs, Inputs, Outputs
<1>2. 1 .. 1 - 1 = {} /\ 1 .. 2 - 1 = {1}
  BY SMT
<1> QED
  BY <1>1, <1>2 DEF Before

\* A worker reads its links in order, none from a frame before the last that
\* was complete when it entered the unit.
Collected ==
  /\ \A w \in Workers : base[w] <= Complete
  /\ \A w \in Workers : \A p \in reads[w], q \in Pairs : Before(p, q) => q \in reads[w]
  /\ CollectRegular

\* Advancing the inputs leaves what was read in range.
LEMMA CollectedForward ==
  ASSUME TypeOK, Collected, Forward, TypeOK',
         UNCHANGED <<at, reads, seen, base>>
  PROVE  Collected'
<1>1. /\ \A w \in Workers : base[w] \in Int /\ \A p \in Pairs : seen[w][p] \in Int
      /\ Complete \in Int /\ Complete' \in Int
      /\ \A u \in Units, i \in Inputs : inputs[u][i].frame \in Int /\ inputs'[u][i].frame \in Int
  BY DEF TypeOK, Frames
<1>2. \A w \in Workers : base[w] <= Complete'
  BY <1>1 DEF Collected, Forward
<1>3. ASSUME NEW w \in Workers, at[w] # Nowhere, NEW p \in Pairs \ reads[w]
      PROVE  seen[w][p] \in base[w] .. inputs'[at[w]][p[1]].frame
  <2>1. at[w] \in Units /\ p[1] \in Inputs
    BY <1>3 DEF TypeOK, Pairs
  <2>2. seen[w][p] \in base[w] .. inputs[at[w]][p[1]].frame
    BY <1>3 DEF Collected, CollectRegular
  <2> QED
    BY <1>1, <2>1, <2>2 DEF Forward
<1> QED
  BY <1>2, <1>3 DEF Collected, CollectRegular

\* A worker that enters a unit has read nothing of it.
LEMMA CollectedEnter ==
  ASSUME TypeOK, Collected, NEW w \in Workers, NEW u \in Units, Enter(w, u),
         UNCHANGED <<inputs, call, frame>>,
         \A v \in Workers : v # w => seen'[v] = seen[v]
  PROVE  Collected'
<1>1. /\ Complete' = Complete /\ Complete \in Int
      /\ reads'[w] = Pairs /\ base'[w] = Complete
      /\ \A v \in Workers : v # w => /\ at'[v] = at[v] /\ reads'[v] = reads[v]
                                     /\ base'[v] = base[v]
  BY FrameNumbers DEF Enter, TypeOK, Complete
<1> QED
  BY <1>1 DEF Collected, CollectRegular

LEMMA CollectedNext ==
  TypeOK /\ Inside /\ Landed /\ Recent /\ Collected /\ [Next]_vars => Collected'
<1> SUFFICES ASSUME TypeOK, Inside, Landed, Recent, Collected, [Next]_vars
             PROVE  Collected'
  OBVIOUS
<1>0. Forward /\ TypeOK'
  BY RecentNext, TypeNext
<1>1. CASE UNCHANGED <<at, reads, seen, base>>
  BY <1>0, <1>1, CollectedForward
<1>2. CASE Rpc \/ NextPass \/ UNCHANGED vars
  BY <1>1, <1>2 DEF Rpc, StartWrite, StartReform, WriteCell, EndWrite, ReformTest, ReformAdd,
                    EndReform, NextPass, workervars, vars
<1>3. ASSUME NEW w \in Workers, Claim(w)
      PROVE  Collected'
  <2> PICK x \in unclaimed : Enter(w, <<x, 0>>)
    BY <1>3 DEF Claim
  <2>1. <<x, 0>> \in Units /\ UNCHANGED <<inputs, call, frame, seen>>
    BY <1>3, RowZero DEF Claim, TypeOK, unitvars, rpcvars
  <2> QED
    BY <2>1, CollectedEnter
<1>4. ASSUME NEW w \in Workers, Collect(w)
      PROVE  Collected'
  <2> PICK p \in reads[w] :
        /\ Upcoming(p, reads[w])
        /\ seen' = [seen EXCEPT ![w][p] = inputs[at[w]][p[1]].frame]
        /\ reads' = [reads EXCEPT ![w] = @ \ {p}]
    BY <1>4 DEF Collect
  <2>1. /\ p \in Pairs /\ p[1] \in Inputs /\ at[w] \in Units /\ at[w] # Nowhere
        /\ UNCHANGED <<at, base, inputs, Complete>>
    BY <1>4, UnitShape DEF Collect, TypeOK, Inside, Pairs, unitvars, rpcvars, Complete
  <2>2. /\ \A q \in Pairs : seen'[w][q] = IF q = p THEN inputs[at[w]][p[1]].frame ELSE seen[w][q]
        /\ reads'[w] = reads[w] \ {p}
        /\ \A v \in Workers : v # w => seen'[v] = seen[v] /\ reads'[v] = reads[v]
    BY DEF TypeOK
  <2>3. \A q \in reads[w] : q # p => Before(p, q)
    BY DEF Upcoming
  <2>4. \A q \in Pairs : q[1] \in Int /\ q[2] \in Int
    BY Sizes DEF Pairs, Inputs, Outputs
  <2>5. ASSUME NEW a \in reads'[w], NEW b \in Pairs, Before(a, b)
        PROVE  b \in reads'[w]
    <3>1. a \in reads[w] /\ a # p /\ a \in Pairs
      BY <2>2 DEF TypeOK
    <3>2. b \in reads[w]
      BY <2>5, <3>1 DEF Collected
    <3>3. b # p
      BY <2>1, <2>3, <2>4, <2>5, <3>1, BeforePair
    <3> QED
      BY <2>2, <3>2, <3>3
  <2>6. inputs[at[w]][p[1]].frame >= base[w]
    <3>1. inputs[at[w]][p[1]].frame >= Complete
      BY <2>1 DEF Recent
    <3>2. base[w] \in Int /\ base[w] <= Complete /\ Complete \in Int
      BY DEF TypeOK, Frames, Collected
    <3>3. inputs[at[w]][p[1]].frame \in Int
      BY <2>1, FrameNumbers
    <3> QED
      BY <3>1, <3>2, <3>3
  <2>7. ASSUME NEW q \in Pairs \ reads'[w]
        PROVE  seen'[w][q] \in base[w] .. inputs[at[w]][q[1]].frame
    <3>1. inputs[at[w]][p[1]].frame \in Int /\ base[w] \in Int
      BY <2>1, FrameNumbers DEF TypeOK, Frames
    <3>2. CASE q = p
      BY <2>2, <2>6, <3>1, <3>2
    <3>3. CASE q # p
      BY <2>1, <2>2, <2>7, <3>3 DEF Collected, CollectRegular
    <3> QED
      BY <3>2, <3>3
  <2>8. ASSUME NEW q \in Pairs \ reads'[w], NEW r \in Pairs \ reads'[w],
               q[1] = r[1], q[2] < r[2]
        PROVE  seen'[w][q] <= seen'[w][r]
    <3>1. q # r
      BY <2>4, <2>8
    <3>2. CASE q # p /\ r # p
      BY <2>1, <2>2, <2>8, <3>2 DEF Collected, CollectRegular
    <3>3. CASE q = p
      <4>1. Before(p, r)
        BY <2>1, <2>8, <3>3, BeforePair
      <4>2. r \in reads[w]
        BY <4>1 DEF Collected
      <4> QED
        BY <2>2, <2>8, <3>1, <3>3, <4>2
    <3>4. CASE r = p
      <4>1. seen'[w][q] \in base[w] .. inputs[at[w]][q[1]].frame
        BY <2>7, <2>8
      <4>2. inputs[at[w]][q[1]].frame \in Int /\ base[w] \in Int
        BY <2>1, <2>8, <3>4, FrameNumbers DEF TypeOK, Frames
      <4> QED
        BY <2>2, <2>8, <3>4, <4>1, <4>2
    <3> QED
      BY <3>2, <3>3, <3>4
  <2>9. \A v \in Workers : v # w => \A a \in reads'[v], b \in Pairs : Before(a, b) => b \in reads'[v]
    BY <2>2 DEF Collected
  <2>10. \A v \in Workers : base'[v] <= Complete'
    BY <2>1 DEF Collected
  <2>11. CollectRegular'
    BY <2>1, <2>2, <2>7, <2>8 DEF Collected, CollectRegular
  <2> QED
    BY <2>5, <2>9, <2>10, <2>11 DEF Collected
<1>5. ASSUME NEW w \in Workers,
             Mismatch(w) \/ Renew(w) \/ Match(w) \/ Learn(w) \/ Activate(w)
      PROVE  Collected'
  BY <1>1, <1>5 DEF Mismatch, Renew, Match, Learn, Activate
<1>6. ASSUME NEW w \in Workers, Leave(w)
      PROVE  Collected'
  <2>1. /\ at[w] \in Units /\ at[w][1] \in Columns /\ at[w][2] \in Rows
        /\ UNCHANGED <<inputs, call, frame>>
        /\ \A v \in Workers : v # w => seen'[v] = seen[v]
    BY <1>6, UnitShape DEF Leave, Between, TypeOK, unitvars, rpcvars
  <2>2. CASE at[w][2] + 1 < unitsy
    <3>1. <<at[w][1], at[w][2] + 1>> \in Units
      BY <2>1, <2>2 DEF Units, Rows
    <3>2. Enter(w, <<at[w][1], at[w][2] + 1>>)
      BY <1>6, <2>2 DEF Leave
    <3> QED
      BY <2>1, <3>1, <3>2, CollectedEnter
  <2>3. CASE ~(at[w][2] + 1 < unitsy)
    <3>1. /\ at' = [at EXCEPT ![w] = Nowhere]
          /\ base' = [base EXCEPT ![w] = 0]
          /\ UNCHANGED <<reads, slots>>
      BY <1>6, <2>3 DEF Leave
    <3>2. Complete' = Complete /\ Complete >= 0
      BY <2>1 DEF Complete, TypeOK, Frames
    <3>3. /\ at'[w] = Nowhere /\ base'[w] = 0
          /\ \A v \in Workers : v # w => at'[v] = at[v] /\ base'[v] = base[v]
      BY <3>1 DEF TypeOK
    <3> QED
      BY <2>1, <3>1, <3>2, <3>3 DEF Collected, CollectRegular
  <2> QED
    BY <2>2, <2>3
<1> QED
  BY <1>2, <1>3, <1>4, <1>5, <1>6 DEF Next, Work

LEMMA AlwaysRecent == Spec => [](Landed /\ Recent)
<1>1. Init => Landed /\ Recent
  BY DEF Init, Landed, Recent, Complete
<1>2. TypeOK /\ Landed /\ Recent /\ [Next]_vars => (Landed /\ Recent)'
  BY LandedNext, RecentNext
<1> QED
  BY <1>1, <1>2, TypeCorrect, PTL DEF Spec

LEMMA AlwaysCollected == Spec => []Collected
<1>1. Init => Collected
  BY DEF Init, Collected, CollectRegular, Complete
<1> QED
  BY <1>1, CollectedNext, AlwaysRecent, TypeCorrect, PTL DEF Spec

\* What a worker reads of a unit is never older than the last frame that was
\* complete when it entered, and of one input never goes back in time.
THEOREM ReadsRegular == Spec => []CollectRegular
<1>1. Collected => CollectRegular
  BY DEF Collected
<1> QED
  BY <1>1, AlwaysCollected, PTL

-----------------------------------------------------------------------------
(* From one pass to the next *)

\* Every frame a unit was computed from is matched by an input that is no
\* older, every input by a frame that is no newer; and what a worker has read
\* of the unit since is as new as what the unit was computed from.
Renewing ==
  /\ \A u \in Units :
       /\ \A f \in basis[u] : \E i \in Inputs : f <= inputs[u][i].frame
       /\ \A i \in Inputs : \E f \in basis[u] : f <= inputs[u][i].frame
  /\ \A w \in Workers : at[w] # Nowhere =>
       /\ \A f \in basis[at[w]] : \E i \in Inputs :
            /\ f <= inputs[at[w]][i].frame
            /\ \A j \in Outputs : <<i, j>> \notin reads[w] => f <= seen[w][<<i, j>>]
       /\ \A p \in Pairs \ reads[w] : \E f \in basis[at[w]] : f <= seen[w][p]

\* Advancing the inputs keeps that.
LEMMA RenewingForward ==
  ASSUME TypeOK, Renewing, Forward, TypeOK',
         UNCHANGED <<at, reads, seen, basis>>
  PROVE  Renewing'
<1>1. \A u \in Units, i \in Inputs : inputs[u][i].frame \in Int /\ inputs'[u][i].frame \in Int
  BY DEF TypeOK, Frames
<1>2. \A u \in Units : basis[u] \subseteq Int
  BY DEF TypeOK, Frames
<1>3. \A u \in Units, i \in Inputs, f \in Int :
        f <= inputs[u][i].frame => f <= inputs'[u][i].frame
  BY <1>1 DEF Forward
<1>4. ASSUME NEW u \in Units
      PROVE  /\ \A f \in basis[u] : \E i \in Inputs : f <= inputs'[u][i].frame
             /\ \A i \in Inputs : \E f \in basis[u] : f <= inputs'[u][i].frame
  BY <1>2, <1>3 DEF Renewing
<1>5. ASSUME NEW w \in Workers, at[w] # Nowhere
      PROVE  /\ \A f \in basis[at[w]] : \E i \in Inputs :
                  /\ f <= inputs'[at[w]][i].frame
                  /\ \A j \in Outputs : <<i, j>> \notin reads[w] => f <= seen[w][<<i, j>>]
             /\ \A p \in Pairs \ reads[w] : \E f \in basis[at[w]] : f <= seen[w][p]
  <2>1. at[w] \in Units
    BY <1>5 DEF TypeOK
  <2> QED
    BY <1>2, <1>3, <1>5, <2>1 DEF Renewing
<1> QED
  BY <1>4, <1>5 DEF Renewing

\* So does a worker that enters a unit, having read nothing of it.
LEMMA RenewingEnter ==
  ASSUME TypeOK, Renewing, NEW w \in Workers, NEW u \in Units, Enter(w, u),
         UNCHANGED inputs,
         \A v \in Workers : v # w => seen'[v] = seen[v],
         \A x \in Units : /\ \A f \in basis'[x] : \E i \in Inputs : f <= inputs[x][i].frame
                          /\ \A i \in Inputs : \E f \in basis'[x] : f <= inputs[x][i].frame,
         \A v \in Workers : v # w /\ at[v] # Nowhere => basis'[at[v]] = basis[at[v]]
  PROVE  Renewing'
<1>1. /\ at'[w] = u /\ reads'[w] = Pairs
      /\ \A v \in Workers : v # w => at'[v] = at[v] /\ reads'[v] = reads[v]
  BY DEF Enter, TypeOK
<1>2. \A f \in basis'[u] : \E i \in Inputs :
        /\ f <= inputs'[u][i].frame
        /\ \A j \in Outputs : <<i, j>> \notin Pairs => f <= seen'[w][<<i, j>>]
  BY DEF Pairs
<1>3. ASSUME NEW v \in Workers, v # w, at'[v] # Nowhere
      PROVE  /\ \A f \in basis'[at'[v]] : \E i \in Inputs :
                  /\ f <= inputs'[at'[v]][i].frame
                  /\ \A j \in Outputs : <<i, j>> \notin reads'[v] => f <= seen'[v][<<i, j>>]
             /\ \A p \in Pairs \ reads'[v] : \E f \in basis'[at'[v]] : f <= seen'[v][p]
  BY <1>1, <1>3 DEF Renewing
<1> QED
  BY <1>1, <1>2, <1>3 DEF Renewing

\* A worker that leaves a unit replaces its frames by those it has read.
LEMMA BasisReplaced ==
  ASSUME TypeOK, Inside, Collected, Renewing, NEW w \in Workers, Leave(w)
  PROVE  /\ \A x \in Units : x # at[w] => basis'[x] = basis[x]
         /\ \A f \in basis'[at[w]] : \E i \in Inputs : f <= inputs[at[w]][i].frame
         /\ \A i \in Inputs : \E f \in basis'[at[w]] : f <= inputs[at[w]][i].frame
         /\ \A g \in basis'[at[w]] : \E f \in basis[at[w]] : f <= g
         /\ \A f \in basis[at[w]] : \E g \in basis'[at[w]] : f <= g
<1>1. at[w] \in Units /\ at[w] # Nowhere /\ reads[w] = {} /\ 0 \in Outputs
  BY Sizes DEF Leave, Between, TypeOK, Outputs
<1>2. /\ basis'[at[w]] = {seen[w][p] : p \in Pairs}
      /\ \A x \in Units : x # at[w] => basis'[x] = basis[x]
  BY <1>1 DEF Leave, TypeOK
<1>3. ASSUME NEW p \in Pairs
      PROVE  p[1] \in Inputs /\ seen[w][p] <= inputs[at[w]][p[1]].frame
  <2>1. p[1] \in Inputs /\ seen[w][p] \in base[w] .. inputs[at[w]][p[1]].frame
    BY <1>1 DEF Pairs, Collected, CollectRegular
  <2> QED
    BY <2>1
<1>4. \A i \in Inputs : <<i, 0>> \in Pairs /\ <<i, 0>>[1] = i
  BY <1>1 DEF Pairs
<1>5. \A f \in basis'[at[w]] : \E i \in Inputs : f <= inputs[at[w]][i].frame
  BY <1>2, <1>3
<1>6. \A i \in Inputs : \E f \in basis'[at[w]] : f <= inputs[at[w]][i].frame
  BY <1>2, <1>3, <1>4
<1>7. \A g \in basis'[at[w]] : \E f \in basis[at[w]] : f <= g
  BY <1>1, <1>2 DEF Renewing
<1>8. ASSUME NEW f \in basis[at[w]]
      PROVE  \E g \in basis'[at[w]] : f <= g
  <2>1. PICK i \in Inputs : \A j \in Outputs : <<i, j>> \notin reads[w] => f <= seen[w][<<i, j>>]
    BY <1>1 DEF Renewing
  <2>2. f <= seen[w][<<i, 0>>]
    BY <1>1, <2>1
  <2> QED
    BY <1>2, <1>4, <2>2
<1> QED
  BY <1>2, <1>5, <1>6, <1>7, <1>8

\* It is the only step that changes the frames of a unit.
MovesForward ==
  \A u \in Units : /\ \A g \in basis'[u] : \E f \in basis[u] : f <= g
                   /\ \A f \in basis[u] : \E g \in basis'[u] : f <= g

LEMMA BasisForward ==
  TypeOK /\ Inside /\ Collected /\ Renewing /\ [Next]_vars => MovesForward
<1> SUFFICES ASSUME TypeOK, Inside, Collected, Renewing, [Next]_vars
             PROVE  MovesForward
  OBVIOUS
<1>0. \A u \in Units : basis[u] \subseteq Int
  BY DEF TypeOK, Frames
<1>1. CASE UNCHANGED basis
  BY <1>0, <1>1 DEF MovesForward
<1>2. CASE Rpc \/ NextPass \/ UNCHANGED vars
  BY <1>1, <1>2 DEF Rpc, StartWrite, StartReform, WriteCell, EndWrite, ReformTest, ReformAdd,
                    EndReform, NextPass, vars
<1>3. ASSUME NEW w \in Workers, Leave(w)
      PROVE  MovesForward
  <2>1. ASSUME NEW u \in Units, u # at[w]
        PROVE  /\ \A g \in basis'[u] : \E f \in basis[u] : f <= g
               /\ \A f \in basis[u] : \E g \in basis'[u] : f <= g
    <3>1. basis'[u] = basis[u]
      BY <1>3, <2>1, BasisReplaced
    <3> QED
      BY <1>0, <3>1
  <2>2. /\ \A g \in basis'[at[w]] : \E f \in basis[at[w]] : f <= g
        /\ \A f \in basis[at[w]] : \E g \in basis'[at[w]] : f <= g
    BY <1>3, BasisReplaced
  <2> QED
    BY <2>1, <2>2 DEF MovesForward
<1>4. ASSUME NEW w \in Workers,
             \/ Claim(w) \/ Collect(w) \/ Mismatch(w) \/ Renew(w) \/ Match(w)
             \/ Learn(w) \/ Activate(w)
      PROVE  UNCHANGED basis
  BY <1>4 DEF Claim, Collect, Mismatch, Renew, Match, Learn, Activate
<1> QED
  BY <1>1, <1>2, <1>3, <1>4 DEF Next, Work

LEMMA RenewingNext ==
  /\ TypeOK /\ Inside /\ ColumnOwned /\ Landed /\ Recent /\ Collected /\ Renewing
  /\ [Next]_vars
  => Renewing'
<1> SUFFICES ASSUME TypeOK, Inside, ColumnOwned, Landed, Recent, Collected, Renewing, [Next]_vars
             PROVE  Renewing'
  OBVIOUS
<1>0. Forward /\ TypeOK'
  BY RecentNext, TypeNext
<1>1. CASE UNCHANGED <<at, reads, seen, basis>>
  BY <1>0, <1>1, RenewingForward
<1>2. CASE Rpc \/ NextPass \/ UNCHANGED vars
  BY <1>1, <1>2 DEF Rpc, StartWrite, StartReform, WriteCell, EndWrite, ReformTest, ReformAdd,
                    EndReform, NextPass, workervars, vars
<1>3. ASSUME NEW w \in Workers, Claim(w)
      PROVE  Renewing'
  <2> PICK x \in unclaimed : Enter(w, <<x, 0>>)
    BY <1>3 DEF Claim
  <2>1. <<x, 0>> \in Units /\ UNCHANGED <<inputs, seen, basis>>
    BY <1>3, RowZero DEF Claim, TypeOK, unitvars
  <2>2. \A u \in Units : /\ \A f \in basis'[u] : \E i \in Inputs : f <= inputs[u][i].frame
                         /\ \A i \in Inputs : \E f \in basis'[u] : f <= inputs[u][i].frame
    BY <2>1 DEF Renewing
  <2> QED
    BY <2>1, <2>2, RenewingEnter
<1>4. ASSUME NEW w \in Workers, Collect(w)
      PROVE  Renewing'
  <2> PICK p \in reads[w] :
        /\ seen' = [seen EXCEPT ![w][p] = inputs[at[w]][p[1]].frame]
        /\ reads' = [reads EXCEPT ![w] = @ \ {p}]
    BY <1>4 DEF Collect
  <2>1. /\ p \in Pairs /\ p[1] \in Inputs /\ at[w] \in Units /\ at[w] # Nowhere
        /\ UNCHANGED <<at, basis, inputs>>
    BY <1>4, UnitShape DEF Collect, TypeOK, Inside, Pairs, unitvars
  <2>2. /\ \A q \in Pairs : seen'[w][q] = IF q = p THEN inputs[at[w]][p[1]].frame ELSE seen[w][q]
        /\ reads'[w] = reads[w] \ {p}
        /\ \A v \in Workers : v # w => seen'[v] = seen[v] /\ reads'[v] = reads[v]
    BY DEF TypeOK
  <2>3. ASSUME NEW f \in basis[at[w]]
        PROVE  \E i \in Inputs :
                 /\ f <= inputs[at[w]][i].frame
                 /\ \A j \in Outputs : <<i, j>> \notin reads'[w] => f <= seen'[w][<<i, j>>]
    <3>1. PICK i \in Inputs :
            /\ f <= inputs[at[w]][i].frame
            /\ \A j \in Outputs : <<i, j>> \notin reads[w] => f <= seen[w][<<i, j>>]
      BY <2>1 DEF Renewing
    <3>2. ASSUME NEW j \in Outputs, <<i, j>> \notin reads'[w]
          PROVE  f <= seen'[w][<<i, j>>]
      <4>1. <<i, j>> \in Pairs
        BY DEF Pairs
      <4>2. CASE <<i, j>> = p
        <5>1. p[1] = i
          BY <4>2
        <5> QED
          BY <2>2, <3>1, <4>1, <4>2, <5>1
      <4>3. CASE <<i, j>> # p
        BY <2>2, <3>1, <3>2, <4>1, <4>3
      <4> QED
        BY <4>2, <4>3
    <3> QED
      BY <3>1, <3>2
  <2>4. ASSUME NEW q \in Pairs \ reads'[w]
        PROVE  \E f \in basis[at[w]] : f <= seen'[w][q]
    <3>1. CASE q = p
      BY <2>1, <2>2, <3>1 DEF Renewing
    <3>2. CASE q # p
      BY <2>1, <2>2, <2>4, <3>2 DEF Renewing
    <3> QED
      BY <3>1, <3>2
  <2> QED
    BY <2>1, <2>2, <2>3, <2>4 DEF Renewing
<1>5. ASSUME NEW w \in Workers,
             Mismatch(w) \/ Renew(w) \/ Match(w) \/ Learn(w) \/ Activate(w)
      PROVE  Renewing'
  BY <1>1, <1>5 DEF Mismatch, Renew, Match, Learn, Activate
<1>6. ASSUME NEW w \in Workers, Leave(w)
      PROVE  Renewing'
  <2>1. /\ at[w] \in Units /\ at[w][1] \in Columns /\ at[w][2] \in Rows /\ at[w] # Nowhere
        /\ UNCHANGED inputs
        /\ \A v \in Workers : v # w => seen'[v] = seen[v]
    BY <1>6, UnitShape DEF Leave, Between, TypeOK, unitvars
  <2>2. \A x \in Units : /\ \A f \in basis'[x] : \E i \in Inputs : f <= inputs[x][i].frame
                         /\ \A i \in Inputs : \E f \in basis'[x] : f <= inputs[x][i].frame
    <3> TAKE x \in Units
    <3>1. CASE x = at[w]
      BY <1>6, <3>1, BasisReplaced
    <3>2. CASE x # at[w]
      <4>1. basis'[x] = basis[x]
        BY <1>6, <3>2, BasisReplaced
      <4> QED
        BY <4>1 DEF Renewing
    <3> QED
      BY <3>1, <3>2
  <2>3. ASSUME NEW v \in Workers, v # w, at[v] # Nowhere
        PROVE  basis'[at[v]] = basis[at[v]]
    <3>1. at[v] \in Units /\ at[v] # at[w]
      BY <2>1, <2>3 DEF TypeOK, ColumnOwned
    <3> QED
      BY <1>6, <3>1, BasisReplaced
  <2>4. CASE at[w][2] + 1 < unitsy
    <3>1. <<at[w][1], at[w][2] + 1>> \in Units
      BY <2>1, <2>4 DEF Units, Rows
    <3>2. Enter(w, <<at[w][1], at[w][2] + 1>>)
      BY <1>6, <2>4 DEF Leave
    <3> QED
      BY <2>1, <2>2, <2>3, <3>1, <3>2, RenewingEnter
  <2>5. CASE ~(at[w][2] + 1 < unitsy)
    <3>1. at' = [at EXCEPT ![w] = Nowhere] /\ reads' = reads
      BY <1>6, <2>5 DEF Leave
    <3>2. at'[w] = Nowhere /\ \A v \in Workers : v # w => at'[v] = at[v]
      BY <3>1 DEF TypeOK
    <3>3. ASSUME NEW v \in Workers, at'[v] # Nowhere
          PROVE  /\ \A f \in basis'[at'[v]] : \E i \in Inputs :
                      /\ f <= inputs'[at'[v]][i].frame
                      /\ \A j \in Outputs : <<i, j>> \notin reads'[v] => f <= seen'[v][<<i, j>>]
                 /\ \A p \in Pairs \ reads'[v] : \E f \in basis'[at'[v]] : f <= seen'[v][p]
      <4>1. v # w /\ at'[v] = at[v] /\ at[v] # Nowhere
        BY <3>2, <3>3
      <4>2. basis'[at[v]] = basis[at[v]] /\ seen'[v] = seen[v] /\ reads'[v] = reads[v]
        BY <2>1, <2>3, <3>1, <4>1
      <4> QED
        BY <2>1, <4>1, <4>2 DEF Renewing
    <3> QED
      BY <2>1, <2>2, <3>3 DEF Renewing
  <2> QED
    BY <2>4, <2>5
<1> QED
  BY <1>2, <1>3, <1>4, <1>5, <1>6 DEF Next, Work

\* A unit's view never moves back in time from one pass to the next, however
\* writes and passes interleave.
THEOREM ViewsMoveForward == Spec => UnitsMoveForward
<1>1. Init => Renewing
  <2>1. 0 \in Inputs
    BY Sizes DEF Inputs
  <2> QED
    BY <2>1 DEF Init, Renewing
<1>2. Spec => []Renewing
  BY <1>1, RenewingNext, ColumnsOwned, AlwaysRecent, AlwaysCollected, TypeCorrect, PTL DEF Spec
<1>3. TypeOK /\ Inside /\ Collected /\ Renewing /\ [Next]_vars => [MovesForward]_vars
  BY BasisForward
<1>4. Spec => [][MovesForward]_vars
  BY <1>2, <1>3, AlwaysCollected, TypeCorrect, PTL DEF Spec
<1> QED
  BY <1>4 DEF UnitsMoveForward, MovesForward
==============================================================================
