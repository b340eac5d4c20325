--------------------------- MODULE LintTextProofs ---------------------------
(* Lemmas about how cpplint reads a file: what the recursive functions of    *)
(* LintText return for every line, and that the four copies of a file are    *)
(* lines again, as many as the file has; that both scans for the other end   *)
(* of an expression agree; and that cleansing leaves just the braces that a  *)
(* reader of the whole file takes for code.                                  *)
(*                                                                           *)
(* A recursive function is a CHOOSE in the logic: Recursion shows that there *)
(* is one to choose, Induction what it returns.                              *)
EXTENDS LintBrackets, LintReader, Integers, SequenceTheorems, FiniteSetTheorems,
        WellFoundedInduction, TLAPS

-----------------------------------------------------------------------------
(* Induction and recursion                                                   *)


\* A set of numbers has a least one.
LEMMA LeastOf ==
  ASSUME NEW T, T \subseteq Nat, T # {}
  PROVE  \E n \in T : \A m \in T : n <= m
<1> DEFINE lt == {p \in Nat \X Nat : p[1] < p[2]}
<1>1. lt = OpToRel(<, Nat)
  BY DEF OpToRel
<1>2. IsWellFoundedOn(lt, Nat)
  BY <1>1, NatLessThanWellFounded
<1> HIDE DEF lt
<1>3. PICK x \in T : \A y \in T : <<y, x>> \notin lt
  BY <1>2, WFMin
<1>4. \A y \in T : ~(y < x)
  BY <1>3 DEF lt
<1> QED
  BY <1>4

\* Induction on the size of what is looked at.
LEMMA Induction ==
  ASSUME NEW S, NEW size \in [S -> Nat], NEW P,
         \A x \in S : (\A y \in S : size[y] < size[x] => y \in P) => x \in P
  PROVE  S \subseteq P
<1> SUFFICES ASSUME NEW z \in S, z \notin P PROVE FALSE
  OBVIOUS
<1> DEFINE Sizes == {size[x] : x \in S \ P}
<1>1. Sizes \subseteq Nat /\ Sizes # {}
  OBVIOUS
<1>2. PICK n \in Sizes : \A k \in Sizes : n <= k
  BY <1>1, LeastOf
<1>3. PICK x \in S \ P : size[x] = n
  OBVIOUS
<1>4. ASSUME NEW y \in S, size[y] < size[x] PROVE y \in P
  <2> SUFFICES ASSUME y \notin P PROVE FALSE
    OBVIOUS
  <2>1. size[y] \in Sizes
    OBVIOUS
  <2>2. n <= size[y] /\ size[y] \in Nat /\ n \in Nat
    BY <1>1, <1>2, <2>1
  <2> QED
    BY <1>3, <1>4, <2>2
<1> QED
  BY <1>3, <1>4

\* A recursion over S that ends with base in ends and goes on from next
\* elsewhere, whose result op adds to.
Shrinks(S, size, ends, next) ==
  /\ size \in [S -> Nat] /\ ends \subseteq S /\ next \in [S -> S]
  /\ \A x \in S \ ends : size[next[x]] < size[x]
Solution(f, S, ends, next, base, op) ==
  \A x \in S : f[x] = IF x \in ends THEN base[x] ELSE op[<<x, f[next[x]]>>]

\* A recursion that goes on from something smaller has a function that solves it.
LEMMA Recursion ==
  ASSUME NEW S, NEW R, NEW size, NEW ends, NEW next, Shrinks(S, size, ends, next),
         NEW base \in [S -> R], NEW op \in [S \X R -> R]
  PROVE  \E f \in [S -> R] : Solution(f, S, ends, next, base, op)
<1> USE DEF Shrinks
<1> DEFINE Part(n) == {x \in S : size[x] < n}
           Of(g, x) == IF x \in ends THEN base[x] ELSE op[<<x, g[next[x]]>>]
           Solves(g, n) == g \in [Part(n) -> R] /\ \A x \in Part(n) : g[x] = Of(g, x)
<1>1. \A n \in Nat : \E g : Solves(g, n)
  <2> DEFINE Without == {n \in Nat : ~ \E g : Solves(g, n)}
  <2> SUFFICES ASSUME Without # {} PROVE FALSE
    OBVIOUS
  <2>1. PICK n \in Without : \A k \in Without : n <= k
    BY LeastOf
  <2>2. CASE n = 0
    <3>1. Part(0) = {}
      OBVIOUS
    <3>2. Solves([x \in {} |-> x], 0)
      BY <3>1
    <3> QED
      BY <2>1, <2>2, <3>2
  <2>3. CASE n # 0
    <3>1. n - 1 \in Nat /\ n - 1 \notin Without
      <4>1. n \in Nat /\ \A k \in Without : n <= k
        BY <2>1
      <4> HIDE DEF Without
      <4> QED
        BY <2>3, <4>1
    <3>2. PICK g : Solves(g, n - 1)
      BY <3>1
    <3> DEFINE h == [x \in Part(n) |-> Of(g, x)]
    <3>3. \A x \in Part(n) \ ends : next[x] \in Part(n - 1)
      BY <3>1
    <3>4. h \in [Part(n) -> R]
      BY <3>2, <3>3
    <3>5. \A x \in Part(n - 1) : x \in Part(n) /\ h[x] = g[x]
      BY <3>1, <3>2
    <3>6. \A x \in Part(n) : h[x] = Of(h, x)
      <4> TAKE x \in Part(n)
      <4>1. CASE x \in ends
        BY <4>1
      <4>2. CASE x \notin ends
        BY <3>3, <3>5, <4>2
      <4> QED
        BY <4>1, <4>2
    <3>7. Solves(h, n)
      BY <3>4, <3>6
    <3> QED
      BY <2>1, <3>7
  <2> QED
    BY <2>2, <2>3
<1>2. ASSUME NEW n \in Nat, NEW k \in Nat, NEW g, NEW h, Solves(g, n), Solves(h, k)
      PROVE  \A x \in Part(n) \cap Part(k) : g[x] = h[x]
  <2> DEFINE P == {x \in S : x \in Part(n) \cap Part(k) => g[x] = h[x]}
  <2>1. ASSUME NEW x \in S, \A y \in S : size[y] < size[x] => y \in P
        PROVE  x \in P
    <3> SUFFICES ASSUME x \in Part(n) \cap Part(k) PROVE g[x] = h[x]
      OBVIOUS
    <3>1. g[x] = Of(g, x) /\ h[x] = Of(h, x)
      BY <1>2
    <3>2. CASE x \in ends
      BY <3>1, <3>2
    <3>3. CASE x \notin ends
      <4>1. next[x] \in P /\ next[x] \in Part(n) \cap Part(k)
        BY <2>1, <3>3
      <4> QED
        BY <3>1, <3>3, <4>1
    <3> QED
      BY <3>2, <3>3
  <2> HIDE DEF P
  <2>2. S \subseteq P
    BY <2>1, Induction
  <2> QED
    BY <2>2 DEF P
<1> DEFINE sol == [n \in Nat |-> CHOOSE g : Solves(g, n)]
<1>3. \A n \in Nat : Solves(sol[n], n)
  BY <1>1
<1> DEFINE f == [x \in S |-> sol[size[x] + 1][x]]
<1>4. \A x \in S : size[x] + 1 \in Nat /\ x \in Part(size[x] + 1)
  OBVIOUS
<1> HIDE DEF sol
<1>5. f \in [S -> R]
  BY <1>3, <1>4
<1>6. ASSUME NEW x \in S
      PROVE  f[x] = IF x \in ends THEN base[x] ELSE op[<<x, f[next[x]]>>]
  <2> DEFINE n == size[x] + 1
             k == size[next[x]] + 1
  <2>1. f[x] = Of(sol[n], x)
    BY <1>3, <1>4
  <2>2. CASE x \in ends
    BY <2>1, <2>2
  <2>3. CASE x \notin ends
    <3>1. next[x] \in S /\ next[x] \in Part(n) \cap Part(k) /\ n \in Nat /\ k \in Nat
      BY <1>4, <2>3
    <3>2. sol[n][next[x]] = sol[k][next[x]]
      <4>1. Solves(sol[n], n) /\ Solves(sol[k], k)
        BY <1>3, <3>1
      <4> HIDE DEF n, k, Solves, Part
      <4> QED
        BY <1>2, <3>1, <4>1
    <3>3. f[next[x]] = sol[k][next[x]]
      BY <3>1
    <3> QED
      BY <2>1, <2>3, <3>2, <3>3
  <2> QED
    BY <2>2, <2>3
<1> QED
  BY <1>5, <1>6 DEF Solution

-----------------------------------------------------------------------------
(* Lines                                                                     *)

Line == Seq(STRING)

LEMMA MinOf ==
  ASSUME NEW S \in SUBSET Nat, S # {}
  PROVE  Min(S) \in S /\ \A n \in S : Min(S) <= n
<1>1. \E n \in S : \A m \in S : n <= m
  BY LeastOf
<1> QED
  BY <1>1 DEF Min

LEMMA MaxOf ==
  ASSUME NEW S \in SUBSET Nat, S # {}, NEW b \in Nat, \A n \in S : n <= b
  PROVE  Max(S) \in S /\ \A n \in S : n <= Max(S)
<1> DEFINE T == {b - n : n \in S}
<1>1. T \subseteq Nat /\ T # {}
  OBVIOUS
<1>2. PICK t \in T : \A u \in T : t <= u
  BY <1>1, LeastOf
<1>3. PICK n \in S : t = b - n
  OBVIOUS
<1>4. \A m \in S : m <= n
  <2> TAKE m \in S
  <2>1. t <= b - m
    BY <1>2
  <2> QED
    BY <1>3, <2>1
<1>5. \E k \in S : \A m \in S : m <= k
  BY <1>4
<1> QED
  BY <1>5 DEF Max

LEMMA BeforeIs ==
  ASSUME NEW line \in Line, NEW i \in 1 .. Len(line)
  PROVE  Before(line, i) \in Line /\ Len(Before(line, i)) = i - 1
BY DEF Before, Line

LEMMA AfterIs ==
  ASSUME NEW line \in Line, NEW i \in 0 .. Len(line)
  PROVE  After(line, i) \in Line /\ Len(After(line, i)) = Len(line) - i
BY DEF After, Line

PairEnds(line) ==
  {e \in Positions(line, "*/") : \E s \in Positions(line, "/*") : s < e}

LEMMA PairIs ==
  ASSUME NEW line \in Line, PairEnds(line) # {}
  PROVE  /\ Min(Positions(line, "/*")) \in 1 .. Len(line)
         /\ Min(PairEnds(line)) \in 1 .. Len(line)
         /\ Min(Positions(line, "/*")) < Min(PairEnds(line))
<1>1. /\ Positions(line, "/*") \subseteq 1 .. Len(line)
      /\ PairEnds(line) \subseteq 1 .. Len(line)
      /\ Positions(line, "/*") # {} /\ Len(line) \in Nat
  BY DEF Positions, PairEnds, Line
<1>2. /\ Min(PairEnds(line)) \in PairEnds(line)
      /\ Min(Positions(line, "/*")) \in Positions(line, "/*")
      /\ \A n \in Positions(line, "/*") : Min(Positions(line, "/*")) <= n
  BY <1>1, MinOf
<1>3. PICK s \in Positions(line, "/*") : s < Min(PairEnds(line))
  BY <1>2 DEF PairEnds
<1>4. Min(Positions(line, "/*")) <= s
  BY <1>2
<1> QED
  BY <1>1, <1>2, <1>3, <1>4

WithoutFirst(line) == Before(line, Min(Positions(line, "/*"))) \o After(line, Min(PairEnds(line)))

LEMMA WithoutFirstIs ==
  ASSUME NEW line \in Line, PairEnds(line) # {}
  PROVE  WithoutFirst(line) \in Line /\ Len(WithoutFirst(line)) < Len(line)
<1> DEFINE i == Min(Positions(line, "/*"))
           j == Min(PairEnds(line))
<1>1. i \in 1 .. Len(line) /\ j \in 1 .. Len(line) /\ i < j
  BY PairIs
<1> HIDE DEF i, j
<1>2. /\ Before(line, i) \in Line /\ After(line, j) \in Line
      /\ Len(Before(line, i)) = i - 1 /\ Len(After(line, j)) = Len(line) - j
  BY <1>1, BeforeIs, AfterIs
<1>3. /\ Before(line, i) \o After(line, j) \in Line
      /\ Len(Before(line, i) \o After(line, j)) = (i - 1) + (Len(line) - j)
  BY <1>2 DEF Line
<1>4. Len(line) \in Nat
  BY DEF Line
<1> QED
  BY <1>1, <1>3, <1>4 DEF WithoutFirst, i, j

LEMMA RemoveCommentsExists ==
  /\ RemoveComments \in [Line -> Line]
  /\ \A line \in Line : RemoveComments[line] =
       IF PairEnds(line) = {} THEN line ELSE RemoveComments[WithoutFirst(line)]
<1> DEFINE ends == {line \in Line : PairEnds(line) = {}}
           next == [line \in Line |-> IF line \in ends THEN line ELSE WithoutFirst(line)]
           size == [line \in Line |-> Len(line)]
           base == [line \in Line |-> line]
           op == [p \in Line \X Line |-> p[2]]
           Solves(f) == f = [line \in Line |->
                               IF PairEnds(line) = {} THEN line ELSE f[WithoutFirst(line)]]
<1>1. size \in [Line -> Nat] /\ ends \in SUBSET Line
  BY DEF Line
<1>2. next \in [Line -> Line] /\ base \in [Line -> Line] /\ op \in [Line \X Line -> Line]
  BY WithoutFirstIs
<1>3. \A x \in Line \ ends : size[next[x]] < size[x]
  BY WithoutFirstIs
<1>4. PICK f \in [Line -> Line] :
        \A x \in Line : f[x] = IF x \in ends THEN base[x] ELSE op[<<x, f[next[x]]>>]
  <2>1. Shrinks(Line, size, ends, next)
    BY <1>1, <1>2, <1>3 DEF Shrinks
  <2> HIDE DEF ends, next, size, base, op
  <2>2. \E f \in [Line -> Line] : Solution(f, Line, ends, next, base, op)
    BY <1>2, <2>1, Recursion
  <2> QED
    BY <2>2 DEF Solution
<1>5. \A x \in Line : f[x] = IF PairEnds(x) = {} THEN x ELSE f[WithoutFirst(x)]
  BY <1>2, <1>4, WithoutFirstIs
<1>6. Solves(f)
  BY <1>5
<1>7. RemoveComments = CHOOSE g : Solves(g)
  BY DEF RemoveComments, PairEnds, WithoutFirst, Line
<1>8. Solves(RemoveComments)
  <2> HIDE DEF Solves
  <2> QED
    BY <1>6, <1>7
<1>9. \A line \in Line : RemoveComments[line] =
       IF PairEnds(line) = {} THEN line ELSE RemoveComments[WithoutFirst(line)]
  BY <1>8
<1>10. RemoveComments \in [Line -> Line]
  <2> DEFINE P == {x \in Line : RemoveComments[x] \in Line}
  <2>1. \A x \in Line : (\A y \in Line : size[y] < size[x] => y \in P) => x \in P
    BY <1>9, WithoutFirstIs
  <2> HIDE DEF size, P
  <2>2. Line \subseteq P
    BY <1>1, <2>1, Induction
  <2> QED
    BY <1>8, <2>2 DEF P
<1> QED
  BY <1>9, <1>10

-----------------------------------------------------------------------------
(* Raw strings                                                               *)

\* Short sequences.
LEMMA Two ==
  ASSUME NEW S, NEW a \in S, NEW b \in S
  PROVE  <<a, b>> \in Seq(S) /\ Len(<<a, b>>) = 2
OBVIOUS
LEMMA Three ==
  ASSUME NEW S, NEW a \in S, NEW b \in S, NEW c \in S
  PROVE  <<a, b, c>> \in Seq(S) /\ Len(<<a, b, c>>) = 3
OBVIOUS

\* Where some tokens are found, all of them are.
LEMMA OccursIs ==
  ASSUME NEW line \in Line, NEW tokens \in Line, Len(tokens) > 0
  PROVE  /\ Occurs(tokens, line) \subseteq 1 .. Len(line)
         /\ \A i \in Occurs(tokens, line) : i + Len(tokens) - 1 <= Len(line)
<1>1. DOMAIN line = 1 .. Len(line) /\ Len(line) \in Nat /\ Len(tokens) \in Nat \ {0}
  BY DEF Line
<1>2. ASSUME NEW i \in 1 .. Len(line)
      PROVE  Len(SubSeq(line, i, Len(line))) = Len(line) - i + 1
  BY DEF Line
<1>3. \A i \in Occurs(tokens, line) : Len(tokens) <= Len(SubSeq(line, i, Len(line)))
  BY DEF Occurs, IsPrefix
<1>4. Occurs(tokens, line) \subseteq 1 .. Len(line)
  BY <1>1 DEF Occurs
<1> QED
  BY <1>1, <1>2, <1>3, <1>4

LEMMA RawOpenersAre ==
  ASSUME NEW line \in Line
  PROVE  /\ RawOpeners(line) \subseteq 1 .. Len(line)
         /\ RawOpeners(line) # {} => Max(RawOpeners(line)) \in 1 .. Len(line) - 2
<1> DEFINE opener == <<"R", Quote, "(">>
<1>1. opener \in Line /\ Len(opener) = 3
  BY TokensAssumption, Three DEF Line
<1>2. RawOpeners(line) = Occurs(opener, line)
  BY DEF RawOpeners
<1> HIDE DEF opener
<1>3. /\ RawOpeners(line) \subseteq 1 .. Len(line)
      /\ \A i \in RawOpeners(line) : i + 3 - 1 <= Len(line)
  <2>1. Len(opener) > 0
    BY <1>1
  <2>2. /\ Occurs(opener, line) \subseteq 1 .. Len(line)
        /\ \A i \in Occurs(opener, line) : i + Len(opener) - 1 <= Len(line)
    BY <1>1, <2>1, OccursIs
  <2> QED
    BY <1>1, <1>2, <2>2
<1>4. Len(line) \in Nat
  BY DEF Line
<1>5. ASSUME RawOpeners(line) # {} PROVE Max(RawOpeners(line)) \in RawOpeners(line)
  <2>1. RawOpeners(line) \in SUBSET Nat /\ \A n \in RawOpeners(line) : n <= Len(line)
    BY <1>3, <1>4
  <2> QED
    BY <1>4, <1>5, <2>1, MaxOf
<1> QED
  BY <1>3, <1>4, <1>5

LEMMA RawClosersAre ==
  ASSUME NEW line \in Line, RawClosers(line) # {}
  PROVE  Min(RawClosers(line)) \in 1 .. Len(line) - 1
<1> DEFINE closer == <<")", Quote>>
<1>1. closer \in Line /\ Len(closer) = 2
  BY TokensAssumption, Two DEF Line
<1>2. RawClosers(line) = Occurs(closer, line)
  BY DEF RawClosers
<1> HIDE DEF closer
<1>3. /\ RawClosers(line) \subseteq 1 .. Len(line)
      /\ \A i \in RawClosers(line) : i + 2 - 1 <= Len(line)
  <2>1. Len(closer) > 0
    BY <1>1
  <2>2. /\ Occurs(closer, line) \subseteq 1 .. Len(line)
        /\ \A i \in Occurs(closer, line) : i + Len(closer) - 1 <= Len(line)
    BY <1>1, <2>1, OccursIs
  <2> QED
    BY <1>1, <1>2, <2>2
<1>4. Len(line) \in Nat
  BY DEF Line
<1>5. Min(RawClosers(line)) \in RawClosers(line)
  <2>1. RawClosers(line) \in SUBSET Nat
    BY <1>3, <1>4
  <2> QED
    BY <2>1, MinOf
<1> QED
  BY <1>3, <1>4, <1>5

LEMMA EmptyStringIs == EmptyString \in Line /\ Len(EmptyString) = 2
BY TokensAssumption, Two DEF EmptyString, Line

LEMMA Joined ==
  ASSUME NEW s \in Line, NEW t \in Line
  PROVE  s \o t \in Line /\ Len(s \o t) = Len(s) + Len(t)
BY DEF Line

LEMMA LineLen == ASSUME NEW line \in Line PROVE Len(line) \in Nat
BY DEF Line

RawStart(line) == Max(RawOpeners(line))
RawRest(line) == After(line, RawStart(line) + 2)
RawKept(line) == Before(line, RawStart(line)) \o EmptyString
WithoutRaw(line) ==
  RawKept(line) \o After(RawRest(line), Min(RawClosers(RawRest(line))) + 1)

\* The last raw string of a line, and the line without it.
LEMMA WithoutRawIs ==
  ASSUME NEW line \in Line, RawOpeners(line) # {}
  PROVE  /\ RawKept(line) \in Line
         /\ RawClosers(RawRest(line)) # {} =>
              WithoutRaw(line) \in Line /\ Len(WithoutRaw(line)) < Len(line)
<1> DEFINE start == RawStart(line)
           rest == RawRest(line)
           end == Min(RawClosers(rest))
<1>1. start \in 1 .. Len(line) - 2 /\ Len(line) \in Nat
  BY RawOpenersAre, LineLen DEF RawStart
<1>2. /\ Before(line, start) \in Line /\ Len(Before(line, start)) = start - 1
      /\ rest \in Line /\ Len(rest) = Len(line) - (start + 2)
  <2> HIDE DEF start
  <2>1. start \in 1 .. Len(line) /\ start + 2 \in 0 .. Len(line)
    BY <1>1
  <2>2. rest = After(line, start + 2)
    BY DEF RawRest, start
  <2> QED
    BY <2>1, <2>2, BeforeIs, AfterIs
<1>3. RawKept(line) \in Line /\ Len(RawKept(line)) = (start - 1) + 2
  <2>1. RawKept(line) = Before(line, start) \o EmptyString
    BY DEF RawKept
  <2> HIDE DEF start
  <2> QED
    BY <1>2, <2>1, EmptyStringIs, Joined
<1> HIDE DEF start, rest
<1>4. ASSUME RawClosers(rest) # {}
      PROVE  /\ After(rest, end + 1) \in Line
             /\ Len(After(rest, end + 1)) = Len(rest) - (end + 1)
             /\ end \in 1 .. Len(rest) - 1
  <2>1. end \in 1 .. Len(rest) - 1 /\ Len(rest) \in Nat
    BY <1>2, <1>4, RawClosersAre, LineLen
  <2> HIDE DEF end
  <2>2. end + 1 \in 0 .. Len(rest)
    BY <2>1
  <2> QED
    BY <1>2, <2>1, <2>2, AfterIs
<1>5. WithoutRaw(line) = RawKept(line) \o After(rest, end + 1)
  BY DEF WithoutRaw, rest
<1> HIDE DEF end
<1>6. ASSUME RawClosers(rest) # {}
      PROVE  /\ WithoutRaw(line) \in Line
             /\ Len(WithoutRaw(line)) = ((start - 1) + 2) + (Len(rest) - (end + 1))
  BY <1>3, <1>4, <1>5, <1>6, Joined
<1>7. ASSUME RawClosers(rest) # {} PROVE Len(WithoutRaw(line)) < Len(line)
  BY <1>1, <1>2, <1>4, <1>6, <1>7
<1> QED
  BY <1>3, <1>6, <1>7 DEF rest

RawResult == [line : Line, open : BOOLEAN]
RawEnds == {line \in Line : RawOpeners(line) = {} \/ RawClosers(RawRest(line)) = {}}
RawEnd(line) ==
  IF RawOpeners(line) = {} THEN [line |-> line, open |-> FALSE]
  ELSE [line |-> RawKept(line), open |-> TRUE]

\* OpenRaw takes raw strings off until none is left, or one that stays open.
LEMMA OpenRawExists ==
  /\ OpenRaw \in [Line -> RawResult]
  /\ \A line \in Line : OpenRaw[line] =
       IF line \in RawEnds THEN RawEnd(line) ELSE OpenRaw[WithoutRaw(line)]
<1> DEFINE next == [line \in Line |-> IF line \in RawEnds THEN line ELSE WithoutRaw(line)]
           size == [line \in Line |-> Len(line)]
           base == [line \in Line |-> IF line \in RawEnds THEN RawEnd(line)
                                       ELSE [line |-> line, open |-> FALSE]]
           op == [p \in Line \X RawResult |-> p[2]]
           Solves(f) == f = [line \in Line |->
             IF RawOpeners(line) = {} THEN [line |-> line, open |-> FALSE]
             ELSE IF RawClosers(RawRest(line)) = {} THEN [line |-> RawKept(line), open |-> TRUE]
             ELSE f[WithoutRaw(line)]]
<1>1. size \in [Line -> Nat] /\ RawEnds \in SUBSET Line
  BY LineLen DEF RawEnds
<1>2. \A x \in Line \ RawEnds : WithoutRaw(x) \in Line /\ Len(WithoutRaw(x)) < Len(x)
  BY WithoutRawIs DEF RawEnds
<1>3. next \in [Line -> Line] /\ base \in [Line -> RawResult]
      /\ op \in [Line \X RawResult -> RawResult]
  <2>1. \A x \in RawEnds : RawEnd(x) \in RawResult
    <3> TAKE x \in RawEnds
    <3>1. CASE RawOpeners(x) = {}
      BY <1>1, <3>1 DEF RawEnd, RawResult
    <3>2. CASE RawOpeners(x) # {}
      BY <1>1, <3>2, WithoutRawIs DEF RawEnd, RawResult
    <3> QED
      BY <3>1, <3>2
  <2>2. \A x \in Line : [line |-> x, open |-> FALSE] \in RawResult
    BY DEF RawResult
  <2> QED
    BY <1>2, <2>1, <2>2
<1>4. \A x \in Line \ RawEnds : size[next[x]] < size[x]
  BY <1>2
<1>5. PICK f \in [Line -> RawResult] :
        \A x \in Line : f[x] = IF x \in RawEnds THEN base[x] ELSE op[<<x, f[next[x]]>>]
  <2>1. Shrinks(Line, size, RawEnds, next)
    BY <1>1, <1>3, <1>4 DEF Shrinks
  <2> HIDE DEF next, size, base, op
  <2>2. \E f \in [Line -> RawResult] : Solution(f, Line, RawEnds, next, base, op)
    BY <1>3, <2>1, Recursion
  <2> QED
    BY <2>2 DEF Solution
<1>6. \A x \in Line : f[x] = IF x \in RawEnds THEN RawEnd(x) ELSE f[WithoutRaw(x)]
  BY <1>2, <1>5
<1>7. Solves(f)
  BY <1>6 DEF RawEnds, RawEnd
<1>8. OpenRaw = CHOOSE g : Solves(g)
  BY DEF OpenRaw, RawStart, RawRest, RawKept, WithoutRaw, Line
<1>9. Solves(OpenRaw)
  <2> HIDE DEF Solves
  <2> QED
    BY <1>7, <1>8
<1>10. \A x \in Line : OpenRaw[x] = IF x \in RawEnds THEN RawEnd(x) ELSE OpenRaw[WithoutRaw(x)]
  BY <1>9 DEF RawEnds, RawEnd
<1>11. OpenRaw \in [Line -> RawResult]
  <2> DEFINE P == {x \in Line : OpenRaw[x] \in RawResult}
  <2>1. \A x \in RawEnds : RawEnd(x) \in RawResult
    BY <1>1, <1>3
  <2>2. \A x \in Line : (\A y \in Line : size[y] < size[x] => y \in P) => x \in P
    BY <1>2, <1>10, <2>1
  <2> HIDE DEF size, P
  <2>3. Line \subseteq P
    BY <1>1, <2>2, Induction
  <2>4. OpenRaw = [line \in Line |-> OpenRaw[line]]
    BY <1>9
  <2> QED
    BY <2>3, <2>4 DEF P
<1> QED
  BY <1>10, <1>11

LEMMA IndentLevelIs ==
  ASSUME NEW line \in Line
  PROVE  IndentLevel(line) \in 0 .. Len(line)
<1> DEFINE tabs == {i \in DOMAIN line : \A j \in 1 .. i : line[j] = Tab}
<1>1. tabs \subseteq 1 .. Len(line) /\ Len(line) \in Nat
  BY DEF Line
<1> HIDE DEF tabs
<1>2. IsFiniteSet(1 .. Len(line)) /\ Cardinality(1 .. Len(line)) = Len(line)
  BY <1>1, FS_Interval
<1>3. Cardinality(tabs) \in Nat /\ Cardinality(tabs) <= Len(line)
  BY <1>1, <1>2, FS_Subset, FS_CardinalityType
<1> QED
  BY <1>1, <1>3 DEF IndentLevel, tabs

LEMMA StripIs ==
  ASSUME NEW line \in Line
  PROVE  Strip(line) \in Line /\ Len(Strip(line)) = Len(line) - IndentLevel(line)
BY IndentLevelIs, AfterIs DEF Strip

LEMMA CloseRawIs ==
  ASSUME NEW line \in Line
  PROVE  CloseRaw(line) \in RawResult
<1>1. CASE RawClosers(line) = {}
  BY <1>1, EmptyStringIs DEF CloseRaw, RawResult
<1>2. CASE RawClosers(line) # {}
  <2> DEFINE i == Min(RawClosers(line)) + 1
             n == IndentLevel(line)
  <2>1. i \in 0 .. Len(line) /\ n \in 0 .. Len(line) /\ Len(line) \in Nat
    BY <1>2, RawClosersAre, IndentLevelIs, LineLen
  <2> HIDE DEF i, n
  <2>2. After(line, i) \in Line /\ SubSeq(line, 1, n) \in Line
    BY <2>1, AfterIs DEF Line
  <2>3. SubSeq(line, 1, n) \o EmptyString \o After(line, i) \in Line
    BY <2>2, EmptyStringIs, Joined
  <2> QED
    BY <1>2, <2>3 DEF CloseRaw, RawResult, i, n
<1> QED
  BY <1>1, <1>2

LEMMA CleanseRawLineIs ==
  ASSUME NEW line \in Line, NEW open
  PROVE  CleanseRawLine(line, open).line \in Line
<1> DEFINE begun == IF open THEN CloseRaw(line) ELSE [line |-> line, open |-> FALSE]
<1>1. begun \in RawResult
  BY CloseRawIs DEF RawResult
<1>2. begun.line \in Line
  BY <1>1 DEF RawResult
<1>3. OpenRaw[begun.line] \in RawResult
  BY <1>2, OpenRawExists
<1> QED
  BY <1>1, <1>3 DEF CleanseRawLine, RawResult

LEMMA CleanseRawStringsAre ==
  ASSUME NEW lines \in Seq(Line)
  PROVE  CleanseRawStrings(lines) \in Seq(Line) /\ Len(CleanseRawStrings(lines)) = Len(lines)
<1>1. Len(lines) \in Nat /\ DOMAIN lines = 1 .. Len(lines) /\ \A i \in 1 .. Len(lines) : lines[i] \in Line
  OBVIOUS
<1>2. ASSUME NEW f PROVE
        [i \in DOMAIN lines |-> CleanseRawLine(lines[i], f[i-1]).line] \in [1 .. Len(lines) -> Line]
  BY <1>1, CleanseRawLineIs
<1>3. CleanseRawStrings(lines) \in [1 .. Len(lines) -> Line]
  BY <1>2 DEF CleanseRawStrings
<1> QED
  BY <1>1, <1>3

-----------------------------------------------------------------------------
(* Comments and strings                                                      *)

LEMMA PositionsAre ==
  ASSUME NEW line \in Line, NEW token
  PROVE  /\ Positions(line, token) \in SUBSET (1 .. Len(line))
         /\ IsFiniteSet(Positions(line, token))
<1>1. Positions(line, token) \in SUBSET (1 .. Len(line)) /\ Len(line) \in Nat
  BY DEF Positions, Line
<1>2. IsFiniteSet(1 .. Len(line))
  BY <1>1, FS_Interval
<1> HIDE DEF Positions
<1> QED
  BY <1>1, <1>2, FS_Subset

Quotes(line) == Positions(line, Quote)
FirstQuote(line) == Min(Quotes(line))
SecondQuote(line) == Min(Quotes(line) \ {FirstQuote(line)})
QuoteEnds == {line \in Line : Cardinality(Quotes(line)) < 2}
Collapsed(line) == Before(line, FirstQuote(line)) \o EmptyString
AfterQuotes(line) == After(line, SecondQuote(line))

LEMMA QuotesAre ==
  ASSUME NEW line \in Line \ QuoteEnds
  PROVE  /\ Collapsed(line) \in Line
         /\ AfterQuotes(line) \in Line /\ Len(AfterQuotes(line)) < Len(line)
<1> DEFINE Q == Quotes(line)
           i == Min(Q)
           j == Min(Q \ {i})
<1>1. Q \in SUBSET (1 .. Len(line)) /\ IsFiniteSet(Q) /\ Len(line) \in Nat
  BY PositionsAre, LineLen DEF Quotes
<1>2. Cardinality(Q) \in Nat /\ ~(Cardinality(Q) < 2)
  BY <1>1, FS_CardinalityType DEF QuoteEnds
<1> HIDE DEF Q
<1>3. Q # {}
  BY <1>2, FS_EmptySet
<1>4. i \in Q
  BY <1>1, <1>3, MinOf
<1> HIDE DEF i
<1>5. Q \ {i} # {}
  <2> SUFFICES ASSUME Q = {i} PROVE FALSE
    BY <1>4
  <2> QED
    BY <1>2, FS_Singleton
<1>6. j \in Q \ {i}
  <2>1. Q \ {i} \subseteq 1 .. Len(line)
    BY <1>1
  <2>2. Q \ {i} \in SUBSET Nat
    BY <1>1, <2>1
  <2> QED
    BY <1>5, <2>2, MinOf
<1> HIDE DEF j
<1>7. i \in 1 .. Len(line) /\ j \in 1 .. Len(line)
  BY <1>1, <1>4, <1>6
<1>8. Before(line, i) \o EmptyString \in Line
  BY <1>7, BeforeIs, EmptyStringIs, Joined
<1>9. After(line, j) \in Line /\ Len(After(line, j)) = Len(line) - j
  <2>1. j \in 0 .. Len(line)
    BY <1>7
  <2> QED
    BY <2>1, AfterIs
<1>10. Len(After(line, j)) < Len(line)
  BY <1>1, <1>7, <1>9
<1> QED
  BY <1>8, <1>9, <1>10 DEF Collapsed, AfterQuotes, FirstQuote, SecondQuote, i, j, Q

\* CollapseQuotes takes string after string away.
LEMMA CollapseQuotesExists ==
  /\ CollapseQuotes \in [Line -> Line]
  /\ \A line \in Line : CollapseQuotes[line] =
       IF line \in QuoteEnds THEN line
       ELSE Collapsed(line) \o CollapseQuotes[AfterQuotes(line)]
<1> DEFINE next == [line \in Line |-> IF line \in QuoteEnds THEN line ELSE AfterQuotes(line)]
           size == [line \in Line |-> Len(line)]
           base == [line \in Line |-> line]
           op == [p \in Line \X Line |-> IF p[1] \in QuoteEnds THEN p[2]
                                         ELSE Collapsed(p[1]) \o p[2]]
           Solves(f) == f = [line \in Line |->
             IF Cardinality(Quotes(line)) < 2 THEN line
             ELSE Collapsed(line) \o f[AfterQuotes(line)]]
<1>1. size \in [Line -> Nat] /\ QuoteEnds \in SUBSET Line
  BY LineLen DEF QuoteEnds
<1>2. next \in [Line -> Line] /\ base \in [Line -> Line]
  BY QuotesAre
<1>3. op \in [Line \X Line -> Line]
  <2>1. ASSUME NEW x \in Line \ QuoteEnds, NEW y \in Line
        PROVE  Collapsed(x) \o y \in Line
    BY QuotesAre, Joined
  <2> QED
    BY <2>1
<1>4. \A x \in Line \ QuoteEnds : size[next[x]] < size[x]
  BY QuotesAre
<1>5. PICK f \in [Line -> Line] :
        \A x \in Line : f[x] = IF x \in QuoteEnds THEN base[x] ELSE op[<<x, f[next[x]]>>]
  <2>1. Shrinks(Line, size, QuoteEnds, next)
    BY <1>1, <1>2, <1>4 DEF Shrinks
  <2> HIDE DEF next, size, base, op
  <2>2. \E f \in [Line -> Line] : Solution(f, Line, QuoteEnds, next, base, op)
    BY <1>2, <1>3, <2>1, Recursion
  <2> QED
    BY <2>2 DEF Solution
<1>6. \A x \in Line : f[x] = IF x \in QuoteEnds THEN x ELSE Collapsed(x) \o f[AfterQuotes(x)]
  BY <1>2, <1>5, QuotesAre
<1>7. Solves(f)
  BY <1>6 DEF QuoteEnds
<1>8. CollapseQuotes = CHOOSE g : Solves(g)
  BY DEF CollapseQuotes, Quotes, FirstQuote, SecondQuote, Collapsed, AfterQuotes, Line
<1>9. Solves(CollapseQuotes)
  <2> HIDE DEF Solves
  <2> QED
    BY <1>7, <1>8
<1>10. \A x \in Line : CollapseQuotes[x] =
         IF x \in QuoteEnds THEN x ELSE Collapsed(x) \o CollapseQuotes[AfterQuotes(x)]
  BY <1>9 DEF QuoteEnds
<1>11. CollapseQuotes \in [Line -> Line]
  <2> DEFINE P == {x \in Line : CollapseQuotes[x] \in Line}
  <2>1. \A x \in Line : (\A y \in Line : size[y] < size[x] => y \in P) => x \in P
    BY <1>10, QuotesAre, Joined
  <2> HIDE DEF size, P
  <2>2. Line \subseteq P
    BY <1>1, <2>1, Induction
  <2>3. CollapseQuotes = [line \in Line |-> CollapseQuotes[line]]
    BY <1>9
  <2> QED
    BY <2>2, <2>3 DEF P
<1> QED
  BY <1>10, <1>11

LEMMA CollapseStringsIs ==
  ASSUME NEW line \in Line PROVE CollapseStrings(line) \in Line
BY CollapseQuotesExists DEF CollapseStrings

LEMMA CleanseCommentsIs ==
  ASSUME NEW line \in Line PROVE CleanseComments(line) \in Line
<1> DEFINE marks == Positions(line, "//")
<1>1. marks \in SUBSET (1 .. Len(line)) /\ Len(line) \in Nat
  BY PositionsAre, LineLen
<1> HIDE DEF marks
<1>2. marks # {} => Before(line, Min(marks)) \in Line
  <2>1. marks \in SUBSET Nat
    BY <1>1
  <2> QED
    BY <1>1, <2>1, MinOf, BeforeIs
<1> QED
  BY <1>2, RemoveCommentsExists DEF CleanseComments, marks

LEMMA RemoveMultiLineCommentsAre ==
  ASSUME NEW lines \in Seq(Line)
  PROVE  /\ RemoveMultiLineComments(lines) \in Seq(Line)
         /\ Len(RemoveMultiLineComments(lines)) = Len(lines)
<1>1. <<"/*", "*/">> \in Line
  BY TokensAssumption, Two DEF Line
<1>2. Len(lines) \in Nat /\ DOMAIN lines = 1 .. Len(lines) /\ \A i \in 1 .. Len(lines) : lines[i] \in Line
  OBVIOUS
<1>3. RemoveMultiLineComments(lines) \in [1 .. Len(lines) -> Line]
  <2> DEFINE comment == CommentOf(lines)
  <2> HIDE DEF comment
  <2>1. [i \in 1 .. Len(lines) |-> IF comment[i] # 0 THEN <<"/*", "*/">> ELSE lines[i]]
          \in [1 .. Len(lines) -> Line]
    BY <1>1, <1>2
  <2> QED
    BY <1>2, <2>1 DEF RemoveMultiLineComments, comment
<1> QED
  BY <1>2, <1>3

\* The four copies of a file: lines, as many as the file has.
Copies == [raw : Seq(Line), unraw : Seq(Line), lines : Seq(Line), elided : Seq(Line)]
SameLength(copies) ==
  /\ Len(copies.unraw) = Len(copies.raw)
  /\ Len(copies.lines) = Len(copies.raw)
  /\ Len(copies.elided) = Len(copies.raw)

LEMMA Mapped ==
  ASSUME NEW lines \in Seq(Line), NEW f \in [1 .. Len(lines) -> Line]
  PROVE  f \in Seq(Line) /\ Len(f) = Len(lines)
<1>1. Len(lines) \in Nat
  OBVIOUS
<1> QED
  BY <1>1

LEMMA CleansedLinesAre ==
  ASSUME NEW lines \in Seq(Line)
  PROVE  /\ CleansedLines(lines) \in Copies
         /\ SameLength(CleansedLines(lines))
         /\ CleansedLines(lines).raw = lines
<1> DEFINE unraw == CleanseRawStrings(lines)
           less == [i \in DOMAIN unraw |-> CleanseComments(unraw[i])]
           elided == [i \in DOMAIN unraw |-> CleanseComments(CollapseStrings(unraw[i]))]
<1>1. unraw \in Seq(Line) /\ Len(unraw) = Len(lines)
  BY CleanseRawStringsAre
<1> HIDE DEF unraw
<1>2. DOMAIN unraw = 1 .. Len(unraw) /\ \A i \in 1 .. Len(unraw) : unraw[i] \in Line
  BY <1>1
<1>3. less \in [1 .. Len(unraw) -> Line]
  BY <1>2, CleanseCommentsIs
<1>4. elided \in [1 .. Len(unraw) -> Line]
  BY <1>2, CleanseCommentsIs, CollapseStringsIs
<1> HIDE DEF less, elided
<1>5. /\ less \in Seq(Line) /\ Len(less) = Len(lines)
      /\ elided \in Seq(Line) /\ Len(elided) = Len(lines)
  BY <1>1, <1>3, <1>4, Mapped
<1>6. CleansedLines(lines) = [raw |-> lines, unraw |-> unraw, lines |-> less, elided |-> elided]
  BY DEF CleansedLines, unraw, less, elided
<1> QED
  BY <1>1, <1>5, <1>6 DEF Copies, SameLength

-----------------------------------------------------------------------------
(* Counting and sequences of sequences                                       *)

LEMMA CountInduction ==
  ASSUME NEW n \in Nat, NEW P, 0 \in P, \A i \in 1 .. n : i - 1 \in P => i \in P
  PROVE  0 .. n \subseteq P
<1> DEFINE size == [i \in 0 .. n |-> i]
<1>1. size \in [0 .. n -> Nat]
  OBVIOUS
<1>2. ASSUME NEW x \in 0 .. n, \A y \in 0 .. n : size[y] < size[x] => y \in P
      PROVE  x \in P
  <2>1. CASE x = 0
    BY <2>1
  <2>2. CASE x # 0
    <3>1. x \in 1 .. n /\ x - 1 \in 0 .. n /\ x - 1 < x
      BY <2>2
    <3>2. x - 1 \in P
      BY <1>2, <3>1
    <3> QED
      BY <3>1, <3>2
  <2> QED
    BY <2>1, <2>2
<1> HIDE DEF size
<1> DEFINE S == 0 .. n
<1>3. size \in [S -> Nat]
  BY <1>1
<1>4. \A x \in S : (\A y \in S : size[y] < size[x] => y \in P) => x \in P
  BY <1>2
<1> HIDE DEF S
<1>5. S \subseteq P
  BY <1>3, <1>4, Induction
<1> QED
  BY <1>5 DEF S

\* A function that goes through the numbers up to n.
Steps(f, n, start, step) ==
    \A i \in 0 .. n : f[i] = IF i = 0 THEN start ELSE step[<<i, f[i-1]>>]

LEMMA Counting ==
  ASSUME NEW n \in Nat, NEW R, NEW start \in R, NEW step \in [(0 .. n) \X R -> R]
  PROVE  \E f \in [0 .. n -> R] : Steps(f, n, start, step)
<1> DEFINE S == 0 .. n
           size == [i \in S |-> i]
           ends == {0}
           next == [i \in S |-> IF i = 0 THEN 0 ELSE i - 1]
           base == [i \in S |-> start]
<1>1. base \in [S -> R] /\ ends \subseteq S
  OBVIOUS
<1>2. Shrinks(S, size, ends, next)
  BY DEF Shrinks
<1>3. \A i \in S : base[i] = start /\ (i # 0 => next[i] = i - 1)
  OBVIOUS
<1> HIDE DEF size, next, base, S
<1>4. PICK f \in [S -> R] : Solution(f, S, ends, next, base, step)
  <2>1. step \in [S \X R -> R]
    BY DEF S
  <2> QED
    BY <1>1, <1>2, <2>1, Recursion
<1>5. \A i \in S : f[i] = IF i = 0 THEN start ELSE step[<<i, f[i-1]>>]
  BY <1>3, <1>4 DEF Solution
<1> QED
  BY <1>5 DEF S, Steps

LEMMA FrontIs ==
  ASSUME NEW S, NEW p \in Seq(S), p # <<>>
  PROVE  /\ Front(p) \in Seq(S) /\ Len(Front(p)) = Len(p) - 1
         /\ \A i \in 1 .. Len(p) - 1 : Front(p)[i] = p[i]
<1> DEFINE n == Len(p)
<1>1. n \in Nat \ {0}
  BY EmptySeq
<1>2. \A i \in 1 .. n - 1 : p[i] \in S
  BY <1>1, ElementOfSeq
<1>3. /\ SubSeq(p, 1, n - 1) \in Seq(S)
      /\ Len(SubSeq(p, 1, n - 1)) = IF 1 <= n - 1 THEN (n - 1) - 1 + 1 ELSE 0
      /\ \A i \in 1 .. (n - 1) - 1 + 1 : SubSeq(p, 1, n - 1)[i] = p[1 + i - 1]
  <2> HIDE DEF n
  <2>1. 1 \in Int /\ n - 1 \in Int
    BY <1>1
  <2> QED
    BY <1>2, <2>1, SubSeqProperties
<1>4. Front(p) = SubSeq(p, 1, n - 1)
  BY DEF Front
<1> HIDE DEF n
<1>5. Front(p) \in Seq(S) /\ Len(Front(p)) = n - 1 /\ \A i \in 1 .. n - 1 : Front(p)[i] = p[i]
  BY <1>1, <1>3, <1>4
<1> QED
  BY <1>5 DEF n

LEMMA FrontOf ==
  ASSUME NEW S, NEW p \in Seq(S), p # <<>>, NEW r \in Seq(S), Len(p) = Len(r) + 1,
         \A k \in 1 .. Len(r) : r[k] = p[k]
  PROVE  Front(p) = r
<1>1. Len(r) \in Nat
  BY LenProperties
<1>2. Front(p) \in Seq(S) /\ Len(Front(p)) = Len(r) /\ \A k \in 1 .. Len(r) : Front(p)[k] = r[k]
  BY <1>1, FrontIs
<1> QED
  BY <1>2, SeqEqual

\* The last element of a sequence that is not empty, and those before it.
LEMMA LastIs ==
  ASSUME NEW S, NEW s \in Seq(S), s # <<>>
  PROVE  Last(s) \in S /\ Front(s) \in Seq(S)
<1>1. Len(s) \in 1 .. Len(s)
  BY EmptySeq
<1> QED
  BY <1>1, ElementOfSeq, FrontIs DEF Last

\* The elements of sequences put together.
LEMMA RangeIs ==
  ASSUME NEW S, NEW s \in Seq(S)
  PROVE  Range(s) = {s[i] : i \in 1 .. Len(s)} /\ Range(s) \subseteq S
BY DEF Range

LEMMA RangeJoined ==
  ASSUME NEW S, NEW a \in Seq(S), NEW b \in Seq(S)
  PROVE  a \o b \in Seq(S) /\ Range(a \o b) = Range(a) \cup Range(b)
<1> DEFINE c == a \o b
<1>1. /\ c \in Seq(S) /\ Len(c) = Len(a) + Len(b) /\ Len(a) \in Nat /\ Len(b) \in Nat
      /\ \A i \in 1 .. Len(a) + Len(b) : c[i] = IF i <= Len(a) THEN a[i] ELSE b[i - Len(a)]
  OBVIOUS
<1>2. /\ Range(a) = {a[i] : i \in 1 .. Len(a)} /\ Range(b) = {b[i] : i \in 1 .. Len(b)}
      /\ Range(c) = {c[i] : i \in 1 .. Len(c)}
  BY <1>1, RangeIs
<1> HIDE DEF c
<1>3. Range(c) \subseteq Range(a) \cup Range(b)
  <2> SUFFICES ASSUME NEW i \in 1 .. Len(c) PROVE c[i] \in Range(a) \cup Range(b)
    BY <1>2
  <2>1. i <= Len(a) \/ i - Len(a) \in 1 .. Len(b)
    BY <1>1
  <2> QED
    BY <1>1, <1>2, <2>1
<1>4. Range(a) \subseteq Range(c)
  BY <1>1, <1>2
<1>5. Range(b) \subseteq Range(c)
  <2> SUFFICES ASSUME NEW i \in 1 .. Len(b) PROVE b[i] \in Range(c)
    BY <1>2
  <2>1. i + Len(a) \in 1 .. Len(c) /\ ~(i + Len(a) <= Len(a)) /\ (i + Len(a)) - Len(a) = i
    BY <1>1
  <2>2. c[i + Len(a)] = b[i]
    BY <1>1, <2>1
  <2> QED
    BY <1>2, <2>1, <2>2
<1> QED
  BY <1>1, <1>3, <1>4, <1>5 DEF c

\* FlattenSeq puts one after the other.
LEMMA FlattenSteps ==
  ASSUME NEW S, NEW seqs \in Seq(Seq(S))
  PROVE  \E g \in [0 .. Len(seqs) -> Seq(S)] :
           /\ g[0] = <<>> /\ FlattenSeq(seqs) = g[Len(seqs)]
           /\ \A i \in 1 .. Len(seqs) : g[i] = g[i-1] \o seqs[i]
<1> DEFINE n == Len(seqs)
           R == Seq(S)
           D == 1 .. n
           Solves(f) == f = [i \in D |-> IF i = 1 THEN seqs[i] ELSE f[i-1] \o seqs[i]]
<1>1. n \in Nat /\ seqs \in [D -> R] /\ DOMAIN seqs = D
  OBVIOUS
<1>2. CASE n = 0
  <2> DEFINE g == [i \in 0 .. 0 |-> <<>>]
  <2>1. seqs = <<>> /\ FlattenSeq(seqs) = <<>>
    BY <1>2 DEF FlattenSeq
  <2>2. g \in [0 .. 0 -> R] /\ g[0] = <<>> /\ 1 .. 0 = {}
    OBVIOUS
  <2> HIDE DEF g
  <2> QED
    BY <1>2, <2>1, <2>2
<1>3. CASE n # 0
  <2> DEFINE size == [i \in D |-> i]
             ends == {1}
             next == [i \in D |-> IF i = 1 THEN 1 ELSE i - 1]
             op == [p \in D \X R |-> p[2] \o seqs[p[1]]]
  <2>1. size \in [D -> Nat] /\ n \in D
    BY <1>1, <1>3
  <2>2. Shrinks(D, size, ends, next)
    BY <1>1, <1>3 DEF Shrinks
  <2>3. op \in [D \X R -> R]
    <3>1. \A i \in D : \A r \in R : r \o seqs[i] \in R
      BY <1>1
    <3> QED
      BY <3>1
  <2>4. \A i \in D : i # 1 => next[i] = i - 1 /\ i - 1 \in D
    BY <1>1
  <2>5. \A i \in D, r \in R : op[<<i, r>>] = r \o seqs[i]
    OBVIOUS
  <2> HIDE DEF op, next, size, D, R, n
  <2>6. PICK f \in [D -> R] : Solution(f, D, ends, next, seqs, op)
    BY <1>1, <2>2, <2>3, Recursion
  <2>7. \A i \in D : f[i] = IF i = 1 THEN seqs[i] ELSE f[i-1] \o seqs[i]
    BY <2>4, <2>5, <2>6 DEF Solution
  <2>8. Solves(f)
    BY <2>7
  <2> DEFINE g == CHOOSE h : Solves(h)
  <2>9. Solves(g)
    <3> HIDE DEF Solves
    <3> QED
      BY <2>8
  <2> HIDE DEF g
  <2>10. \A i \in D : g[i] = IF i = 1 THEN seqs[i] ELSE g[i-1] \o seqs[i]
    BY <2>9
  <2> DEFINE P == {i \in D : g[i] \in R}
  <2>11. \A x \in D : (\A y \in D : size[y] < size[x] => y \in P) => x \in P
    <3> TAKE x \in D
    <3> HAVE \A y \in D : size[y] < size[x] => y \in P
    <3>1. CASE x = 1
      BY <1>1, <2>10, <3>1
    <3>2. CASE x # 1
      <4>1. x - 1 \in D /\ size[x - 1] < size[x]
        BY <1>1, <2>4, <3>2 DEF size, D
      <4>2. g[x - 1] \in R /\ seqs[x] \in R /\ g[x] = g[x-1] \o seqs[x]
        BY <1>1, <2>10, <3>2, <4>1
      <4>3. g[x] \in R
        BY <4>2 DEF R
      <4> QED
        BY <4>3
    <3> QED
      BY <3>1, <3>2
  <2> HIDE DEF P
  <2>18. D \subseteq P
    BY <2>1, <2>11, Induction
  <2>12. \A i \in D : g[i] \in R
    BY <2>18 DEF P
  <2> DEFINE h == [i \in 0 .. n |-> IF i = 0 THEN <<>> ELSE g[i]]
  <2>13. \A i \in 0 .. n : i # 0 => i \in D
    BY <1>1 DEF D
  <2>14. h \in [0 .. n -> R] /\ h[0] = <<>> /\ \A i \in D : h[i] = g[i]
    <3>1. <<>> \in R /\ 0 \in 0 .. n /\ \A i \in D : i \in 0 .. n /\ i # 0
      BY <1>1 DEF D, R
    <3> QED
      BY <2>12, <2>13, <3>1
  <2>15. \A i \in D : h[i] = h[i-1] \o seqs[i]
    <3> TAKE i \in D
    <3>1. CASE i = 1
      <4>4. seqs[1] \in R
        BY <1>1, <3>1
      <4>5. h[1] = seqs[1]
        BY <2>10, <2>14, <3>1
      <4>1. seqs[1] \in R /\ h[1] = seqs[1] /\ h[1 - 1] = <<>>
        BY <2>14, <4>4, <4>5
      <4>2. \A r \in R : r = <<>> \o r
        BY DEF R
      <4> QED
        BY <3>1, <4>1, <4>2
    <3>2. CASE i # 1
      <4>1. i - 1 \in D
        BY <2>4, <3>2
      <4> QED
        BY <2>10, <2>14, <3>2, <4>1
    <3> QED
      BY <3>1, <3>2
  <2>16. FlattenSeq(seqs) = g[n]
    BY <1>3 DEF FlattenSeq, g, n, D
  <2>17. FlattenSeq(seqs) = h[n]
    BY <2>1, <2>14, <2>16
  <2> HIDE DEF h
  <2> QED
    BY <2>14, <2>15, <2>17 DEF R, n, D
<1> QED
  BY <1>2, <1>3

LEMMA FlattenIs ==
  ASSUME NEW S, NEW seqs \in Seq(Seq(S))
  PROVE  /\ FlattenSeq(seqs) \in Seq(S)
         /\ Range(FlattenSeq(seqs)) = UNION {Range(seqs[i]) : i \in 1 .. Len(seqs)}
<1> DEFINE n == Len(seqs)
           All(i) == UNION {Range(seqs[k]) : k \in 1 .. i}
<1>1. n \in Nat /\ \A i \in 1 .. n : seqs[i] \in Seq(S)
  OBVIOUS
<1>2. PICK g \in [0 .. n -> Seq(S)] :
        /\ g[0] = <<>> /\ FlattenSeq(seqs) = g[n]
        /\ \A i \in 1 .. n : g[i] = g[i-1] \o seqs[i]
  BY FlattenSteps
<1> DEFINE P == {i \in 0 .. n : Range(g[i]) = All(i)}
<1>3. 0 \in P
  <2>1. Range(<<>>) = {} /\ 1 .. 0 = {} /\ 0 \in 0 .. n
    BY <1>1 DEF Range
  <2>2. All(0) = {}
    BY <2>1
  <2> HIDE DEF All
  <2> QED
    BY <1>2, <2>1, <2>2
<1>4. \A i \in 1 .. n : i - 1 \in P => i \in P
  <2> TAKE i \in 1 .. n
  <2> HAVE i - 1 \in P
  <2>5. i - 1 \in 0 .. n /\ i \in 0 .. n
    BY <1>1
  <2>1. g[i-1] \in Seq(S) /\ seqs[i] \in Seq(S) /\ g[i] = g[i-1] \o seqs[i] /\ i \in 0 .. n
    BY <1>1, <1>2, <2>5
  <2>2. Range(g[i]) = Range(g[i-1]) \cup Range(seqs[i])
    BY <2>1, RangeJoined
  <2>3. 1 .. i = (1 .. i - 1) \cup {i}
    OBVIOUS
  <2>4. All(i) = All(i - 1) \cup Range(seqs[i])
    BY <2>3
  <2> HIDE DEF All
  <2> QED
    BY <2>1, <2>2, <2>4
<1> HIDE DEF P, All
<1>5. 0 .. n \subseteq P
  BY <1>1, <1>3, <1>4, CountInduction
<1> QED
  BY <1>1, <1>2, <1>5 DEF P, All

-----------------------------------------------------------------------------
(* Brackets. A stack of brackets and angle brackets, without the angles.      *)

Brackets == Opening \cup Closing
Tokens == STRING \cup {"<", ">"} \cup Brackets
Stacks == Seq(Tokens)

BareOf(f, angle) ==
    f = [s \in Stacks |-> IF s = <<>> THEN <<>>
                          ELSE IF Last(s) = angle THEN f[Front(s)]
                          ELSE Append(f[Front(s)], Last(s))]
Bare(angle) == CHOOSE f : BareOf(f, angle)

LEMMA BareExists ==
  ASSUME NEW angle
  PROVE  /\ \A s \in Stacks : Bare(angle)[s] \in Stacks
         /\ \A s \in Stacks : Bare(angle)[s] =
              IF s = <<>> THEN <<>>
              ELSE IF Last(s) = angle THEN Bare(angle)[Front(s)]
              ELSE Append(Bare(angle)[Front(s)], Last(s))
<1> DEFINE next == [s \in Stacks |-> IF s = <<>> THEN s ELSE Front(s)]
           size == [s \in Stacks |-> Len(s)]
           ends == {<<>>}
           base == [s \in Stacks |-> <<>>]
           op == [p \in Stacks \X Stacks |-> IF p[1] = <<>> \/ Last(p[1]) = angle THEN p[2]
                                             ELSE Append(p[2], Last(p[1]))]
<1>0. \A s \in Stacks : Len(s) \in Nat
  BY LenProperties DEF Stacks
<1>1. /\ <<>> \in Stacks
      /\ \A s \in Stacks : s # <<>> => /\ Front(s) \in Stacks /\ Last(s) \in Tokens
                                       /\ Len(Front(s)) = Len(s) - 1
  BY FrontIs, LastIs DEF Stacks
<1>2. \A s, r \in Stacks : s # <<>> => Append(r, Last(s)) \in Stacks
  BY <1>1, AppendProperties DEF Stacks
<1> HIDE DEF Stacks
<1>3. Shrinks(Stacks, size, ends, next)
  <2>1. \A s \in Stacks \ ends : size[next[s]] < size[s]
    BY <1>0, <1>1
  <2> QED
    BY <1>0, <1>1, <2>1 DEF Shrinks
<1>4. base \in [Stacks -> Stacks] /\ op \in [Stacks \X Stacks -> Stacks]
  BY <1>1, <1>2
<1>5. \A s \in Stacks : \A r \in Stacks : s # <<>> =>
        op[<<s, r>>] = IF Last(s) = angle THEN r ELSE Append(r, Last(s))
  OBVIOUS
<1>6. \A s \in Stacks : base[s] = <<>> /\ (s # <<>> => next[s] = Front(s))
  OBVIOUS
<1> HIDE DEF next, size, base, op
<1>7. PICK f \in [Stacks -> Stacks] : Solution(f, Stacks, ends, next, base, op)
  BY <1>3, <1>4, Recursion
<1>8. \A s \in Stacks : f[s] = IF s = <<>> THEN <<>>
                               ELSE IF Last(s) = angle THEN f[Front(s)]
                               ELSE Append(f[Front(s)], Last(s))
  <2> TAKE s \in Stacks
  <2>1. CASE s = <<>>
    BY <1>6, <1>7, <2>1 DEF Solution
  <2>2. CASE s # <<>>
    <3>1. f[s] = op[<<s, f[Front(s)]>>]
      BY <1>6, <1>7, <2>2 DEF Solution
    <3>2. f[Front(s)] \in Stacks
      BY <1>1, <2>2
    <3> QED
      BY <1>5, <2>2, <3>1, <3>2
  <2> QED
    BY <2>1, <2>2
<1>9. BareOf(f, angle)
  BY <1>8 DEF BareOf
<1> DEFINE g == Bare(angle)
<1>10. BareOf(g, angle)
  BY <1>9 DEF Bare
<1> HIDE DEF g
<1>11. \A s \in Stacks : g[s] = IF s = <<>> THEN <<>>
                                ELSE IF Last(s) = angle THEN g[Front(s)]
                                ELSE Append(g[Front(s)], Last(s))
  BY <1>10 DEF BareOf
<1> DEFINE P == {s \in Stacks : g[s] \in Stacks}
<1>12. \A x \in Stacks : (\A y \in Stacks : size[y] < size[x] => y \in P) => x \in P
  <2> TAKE x \in Stacks
  <2> HAVE \A y \in Stacks : size[y] < size[x] => y \in P
  <2>1. CASE x = <<>>
    BY <1>1, <1>11, <2>1
  <2>2. CASE x # <<>>
    <3>1. Front(x) \in P
      BY <1>0, <1>1, <2>2 DEF size
    <3> QED
      BY <1>2, <1>11, <2>2, <3>1
  <2> QED
    BY <2>1, <2>2
<1> HIDE DEF P
<1>13. size \in [Stacks -> Nat]
  BY <1>3 DEF Shrinks
<1>14. Stacks \subseteq P
  BY <1>12, <1>13, Induction
<1> QED
  BY <1>11, <1>14 DEF P, g

\* At the bottom of a scan is the bracket it began with, which is no angle.
Based(s, angle) == s \in Stacks /\ s # <<>> /\ s[1] # angle

LEMMA Pushed ==
  ASSUME NEW s \in Stacks, NEW b \in Tokens, NEW angle
  PROVE  /\ Append(s, b) \in Stacks
         /\ Bare(angle)[Append(s, b)] =
              IF b = angle THEN Bare(angle)[s] ELSE Append(Bare(angle)[s], b)
         /\ Based(s, angle) => Based(Append(s, b), angle)
<1>1. /\ Append(s, b) \in Stacks /\ Append(s, b) # <<>> /\ Last(Append(s, b)) = b
      /\ Len(s) > 0 => Append(s, b)[1] = s[1]
  BY AppendProperties, LenProperties DEF Stacks, Last
<1>2. Front(Append(s, b)) = s
  BY DEF Stacks, Front
<1>3. Len(s) > 0 <=> s # <<>>
  BY EmptySeq, LenProperties DEF Stacks
<1> DEFINE t == Append(s, b)
<1>4. Bare(angle)[t] = IF b = angle THEN Bare(angle)[s] ELSE Append(Bare(angle)[s], b)
  <2> HIDE DEF t
  <2>1. t \in Stacks /\ t # <<>> /\ Last(t) = b /\ Front(t) = s
    BY <1>1, <1>2 DEF t
  <2> QED
    BY <2>1, BareExists
<1> QED
  BY <1>1, <1>3, <1>4 DEF Based

\* Without the angles on its top a stack has the same brackets.
LEMMA DropAnglesIs ==
  ASSUME NEW s, NEW angle, Based(s, angle)
  PROVE  /\ Based(DropAngles(s, angle), angle)
         /\ Last(DropAngles(s, angle)) # angle
         /\ Bare(angle)[DropAngles(s, angle)] = Bare(angle)[s]
<1> DEFINE kept == {k \in DOMAIN s : s[k] # angle}
           m == Max(kept)
           n == Len(s) - m
           part(i) == SubSeq(s, 1, m + i)
           P == {i \in 0 .. n : Bare(angle)[part(i)] = Bare(angle)[part(0)]}
<1>1. /\ s \in Stacks /\ Len(s) \in Nat \ {0} /\ DOMAIN s = 1 .. Len(s)
      /\ s[1] # angle /\ \A k \in 1 .. Len(s) : s[k] \in Tokens
  BY EmptySeq, LenProperties, ElementOfSeq DEF Based, Stacks
<1>2. m \in kept /\ \A k \in kept : k <= m
  <2>1. kept \in SUBSET Nat /\ kept # {} /\ \A k \in kept : k <= Len(s)
    BY <1>1
  <2> HIDE DEF kept
  <2> QED
    BY <1>1, <2>1, MaxOf
<1>3. DropAngles(s, angle) = SubSeq(s, 1, m)
  BY <1>2 DEF DropAngles
<1>4. m \in 1 .. Len(s) /\ s[m] # angle /\ \A k \in m + 1 .. Len(s) : s[k] = angle
  <2> DEFINE x == m
  <2>1. x \in kept /\ \A k \in kept : k <= x
    BY <1>2
  <2> HIDE DEF x
  <2>2. x \in 1 .. Len(s) /\ s[x] # angle
    BY <1>1, <2>1
  <2>3. \A k \in x + 1 .. Len(s) : s[k] = angle
    BY <1>1, <2>1, <2>2
  <2> QED
    BY <2>2, <2>3 DEF x
<1> HIDE DEF m, kept
<1>5. n \in Nat /\ m + n = Len(s)
  BY <1>1, <1>4
<1>6. \A i \in 0 .. n : /\ part(i) \in Stacks /\ Len(part(i)) = m + i
                        /\ \A k \in 1 .. m + i : part(i)[k] = s[k]
  <2> TAKE i \in 0 .. n
  <2>1. m + i \in 1 .. Len(s)
    BY <1>1, <1>4, <1>5
  <2> QED
    BY <1>1, <2>1 DEF Stacks
<1>7. \A i \in 1 .. n : Front(part(i)) = part(i - 1) /\ Last(part(i)) = angle /\ part(i) # <<>>
  <2> TAKE i \in 1 .. n
  <2>1. /\ i \in 0 .. n /\ i - 1 \in 0 .. n /\ m + i \in 1 .. Len(s) /\ m + i \in m + 1 .. Len(s)
        /\ m + (i - 1) = m + i - 1 /\ Len(part(i)) = m + i /\ part(i)[m + i] = s[m + i]
    BY <1>1, <1>4, <1>5, <1>6
  <2>2. Last(part(i)) = angle
    BY <1>4, <2>1 DEF Last
  <2>3. Front(part(i)) = part(i - 1)
    <3> DEFINE p == part(i)
               r == part(i - 1)
    <3>1. /\ p \in Stacks /\ Len(p) = m + i /\ r \in Stacks /\ Len(r) = m + i - 1
          /\ \A k \in 1 .. m + i : p[k] = s[k]
          /\ \A k \in 1 .. m + i - 1 : r[k] = s[k]
      BY <1>6, <2>1
    <3>2. p # <<>>
      <4> HIDE DEF p, r
      <4> QED
        BY <2>1, <3>1, LenProperties
    <3> HIDE DEF p, r
    <3>3. Len(p) = Len(r) + 1 /\ \A k \in 1 .. Len(r) : r[k] = p[k]
      <4>1. m \in Int /\ i \in Int /\ Len(p) = m + i /\ Len(r) = m + i - 1
        BY <1>1, <1>4, <1>5, <3>1
      <4> QED
        BY <3>1, <4>1
    <3>4. Front(p) = r
      BY <3>1, <3>2, <3>3, FrontOf DEF Stacks
    <3> QED
      BY <3>4 DEF p, r
  <2>5. part(i) # <<>>
    <3>1. Len(part(i)) # 0
      BY <1>4, <2>1
    <3> HIDE DEF part
    <3> QED
      BY <3>1, LenProperties
  <2> QED
    BY <2>2, <2>3, <2>5
<1> HIDE DEF part
<1>8. 0 \in P /\ \A i \in 1 .. n : i - 1 \in P => i \in P
  <2>1. 0 \in P
    BY <1>5
  <2>2. ASSUME NEW i \in 1 .. n, i - 1 \in P PROVE i \in P
    <3>1. i \in 0 .. n /\ part(i) \in Stacks
      BY <1>5, <1>6
    <3>2. Bare(angle)[part(i)] = Bare(angle)[part(i - 1)]
      BY <1>7, <3>1, BareExists
    <3> QED
      BY <2>2, <3>1, <3>2
  <2> QED
    BY <2>1, <2>2
<1> HIDE DEF P
<1>9. 0 .. n \subseteq P
  BY <1>5, <1>8, CountInduction
<1>10. Bare(angle)[part(n)] = Bare(angle)[part(0)]
  BY <1>5, <1>9 DEF P
<1>11. part(n) = s /\ part(0) = DropAngles(s, angle)
  BY <1>1, <1>3, <1>4, <1>5 DEF part, Stacks
<1>12. part(0) \in Stacks /\ Len(part(0)) = m /\ part(0)[1] = s[1] /\ part(0)[m] = s[m]
  <2>1. 0 \in 0 .. n /\ 1 \in 1 .. m + 0 /\ m \in 1 .. m + 0 /\ m + 0 = m
    BY <1>4, <1>5
  <2> QED
    BY <1>6, <2>1
<1>13. part(0) # <<>>
  BY <1>4, <1>12, LenProperties
<1> QED
  BY <1>1, <1>4, <1>10, <1>11, <1>12, <1>13 DEF Based, Last

LEMMA BareIsNotEmpty ==
  ASSUME NEW s, NEW angle, Based(s, angle)
  PROVE  /\ Bare(angle)[s] \in Stacks /\ Bare(angle)[s] # <<>>
         /\ Last(DropAngles(s, angle)) \in Tokens
         /\ Bare(angle)[s] = Append(Bare(angle)[Front(DropAngles(s, angle))],
                                    Last(DropAngles(s, angle)))
<1> DEFINE t == DropAngles(s, angle)
<1>1. t \in Stacks /\ t # <<>> /\ Last(t) # angle /\ Bare(angle)[t] = Bare(angle)[s] /\ s \in Stacks
  BY DropAnglesIs DEF Based
<1> HIDE DEF t
<1>2. Front(t) \in Stacks /\ Last(t) \in Tokens
  BY <1>1, LastIs DEF Stacks
<1>3. Bare(angle)[t] = Append(Bare(angle)[Front(t)], Last(t)) /\ Bare(angle)[Front(t)] \in Stacks
  BY <1>1, <1>2, BareExists
<1>4. Append(Bare(angle)[Front(t)], Last(t)) # <<>> /\ Append(Bare(angle)[Front(t)], Last(t)) \in Stacks
  BY <1>2, <1>3, AppendProperties DEF Stacks
<1> QED
  BY <1>1, <1>2, <1>3, <1>4 DEF t

\* What one token does to a scan that waits for brackets: an opening one is
\* waited for, a closing one has to be waited for, nothing else matters.
Move(s, after, token, angle, open, close) ==
  /\ token \in open => /\ after.is = "open" /\ Based(after.stack, angle)
                       /\ Bare(angle)[after.stack] = Append(Bare(angle)[s], token)
  /\ token \in close =>
       \/ /\ after.is = "open" /\ Based(after.stack, angle)
          /\ Bare(angle)[s] = Append(Bare(angle)[after.stack], Partner[token])
       \/ after.is = "complete" /\ Bare(angle)[s] = <<Partner[token]>>
       \/ after.is = "failed" /\ Last(Bare(angle)[s]) # Partner[token]
  /\ token \notin open \cup close =>
       /\ after.is = "open" /\ Based(after.stack, angle)
       /\ Bare(angle)[after.stack] = Bare(angle)[s]

\* A bracket that closes, with the angles before it.
LEMMA CloseBracketIs ==
  ASSUME NEW s, NEW token, NEW angle, Based(s, angle), NEW after,
         after = CloseBracket(s, token, angle)
  PROVE  \/ /\ after.is = "open" /\ Based(after.stack, angle)
            /\ Bare(angle)[s] = Append(Bare(angle)[after.stack], Partner[token])
         \/ after.is = "complete" /\ Bare(angle)[s] = <<Partner[token]>>
         \/ after.is = "failed" /\ Last(Bare(angle)[s]) # Partner[token]
<1> DEFINE t == DropAngles(s, angle)
           u == Front(t)
           b == Last(t)
           B == Bare(angle)
<1>1. Based(t, angle) /\ b # angle /\ b \in Tokens /\ B[s] = Append(B[u], b)
  BY DropAnglesIs, BareIsNotEmpty
<1>2. t \in Stacks /\ t # <<>> /\ t[1] # angle
  BY <1>1 DEF Based
<1>3. after = IF b = Partner[token] THEN Popped(t) ELSE NoEnd
  BY <1>2 DEF CloseBracket
<1> HIDE DEF t
<1>4. /\ u \in Stacks /\ Len(u) = Len(t) - 1 /\ Len(t) \in Nat \ {0}
      /\ \A i \in 1 .. Len(t) - 1 : u[i] = t[i]
  BY <1>2, FrontIs, EmptySeq, LenProperties DEF Stacks
<1>5. B[u] \in Stacks
  BY <1>4, BareExists
<1>6. CASE b # Partner[token]
  <2>1. after.is = "failed"
    BY <1>3, <1>6 DEF NoEnd
  <2>2. Last(B[s]) = b
    <3> DEFINE w == B[u]
    <3> HIDE DEF b, B
    <3>1. w \in Stacks
      BY <1>5
    <3> HIDE DEF w
    <3>2. Last(Append(w, b)) = b
      BY <1>1, <3>1, AppendProperties DEF Stacks, Last
    <3> QED
      BY <1>1, <3>2 DEF w
  <2> QED
    BY <1>6, <2>1, <2>2
<1>7. CASE b = Partner[token] /\ Len(t) = 1
  <2>1. after.is = "complete"
    BY <1>3, <1>7 DEF Popped, Done
  <2>2. u = <<>>
    BY <1>4, <1>7, EmptySeq DEF Stacks
  <2>3. B[u] = <<>>
    BY <1>4, <2>2, BareExists
  <2>4. Append(<<>>, b) = <<b>>
    OBVIOUS
  <2> QED
    BY <1>1, <1>7, <2>1, <2>3, <2>4
<1>8. CASE b = Partner[token] /\ Len(t) # 1
  <2>1. after = Go(u)
    BY <1>3, <1>8 DEF Popped
  <2>2. after.is = "open" /\ after.stack = u
    BY <2>1 DEF Go
  <2>3. Len(u) \in Nat \ {0} /\ u[1] = t[1]
    BY <1>4, <1>8
  <2>4. u # <<>>
    BY <1>4, <2>3, LenProperties
  <2>5. Based(u, angle)
    BY <1>2, <1>4, <2>3, <2>4 DEF Based
  <2> QED
    BY <1>1, <1>8, <2>2, <2>5
<1> QED
  BY <1>6, <1>7, <1>8

LEMMA EndStatementIs ==
  ASSUME NEW s, NEW angle, Based(s, angle), NEW after, after = EndStatement(s, angle)
  PROVE  /\ after.is = "open" /\ Based(after.stack, angle)
         /\ Bare(angle)[after.stack] = Bare(angle)[s]
<1> DEFINE t == DropAngles(s, angle)
<1>1. Based(t, angle) /\ Bare(angle)[t] = Bare(angle)[s] /\ t # <<>>
  BY DropAnglesIs DEF Based
<1>2. after = Go(t)
  BY <1>1 DEF EndStatement
<1> HIDE DEF t
<1> QED
  BY <1>1, <1>2 DEF Go

\* What a scan goes through is a stack of tokens.
States == [stack : Stacks, is : {"open", "complete", "failed"}]

LEMMA StatesAre ==
  /\ NoEnd \in States /\ Done \in States
  /\ \A s \in Stacks : Go(s) \in States /\ (s # <<>> => Popped(s) \in States /\ Front(s) \in Stacks)
<1>1. <<>> \in Stacks
  BY DEF Stacks
<1>2. \A s \in Stacks : s # <<>> => Front(s) \in Stacks
  BY FrontIs DEF Stacks
<1> QED
  BY <1>1, <1>2 DEF NoEnd, Done, Go, Popped, States

LEMMA DropAnglesType ==
  ASSUME NEW s \in Stacks, NEW angle
  PROVE  DropAngles(s, angle) \in Stacks
<1> DEFINE kept == {k \in DOMAIN s : s[k] # angle}
<1>1. /\ Len(s) \in Nat /\ DOMAIN s = 1 .. Len(s)
      /\ \A k \in 1 .. Len(s) : s[k] \in Tokens
  BY LenProperties, ElementOfSeq DEF Stacks
<1>2. \A n \in 0 .. Len(s) : SubSeq(s, 1, n) \in Stacks
  BY <1>1 DEF Stacks
<1>3. CASE kept = {}
  BY <1>1, <1>2, <1>3 DEF DropAngles
<1>4. CASE kept # {}
  <2> DEFINE m == Max(kept)
  <2>1. kept \in SUBSET Nat /\ \A k \in kept : k <= Len(s) /\ k \in 1 .. Len(s)
    BY <1>1
  <2>2. m \in kept
    <3> HIDE DEF kept
    <3> QED
      BY <1>1, <1>4, <2>1, MaxOf
  <2>3. DropAngles(s, angle) = SubSeq(s, 1, m)
    BY <1>4 DEF DropAngles
  <2> HIDE DEF m, kept
  <2>4. m \in 0 .. Len(s)
    BY <1>1, <2>1, <2>2
  <2> QED
    BY <1>2, <2>3, <2>4
<1> QED
  BY <1>3, <1>4

LEMMA ClosingType ==
  ASSUME NEW s \in Stacks, NEW char, NEW angle
  PROVE  CloseBracket(s, char, angle) \in States /\ EndStatement(s, angle) \in States
BY DropAnglesType, StatesAre DEF CloseBracket, EndStatement

LEMMA StepType ==
  ASSUME NEW s \in Stacks, NEW text \in Seq(STRING), NEW i \in 1 .. Len(text)
  PROVE  StepForward(s, text, i) \in States /\ StepBackward(s, text, i) \in States
<1>1. text[i] \in Tokens /\ "<" \in Tokens /\ ">" \in Tokens
  BY ElementOfSeq DEF Tokens
<1>2. \A b \in Tokens : Append(s, b) \in Stacks
  BY AppendProperties DEF Stacks
<1>3. /\ Go(Append(s, text[i])) \in States /\ Go(Append(s, "<")) \in States
      /\ Go(Append(s, ">")) \in States /\ Go(s) \in States
  BY <1>1, <1>2, StatesAre
<1>4. \A b : TopIs(s, b) => Popped(s) \in States /\ Go(Front(s)) \in States
  BY StatesAre DEF TopIs
<1>5. \A angle : /\ CloseBracket(s, text[i], angle) \in States
                 /\ EndStatement(s, angle) \in States
  BY ClosingType
<1>6. StepForward(s, text, i) \in States
  BY <1>3, <1>4, <1>5, StatesAre DEF StepForward
<1>7. StepBackward(s, text, i) \in States
  BY <1>3, <1>4, <1>5, StatesAre DEF StepBackward
<1> QED
  BY <1>6, <1>7

\* An angle bracket on top of a stack is not the one at its bottom.
LEMMA AngleOnTop ==
  ASSUME NEW s, NEW angle, Based(s, angle), TopIs(s, angle)
  PROVE  /\ Len(s) # 1 /\ Popped(s) = Go(Front(s)) /\ Based(Front(s), angle)
         /\ Bare(angle)[Front(s)] = Bare(angle)[s]
<1>1. s \in Stacks /\ s # <<>> /\ s[1] # angle /\ Last(s) = angle
  BY DEF Based, TopIs
<1>2. Len(s) \in Nat \ {0} /\ s[Len(s)] = angle
  BY <1>1, EmptySeq, LenProperties DEF Stacks, Last
<1>3. Len(s) # 1
  BY <1>1, <1>2
<1>4. /\ Front(s) \in Stacks /\ Len(Front(s)) = Len(s) - 1
      /\ \A i \in 1 .. Len(s) - 1 : Front(s)[i] = s[i]
  BY <1>1, FrontIs DEF Stacks
<1>5. Len(Front(s)) # 0 /\ Front(s)[1] = s[1]
  BY <1>2, <1>3, <1>4
<1>6. Front(s) # <<>>
  BY <1>5, LenProperties
<1> QED
  BY <1>1, <1>3, <1>4, <1>5, <1>6, BareExists DEF Based, Popped

\* How a token leaves the scan as it is, or adds or takes an angle bracket.
Same(s, after, angle) ==
  /\ after.is = "open" /\ Based(after.stack, angle)
  /\ Bare(angle)[after.stack] = Bare(angle)[s]

LEMMA SameStack ==
  ASSUME NEW s, NEW angle \in {"<", ">"}, Based(s, angle)
  PROVE  /\ Same(s, Go(s), angle) /\ Same(s, Go(Append(s, angle)), angle)
         /\ TopIs(s, angle) => /\ Len(s) # 1 /\ Same(s, Popped(s), angle)
                               /\ Same(s, Go(Front(s)), angle)
         /\ Same(s, EndStatement(s, angle), angle)
<1>1. s \in Stacks /\ angle \in Tokens
  BY DEF Based, Tokens
<1>2. Based(Append(s, angle), angle) /\ Bare(angle)[Append(s, angle)] = Bare(angle)[s]
  BY <1>1, Pushed
<1>3. \A x : Go(x).is = "open" /\ Go(x).stack = x
  BY DEF Go
<1>4. TopIs(s, angle) => Len(s) # 1 /\ Same(s, Popped(s), angle) /\ Same(s, Go(Front(s)), angle)
  BY <1>3, AngleOnTop DEF Same
<1>5. Same(s, EndStatement(s, angle), angle)
  BY EndStatementIs DEF Same
<1> QED
  BY <1>2, <1>3, <1>4, <1>5 DEF Same

\* A bracket that opens, in either direction.
LEMMA Waits ==
  ASSUME NEW s, NEW angle, Based(s, angle), NEW token \in Tokens, token # angle
  PROVE  /\ Go(Append(s, token)).is = "open"
         /\ Based(Go(Append(s, token)).stack, angle)
         /\ Bare(angle)[Go(Append(s, token)).stack] = Append(Bare(angle)[s], token)
<1>1. s \in Stacks
  BY DEF Based
<1>2. /\ Based(Append(s, token), angle)
      /\ Bare(angle)[Append(s, token)] = Append(Bare(angle)[s], token)
  BY <1>1, Pushed
<1> QED
  BY <1>2 DEF Go

LEMMA ForwardStep ==
  ASSUME NEW s, Based(s, "<"), NEW text \in Seq(STRING), NEW i \in 1 .. Len(text)
  PROVE  Move(s, StepForward(s, text, i), text[i], "<", Opening, Closing)
<1> DEFINE char == text[i]
           after == StepForward(s, text, i)
<1>1. char \in Tokens
  BY ElementOfSeq DEF Tokens
<1>2. CASE char \in Opening
  <2>1. char \notin Closing \cup {"<", ">", ">=", ";", EndOfLine}
    BY <1>2 DEF Opening, Closing, EndOfLine
  <2>2. after = Go(Append(s, char))
    BY <1>2, <2>1 DEF StepForward
  <2>3. /\ after.is = "open" /\ Based(after.stack, "<")
        /\ Bare("<")[after.stack] = Append(Bare("<")[s], char)
    <3> HIDE DEF char, after
    <3> QED
      BY <1>1, <2>1, <2>2, Waits
  <2> QED
    BY <1>2, <2>1, <2>3 DEF Move
<1>3. CASE char \in Closing
  <2>1. char \notin Opening \cup {"<", ">", ">=", ";", EndOfLine}
    BY <1>3 DEF Opening, Closing, EndOfLine
  <2>2. after = CloseBracket(s, char, "<")
    BY <1>3, <2>1 DEF StepForward
  <2> HIDE DEF char, after
  <2> QED
    BY <1>3, <2>1, <2>2, CloseBracketIs DEF Move, char, after
<1>4. CASE char \notin Opening \cup Closing
  <2>1. s # <<>>
    BY DEF Based
  <2>2. Same(s, after, "<")
    BY <1>4, <2>1, SameStack DEF StepForward
  <2> QED
    BY <1>4, <2>2 DEF Move, Same
<1> QED
  BY <1>2, <1>3, <1>4

LEMMA BackwardStep ==
  ASSUME NEW s, Based(s, ">"), NEW text \in Seq(STRING), NEW i \in 1 .. Len(text)
  PROVE  Move(s, StepBackward(s, text, i), text[i], ">", Closing, Opening)
<1> DEFINE char == text[i]
           after == StepBackward(s, text, i)
<1>1. char \in Tokens
  BY ElementOfSeq DEF Tokens
<1>2. CASE char \in Closing
  <2>1. char \notin Opening \cup {"<", ">", ">=", ";", EndOfLine}
    BY <1>2 DEF Opening, Closing, EndOfLine
  <2>2. after = Go(Append(s, char))
    BY <1>2, <2>1 DEF StepBackward
  <2>3. /\ after.is = "open" /\ Based(after.stack, ">")
        /\ Bare(">")[after.stack] = Append(Bare(">")[s], char)
    <3> HIDE DEF char, after
    <3> QED
      BY <1>1, <2>1, <2>2, Waits
  <2> QED
    BY <1>2, <2>1, <2>3 DEF Move
<1>3. CASE char \in Opening
  <2>1. char \notin Closing \cup {"<", ">", ">=", ";", EndOfLine}
    BY <1>3 DEF Opening, Closing, EndOfLine
  <2>2. after = CloseBracket(s, char, ">")
    BY <1>3, <2>1 DEF StepBackward
  <2> HIDE DEF char, after
  <2> QED
    BY <1>3, <2>1, <2>2, CloseBracketIs DEF Move, char, after
<1>4. CASE char \notin Opening \cup Closing
  <2>1. s # <<>>
    BY DEF Based
  <2>2. Same(s, after, ">")
    BY <1>4, <2>1, SameStack DEF StepBackward
  <2> QED
    BY <1>4, <2>2 DEF Move, Same
<1> QED
  BY <1>2, <1>3, <1>4

\* The brackets that a scan waits for, step by step, as they are without the
\* angles: the first one opens, the last one leaves nothing to wait for.
Turn(x, y, c, open, close) ==
  /\ c \in open => y = Append(x, c)
  /\ c \in close => x = Append(y, Partner[c])
  /\ c \notin open \cup close => x = y
Walk(p, t, m, open, close) ==
  /\ p \in [1 .. m - 1 -> Seq(Brackets) \ {<<>>}]
  /\ t[1] \in open /\ p[1] = <<t[1]>>
  /\ t[m] \in close /\ p[m - 1] = <<Partner[t[m]]>>
  /\ \A k \in 2 .. m - 1 : Turn(p[k-1], p[k], t[k], open, close)

\* One kind of bracket opens in the direction of a scan, the other closes.
Sides(open, close) == open \cap close = {} /\ open \cup close = Brackets

LEMMA PartnerIs ==
  /\ Sides(Opening, Closing) /\ Sides(Closing, Opening)
  /\ \A b \in Brackets : Partner[b] \in Brackets /\ Partner[Partner[b]] = b
<1>1. Sides(Opening, Closing) /\ Sides(Closing, Opening)
  BY DEF Sides, Brackets, Opening, Closing
<1>2. /\ Partner["("] = ")" /\ Partner["["] = "]" /\ Partner["{"] = "}"
      /\ Partner[")"] = "(" /\ Partner["]"] = "[" /\ Partner["}"] = "{"
  BY DEF Partner, Opening, Closing
<1> QED
  BY <1>1, <1>2 DEF Brackets, Opening, Closing

LEMMA AppendOnce ==
  ASSUME NEW x \in Stacks, NEW y \in Stacks, NEW b \in Tokens, Append(x, b) = Append(y, b)
  PROVE  x = y
<1>1. \A s \in Stacks : Front(Append(s, b)) = s
  BY DEF Stacks, Front
<1> QED
  BY <1>1

LEMMA BracketStacks ==
  /\ Brackets \subseteq Tokens /\ Seq(Brackets) \subseteq Stacks
  /\ \A x \in Seq(Brackets), c \in Brackets : /\ Append(x, c) \in Seq(Brackets)
                                              /\ Append(x, c) # <<>>
  /\ \A y \in Stacks, c \in Brackets : Append(y, c) \in Seq(Brackets) => y \in Seq(Brackets)
<1>1. Brackets \subseteq Tokens
  BY DEF Brackets, Tokens
<1>2. Seq(Brackets) \subseteq Stacks
  BY <1>1, SeqMonotonic DEF Stacks
<1>3. \A x \in Seq(Brackets), c \in Brackets : Append(x, c) \in Seq(Brackets) /\ Append(x, c) # <<>>
  BY AppendProperties
<1>4. ASSUME NEW y \in Stacks, NEW c \in Brackets, Append(y, c) \in Seq(Brackets)
      PROVE  y \in Seq(Brackets)
  <2>1. Front(Append(y, c)) = y
    BY DEF Stacks, Front
  <2>2. Append(y, c) # <<>>
    BY <1>1, AppendProperties DEF Stacks
  <2> QED
    BY <1>4, <2>1, <2>2, FrontIs
<1> QED
  BY <1>1, <1>2, <1>3, <1>4

\* A step of a scan that goes on is a turn of the walk.
LEMMA MoveTurns ==
  ASSUME NEW open, NEW close, Sides(open, close), NEW angle, NEW s, Based(s, angle), NEW c,
         Bare(angle)[s] \in Seq(Brackets), NEW after, Move(s, after, c, angle, open, close),
         after.is # "complete", after.is # "failed"
  PROVE  /\ after.is = "open" /\ Based(after.stack, angle)
         /\ Bare(angle)[after.stack] \in Seq(Brackets) \ {<<>>}
         /\ Turn(Bare(angle)[s], Bare(angle)[after.stack], c, open, close)
<1> DEFINE x == Bare(angle)[s]
           y == Bare(angle)[after.stack]
<1>1. after.is = "open" /\ Based(after.stack, angle) /\ Turn(x, y, c, open, close)
  BY DEF Move, Turn
<1>2. y \in Stacks /\ y # <<>>
  BY <1>1, BareIsNotEmpty
<1>3. x \in Seq(Brackets)
  OBVIOUS
<1> HIDE DEF x, y
<1>4. y \in Seq(Brackets)
  <2>1. CASE c \in open
    <3>1. y = Append(x, c) /\ c \in Brackets
      BY <1>1, <2>1 DEF Turn, Sides
    <3> QED
      BY <1>3, <3>1, BracketStacks
  <2>2. CASE c \in close
    <3>1. x = Append(y, Partner[c]) /\ Partner[c] \in Brackets
      BY <1>1, <2>2, PartnerIs DEF Turn, Sides
    <3> QED
      BY <1>2, <1>3, <3>1, BracketStacks
  <2>3. CASE c \notin open \cup close
    BY <1>1, <1>3, <2>3 DEF Turn
  <2> QED
    BY <2>1, <2>2, <2>3
<1> QED
  BY <1>1, <1>2, <1>4 DEF x, y

\* A scan goes on as a walk does.
LEMMA TurnMoves ==
  ASSUME NEW open, NEW close, Sides(open, close), NEW angle, NEW s, Based(s, angle), NEW c,
         NEW y \in Seq(Brackets) \ {<<>>}, Turn(Bare(angle)[s], y, c, open, close),
         NEW after, Move(s, after, c, angle, open, close)
  PROVE  /\ after.is = "open" /\ Based(after.stack, angle) /\ Bare(angle)[after.stack] = y
<1> DEFINE x == Bare(angle)[s]
           z == Bare(angle)[after.stack]
<1>1. x \in Stacks /\ y \in Stacks /\ y # <<>>
  BY BareIsNotEmpty, BracketStacks
<1>2. Based(after.stack, angle) => z \in Stacks
  BY BareIsNotEmpty
<1>3. CASE c \in close
  <2>1. x = Append(y, Partner[c]) /\ Partner[c] \in Tokens
    BY <1>3, BracketStacks, PartnerIs DEF Turn, Sides
  <2>2. \/ after.is = "open" /\ Based(after.stack, angle) /\ x = Append(z, Partner[c])
        \/ x = <<Partner[c]>>
        \/ Last(x) # Partner[c]
    BY <1>3 DEF Move
  <2> HIDE DEF x, z
  <2>3. Last(Append(y, Partner[c])) = Partner[c] /\ Append(<<>>, Partner[c]) = <<Partner[c]>>
    BY <1>1, <2>1, AppendProperties DEF Stacks, Last
  <2>4. <<>> \in Stacks
    BY DEF Stacks
  <2>5. x # <<Partner[c]>>
    BY <1>1, <2>1, <2>3, <2>4, AppendOnce
  <2>6. after.is = "open" /\ Based(after.stack, angle) /\ z = y
    BY <1>1, <1>2, <2>1, <2>2, <2>3, <2>5, AppendOnce
  <2> QED
    BY <2>6 DEF z
<1>4. CASE c \notin close
  BY <1>4 DEF Move, Turn
<1> QED
  BY <1>3, <1>4

\* It completes the expression when nothing but the partner is waited for.
LEMMA LastMove ==
  ASSUME NEW open, NEW close, NEW angle, NEW s, Based(s, angle), NEW c \in close, c \in Brackets,
         Bare(angle)[s] = <<Partner[c]>>, NEW after, Move(s, after, c, angle, open, close)
  PROVE  after.is = "complete"
<1> DEFINE z == Bare(angle)[after.stack]
           b == Partner[c]
<1>1. Based(after.stack, angle) => z \in Stacks /\ z # <<>>
  BY BareIsNotEmpty
<1>2. \/ Based(after.stack, angle) /\ <<b>> = Append(z, b)
      \/ after.is = "complete"
      \/ Last(<<b>>) # b
  BY DEF Move
<1>3. b \in Tokens /\ <<>> \in Stacks
  BY BracketStacks, PartnerIs DEF Stacks
<1> HIDE DEF z, b
<1>4. Append(<<>>, b) = <<b>> /\ Last(<<b>>) = b
  BY DEF Last
<1> QED
  BY <1>1, <1>2, <1>3, <1>4, AppendOnce

\* A scan over n tokens that begins with a bracket: it takes them one by one and
\* stays as it is once it is over.
Scanned(f, t, n, angle, open, close) ==
  /\ n \in Nat \ {0}
  /\ f[1].is = "open" /\ Based(f[1].stack, angle) /\ Bare(angle)[f[1].stack] = <<t[1]>>
  /\ \A k \in 2 .. n :
       IF f[k-1].is = "open"
         THEN Based(f[k-1].stack, angle) => Move(f[k-1].stack, f[k], t[k], angle, open, close)
         ELSE f[k] = f[k-1]

\* The scan is complete at the m-th token and not before; never if m is 0.
Ends(f, n, m) ==
  IF m = 0 THEN \A k \in 1 .. n : f[k].is # "complete"
  ELSE m \in 1 .. n /\ f[m].is = "complete" /\ \A k \in 1 .. m - 1 : f[k].is # "complete"

LEMMA StaysOver ==
  ASSUME NEW f, NEW t, NEW n, NEW angle, NEW open, NEW close, Scanned(f, t, n, angle, open, close),
         NEW k \in 1 .. n, f[k].is # "open", NEW j \in k .. n
  PROVE  f[j] = f[k]
<1>1. n \in Nat /\ \A i \in 2 .. n : f[i-1].is # "open" => f[i] = f[i-1]
  BY DEF Scanned
<1> DEFINE x == n - k
           P == {i \in 0 .. x : f[k + i] = f[k]}
<1>2. x \in Nat
  BY <1>1
<1>3. 0 \in P
  BY <1>2
<1>4. ASSUME NEW i \in 1 .. x, i - 1 \in P PROVE i \in P
  <2>1. f[k + (i - 1)] = f[k] /\ k + i \in 2 .. n /\ k + i - 1 = k + (i - 1) /\ i \in 0 .. x
    BY <1>1, <1>2, <1>4
  <2>2. f[k + i] = f[k + i - 1]
    BY <1>1, <2>1
  <2> QED
    BY <2>1, <2>2
<1> HIDE DEF P
<1>5. 0 .. x \subseteq P
  BY <1>2, <1>3, <1>4, CountInduction
<1>6. j - k \in 0 .. x /\ k + (j - k) = j
  BY <1>1
<1> QED
  BY <1>5, <1>6 DEF P

\* A scan that is completed is a walk.
LEMMA ScanWalks ==
  ASSUME NEW f, NEW t, NEW n, NEW angle, NEW open, NEW close, Scanned(f, t, n, angle, open, close),
         Sides(open, close), t[1] \in open, NEW m \in Nat \ {0}, Ends(f, n, m)
  PROVE  m \in 2 .. n /\ \E p : Walk(p, t, m, open, close)
<1>1. /\ n \in Nat /\ m \in 1 .. n /\ f[m].is = "complete"
      /\ \A k \in 1 .. m - 1 : f[k].is # "complete"
      /\ f[1].is = "open" /\ Based(f[1].stack, angle) /\ Bare(angle)[f[1].stack] = <<t[1]>>
  BY DEF Scanned, Ends
<1>2. m \in 2 .. n
  BY <1>1
<1>3. \A k \in 1 .. m - 1 : f[k].is # "failed"
  <2> SUFFICES ASSUME NEW k \in 1 .. m - 1, f[k].is = "failed" PROVE FALSE
    OBVIOUS
  <2>1. k \in 1 .. n /\ m \in k .. n /\ f[k].is # "open"
    BY <1>1
  <2>2. f[m] = f[k]
    BY <2>1, StaysOver
  <2> QED
    BY <1>1, <2>2
<1>4. \A k \in 2 .. n : f[k-1].is = "open" /\ Based(f[k-1].stack, angle)
                        => Move(f[k-1].stack, f[k], t[k], angle, open, close)
  BY DEF Scanned
<1> DEFINE On(k) == /\ f[k].is = "open" /\ Based(f[k].stack, angle)
                    /\ Bare(angle)[f[k].stack] \in Seq(Brackets) \ {<<>>}
           P == {i \in 0 .. m - 2 : On(i + 1)}
<1>5. On(1)
  <2>1. t[1] \in Brackets
    BY DEF Sides
  <2>2. <<t[1]>> \in Seq(Brackets) /\ <<t[1]>> # <<>>
    <3> DEFINE b == t[1]
    <3>1. b \in Brackets
      BY <2>1
    <3> HIDE DEF b
    <3>2. <<b>> \in Seq(Brackets) /\ <<b>> # <<>>
      BY <3>1
    <3> QED
      BY <3>2 DEF b
  <2> QED
    BY <1>1, <2>2
<1>6. ASSUME NEW k \in 2 .. m - 1, On(k - 1)
      PROVE  /\ On(k)
             /\ Turn(Bare(angle)[f[k-1].stack], Bare(angle)[f[k].stack], t[k], open, close)
  <2>1. Move(f[k-1].stack, f[k], t[k], angle, open, close)
    BY <1>1, <1>4, <1>6
  <2>2. f[k].is # "complete" /\ f[k].is # "failed"
    BY <1>1, <1>3
  <2> QED
    BY <1>6, <2>1, <2>2, MoveTurns
<1> HIDE DEF On
<1>7. \A k \in 1 .. m - 1 : On(k)
  <2> DEFINE x == m - 2
  <2>1. x \in Nat /\ 0 \in P
    BY <1>2, <1>5
  <2>2. ASSUME NEW i \in 1 .. x, i - 1 \in P PROVE i \in P
    <3>1. On(i - 1 + 1) /\ i + 1 \in 2 .. m - 1 /\ (i + 1) - 1 = i - 1 + 1 /\ i \in 0 .. m - 2
      BY <1>2, <2>2
    <3>2. On(i + 1)
      BY <1>6, <3>1
    <3> QED
      BY <3>1, <3>2
  <2> HIDE DEF x, P
  <2>3. 0 .. x \subseteq P
    BY <2>1, <2>2, CountInduction
  <2>4. ASSUME NEW k \in 1 .. m - 1 PROVE On(k)
    <3>1. k - 1 \in 0 .. x /\ k - 1 + 1 = k
      BY <1>2 DEF x
    <3>2. k - 1 \in P
      BY <2>3, <3>1
    <3> QED
      BY <3>1, <3>2 DEF P
  <2> QED
    BY <2>4
<1> DEFINE p == [k \in 1 .. m - 1 |-> Bare(angle)[f[k].stack]]
<1>8. p \in [1 .. m - 1 -> Seq(Brackets) \ {<<>>}]
  BY <1>7 DEF On
<1>9. t[1] \in open /\ p[1] = <<t[1]>>
  BY <1>1, <1>2
<1>10. \A k \in 2 .. m - 1 : Turn(p[k-1], p[k], t[k], open, close)
  <2> TAKE k \in 2 .. m - 1
  <2>1. k - 1 \in 1 .. m - 1 /\ k \in 1 .. m - 1
    BY <1>2
  <2>2. Turn(Bare(angle)[f[k-1].stack], Bare(angle)[f[k].stack], t[k], open, close)
    BY <1>6, <1>7, <2>1
  <2>3. p[k-1] = Bare(angle)[f[k-1].stack] /\ p[k] = Bare(angle)[f[k].stack]
    BY <2>1
  <2> HIDE DEF p
  <2> QED
    BY <2>2, <2>3
<1>11. t[m] \in close /\ p[m - 1] = <<Partner[t[m]]>>
  <2>1. m - 1 \in 1 .. m - 1 /\ m \in 2 .. n
    BY <1>2
  <2>2. On(m - 1)
    BY <1>7, <2>1
  <2>3. Move(f[m-1].stack, f[m], t[m], angle, open, close)
    BY <1>4, <2>1, <2>2 DEF On
  <2>4. t[m] \in close /\ Bare(angle)[f[m-1].stack] = <<Partner[t[m]]>>
    BY <1>1, <2>3 DEF Move
  <2> QED
    BY <2>1, <2>4
<1> HIDE DEF p
<1>12. Walk(p, t, m, open, close)
  BY <1>8, <1>9, <1>10, <1>11 DEF Walk
<1> QED
  BY <1>2, <1>12

\* A scan over what a walk goes through is completed where the walk ends.
LEMMA WalkScans ==
  ASSUME NEW f, NEW t, NEW n, NEW angle, NEW open, NEW close, Scanned(f, t, n, angle, open, close),
         Sides(open, close), NEW m \in 2 .. n, NEW p, Walk(p, t, m, open, close)
  PROVE  Ends(f, n, m)
<1>1. n \in Nat
  BY DEF Scanned
<1>2. \A k \in 2 .. n : f[k-1].is = "open" /\ Based(f[k-1].stack, angle)
                        => Move(f[k-1].stack, f[k], t[k], angle, open, close)
  BY DEF Scanned
<1> DEFINE On(k) == /\ f[k].is = "open" /\ Based(f[k].stack, angle)
                    /\ Bare(angle)[f[k].stack] = p[k]
           P == {i \in 0 .. m - 2 : On(i + 1)}
<1>3. On(1)
  BY DEF Scanned, Walk
<1>4. ASSUME NEW k \in 2 .. m - 1, On(k - 1) PROVE On(k)
  <2>1. k \in 2 .. n /\ k \in 1 .. m - 1
    BY <1>1
  <2>2. Move(f[k-1].stack, f[k], t[k], angle, open, close)
    BY <1>2, <1>4, <2>1
  <2>3. p[k] \in Seq(Brackets) \ {<<>>} /\ Turn(p[k-1], p[k], t[k], open, close)
    BY <2>1 DEF Walk
  <2>4. Turn(Bare(angle)[f[k-1].stack], p[k], t[k], open, close)
    BY <1>4, <2>3
  <2> QED
    BY <1>4, <2>2, <2>3, <2>4, TurnMoves
<1> HIDE DEF On
<1>5. \A k \in 1 .. m - 1 : On(k)
  <2> DEFINE x == m - 2
  <2>1. x \in Nat /\ 0 \in P
    BY <1>1, <1>3
  <2>2. ASSUME NEW i \in 1 .. x, i - 1 \in P PROVE i \in P
    <3>1. On(i - 1 + 1) /\ i + 1 \in 2 .. m - 1 /\ (i + 1) - 1 = i - 1 + 1 /\ i \in 0 .. m - 2
      BY <1>1, <2>2
    <3>2. On(i + 1)
      BY <1>4, <3>1
    <3> QED
      BY <3>1, <3>2
  <2> HIDE DEF x, P
  <2>3. 0 .. x \subseteq P
    BY <2>1, <2>2, CountInduction
  <2>4. ASSUME NEW k \in 1 .. m - 1 PROVE On(k)
    <3>1. k - 1 \in 0 .. x /\ k - 1 + 1 = k
      BY <1>1 DEF x
    <3>2. k - 1 \in P
      BY <2>3, <3>1
    <3> QED
      BY <3>1, <3>2 DEF P
  <2> QED
    BY <2>4
<1>6. f[m].is = "complete"
  <2>1. m - 1 \in 1 .. m - 1
    BY <1>1
  <2>2. On(m - 1)
    BY <1>5, <2>1
  <2>3. Move(f[m-1].stack, f[m], t[m], angle, open, close) /\ Based(f[m-1].stack, angle)
    BY <1>2, <2>2 DEF On
  <2>4. t[m] \in close /\ t[m] \in Brackets /\ Bare(angle)[f[m-1].stack] = <<Partner[t[m]]>>
    BY <2>2 DEF On, Walk, Sides
  <2> QED
    BY <2>3, <2>4, LastMove
<1> QED
  BY <1>1, <1>5, <1>6 DEF Ends, On

\* A walk read from its end: the same brackets, each one its partner.
Flip(x) == [i \in DOMAIN x |-> Partner[x[i]]]

LEMMA FlipIs ==
  /\ \A x \in Seq(Brackets) : Flip(x) \in Seq(Brackets) /\ (x # <<>> => Flip(x) # <<>>)
  /\ \A x \in Seq(Brackets), b \in Brackets : Flip(Append(x, b)) = Append(Flip(x), Partner[b])
  /\ \A b \in Brackets : Flip(<<b>>) = <<Partner[b]>>
<1>1. ASSUME NEW x \in Seq(Brackets)
      PROVE  Flip(x) \in Seq(Brackets) /\ Len(Flip(x)) = Len(x)
             /\ \A i \in 1 .. Len(x) : Flip(x)[i] = Partner[x[i]]
  <2>1. \A i \in 1 .. Len(x) : x[i] \in Brackets /\ Partner[x[i]] \in Brackets
    BY ElementOfSeq, PartnerIs
  <2> QED
    BY <2>1 DEF Flip
<1>2. ASSUME NEW x \in Seq(Brackets), x # <<>> PROVE Flip(x) # <<>>
  <2>1. Len(x) # 0 /\ Flip(x) \in Seq(Brackets) /\ Len(Flip(x)) = Len(x)
    BY <1>1, <1>2, EmptySeq
  <2> DEFINE y == Flip(x)
  <2>2. y \in Seq(Brackets) /\ Len(y) # 0
    BY <2>1
  <2> HIDE DEF y
  <2>3. y # <<>>
    BY <2>2, EmptySeq
  <2> QED
    BY <2>3 DEF y
<1>3. ASSUME NEW x \in Seq(Brackets), NEW b \in Brackets
      PROVE  Flip(Append(x, b)) = Append(Flip(x), Partner[b])
  <2> DEFINE v == Append(x, b)
             y == Flip(x)
             z == Flip(v)
             w == Append(y, Partner[b])
             c == Partner[b]
  <2>1. /\ v \in Seq(Brackets) /\ Len(v) = Len(x) + 1 /\ v[Len(x) + 1] = b
        /\ \A i \in 1 .. Len(x) : v[i] = x[i]
    BY AppendProperties
  <2>2. c \in Brackets /\ Len(x) \in Nat
    BY PartnerIs, LenProperties
  <2>3. /\ y \in Seq(Brackets) /\ Len(y) = Len(x)
        /\ \A i \in 1 .. Len(x) : y[i] = Partner[x[i]]
    BY <1>1
  <2>4. z \in Seq(Brackets) /\ Len(z) = Len(v) /\ \A i \in 1 .. Len(v) : z[i] = Partner[v[i]]
    BY <1>1, <2>1
  <2> HIDE DEF v, y, z, c
  <2>5. /\ w \in Seq(Brackets) /\ Len(w) = Len(y) + 1 /\ w[Len(y) + 1] = c
        /\ \A i \in 1 .. Len(y) : w[i] = y[i]
    BY <2>2, <2>3, AppendProperties DEF c
  <2> HIDE DEF w
  <2>6. \A i \in 1 .. Len(z) : z[i] = w[i]
    <3> TAKE i \in 1 .. Len(z)
    <3>1. CASE i = Len(x) + 1
      BY <2>1, <2>2, <2>3, <2>4, <2>5, <3>1 DEF c
    <3>2. CASE i \in 1 .. Len(x)
      BY <2>1, <2>2, <2>3, <2>4, <2>5, <3>2
    <3> QED
      BY <2>1, <2>2, <2>4, <3>1, <3>2
  <2>7. z = w
    BY <2>1, <2>2, <2>3, <2>4, <2>5, <2>6, SeqEqual
  <2> QED
    BY <2>7 DEF z, w, v, y, c
<1>4. ASSUME NEW b \in Brackets PROVE Flip(<<b>>) = <<Partner[b]>>
  BY DEF Flip
<1> QED
  BY <1>1, <1>2, <1>3, <1>4

LEMMA Mirrored ==
  ASSUME NEW t, NEW u, NEW m \in Nat, m >= 2, NEW open, NEW close, Sides(open, close),
         NEW p, Walk(p, t, m, open, close), \A k \in 1 .. m : u[k] = t[m + 1 - k]
  PROVE  \E q : Walk(q, u, m, close, open)
<1> DEFINE q == [k \in 1 .. m - 1 |-> Flip(p[m - k])]
<1>1. /\ \A k \in 1 .. m - 1 : p[k] \in Seq(Brackets) /\ p[k] # <<>>
      /\ t[1] \in open /\ p[1] = <<t[1]>> /\ t[m] \in close /\ p[m - 1] = <<Partner[t[m]]>>
      /\ open \subseteq Brackets /\ close \subseteq Brackets
  BY DEF Walk, Sides
<1>2. /\ \A k \in 1 .. m - 1 : m - k \in 1 .. m - 1 /\ q[k] = Flip(p[m - k])
      /\ 1 \in 1 .. m - 1 /\ m - 1 \in 1 .. m - 1 /\ m - (m - 1) = 1
      /\ u[1] = t[m] /\ u[m] = t[1]
  OBVIOUS
<1>3. q \in [1 .. m - 1 -> Seq(Brackets) \ {<<>>}]
  BY <1>1, <1>2, FlipIs
<1>4. u[1] \in close /\ q[1] = <<u[1]>>
  <2>1. q[1] = Flip(<<Partner[t[m]]>>) /\ t[m] \in Brackets
    BY <1>1, <1>2
  <2>2. Flip(<<Partner[t[m]]>>) = <<t[m]>>
    BY <2>1, FlipIs, PartnerIs
  <2> QED
    BY <1>1, <1>2, <2>1, <2>2
<1>5. u[m] \in open /\ q[m - 1] = <<Partner[u[m]]>>
  <2>1. q[m - 1] = Flip(<<t[1]>>) /\ t[1] \in Brackets
    BY <1>1, <1>2
  <2>2. Flip(<<t[1]>>) = <<Partner[t[1]]>>
    BY <2>1, FlipIs
  <2> QED
    BY <1>1, <1>2, <2>1, <2>2
<1>6. \A k \in 2 .. m - 1 : Turn(q[k-1], q[k], u[k], close, open)
  <2> TAKE k \in 2 .. m - 1
  <2> DEFINE x == p[m - k]
             y == p[m - k + 1]
             c == u[k]
  <2>1. /\ m - k + 1 \in 2 .. m - 1 /\ (m - k + 1) - 1 = m - k /\ m - (k - 1) = m - k + 1
        /\ m + 1 - k = m - k + 1 /\ k - 1 \in 1 .. m - 1 /\ k \in 1 .. m - 1
        /\ m - k + 1 \in 1 .. m - 1 /\ m - k \in 1 .. m - 1 /\ k \in 1 .. m
    OBVIOUS
  <2>2. u[k] = t[m - k + 1]
    <3>1. u[k] = t[m + 1 - k]
      BY <2>1
    <3> QED
      BY <2>1, <3>1
  <2>3. Turn(x, y, c, open, close)
    <3>1. Turn(p[(m - k + 1) - 1], p[m - k + 1], t[m - k + 1], open, close)
      BY <2>1 DEF Walk
    <3> QED
      BY <2>1, <2>2, <3>1
  <2>4. q[k - 1] = Flip(y) /\ q[k] = Flip(x)
    BY <2>1
  <2>5. x \in Seq(Brackets) /\ y \in Seq(Brackets)
    BY <1>1, <2>1
  <2> HIDE DEF x, y, c, q
  <2>6. c \in open => Flip(y) = Append(Flip(x), Partner[c])
    BY <1>1, <2>3, <2>5, FlipIs DEF Turn
  <2>7. c \in close => Flip(x) = Append(Flip(y), c)
    <3> SUFFICES ASSUME c \in close PROVE Flip(x) = Append(Flip(y), c)
      OBVIOUS
    <3>1. x = Append(y, Partner[c]) /\ c \in Brackets
      BY <1>1, <2>3 DEF Turn
    <3>2. Partner[c] \in Brackets /\ Partner[Partner[c]] = c
      BY <3>1, PartnerIs
    <3>3. Flip(Append(y, Partner[c])) = Append(Flip(y), Partner[Partner[c]])
      BY <2>5, <3>2, FlipIs
    <3> QED
      BY <3>1, <3>2, <3>3
  <2>8. c \notin open \cup close => Flip(x) = Flip(y)
    BY <2>3 DEF Turn
  <2>9. Turn(q[k - 1], q[k], c, close, open)
    BY <2>4, <2>6, <2>7, <2>8 DEF Turn
  <2> QED
    BY <2>9 DEF c
<1> HIDE DEF q
<1> QED
  BY <1>3, <1>4, <1>5, <1>6 DEF Walk

\* Two scans in opposite directions, over the same tokens, take equally many.
LEMMA ScansAgree ==
  ASSUME NEW f, NEW t, NEW n, NEW angle, NEW open, NEW close, Scanned(f, t, n, angle, open, close),
         Sides(open, close), t[1] \in open, NEW m \in Nat \ {0}, Ends(f, n, m),
         NEW g, NEW u, NEW l, NEW other, Scanned(g, u, l, other, close, open), m \in 1 .. l,
         \A k \in 1 .. m : u[k] = t[m + 1 - k]
  PROVE  Ends(g, l, m)
<1>1. m \in 2 .. n /\ \E p : Walk(p, t, m, open, close)
  BY ScanWalks
<1>2. PICK p : Walk(p, t, m, open, close)
  BY <1>1
<1>3. n \in Nat /\ l \in Nat
  BY DEF Scanned
<1>4. m >= 2 /\ m \in 2 .. l
  BY <1>1, <1>3
<1>5. PICK q : Walk(q, u, m, close, open)
  BY <1>2, <1>4, Mirrored
<1>6. Sides(close, open)
  BY DEF Sides
<1> QED
  BY <1>4, <1>5, <1>6, WalkScans

\* What CloseExpression reads from pos on, and ReverseCloseExpression back from it.
Ahead(text, pos) == [k \in 1 .. Len(text) - pos + 1 |-> text[pos + k - 1]]
Behind(text, pos) == [k \in 1 .. pos |-> text[pos - k + 1]]

LEMMA FirstToken ==
  ASSUME NEW b \in Tokens, NEW angle, b # angle
  PROVE  /\ Go(Append(<<>>, b)).is = "open" /\ Based(Go(Append(<<>>, b)).stack, angle)
         /\ Bare(angle)[Go(Append(<<>>, b)).stack] = <<b>>
<1>1. <<>> \in Stacks /\ Bare(angle)[<<>>] = <<>>
  <2>1. <<>> \in Stacks
    BY DEF Stacks
  <2> QED
    BY <2>1, BareExists
<1>2. Append(<<>>, b) \in Stacks /\ Bare(angle)[Append(<<>>, b)] = Append(<<>>, b)
  <2> DEFINE e == <<>>
  <2>1. e \in Stacks /\ Bare(angle)[e] = e
    BY <1>1
  <2> HIDE DEF e
  <2>2. /\ Append(e, b) \in Stacks
        /\ Bare(angle)[Append(e, b)] = IF b = angle THEN Bare(angle)[e] ELSE Append(Bare(angle)[e], b)
    BY ONLY <2>1, Pushed, b \in Tokens
  <2> QED
    BY <2>1, <2>2 DEF e
<1>3. Append(<<>>, b) = <<b>>
  OBVIOUS
<1> DEFINE v == <<b>>
<1>4. v # <<>> /\ v[1] = b
  OBVIOUS
<1>5. v \in Stacks /\ Bare(angle)[v] = v
  BY <1>2, <1>3
<1> HIDE DEF v
<1>6. Go(v).is = "open" /\ Based(Go(v).stack, angle) /\ Bare(angle)[Go(v).stack] = v
  BY <1>4, <1>5 DEF Based, Go
<1> QED
  BY <1>3, <1>6 DEF v

LEMMA CloseExpressionIs ==
  ASSUME NEW text \in Seq(STRING), NEW pos \in 1 .. Len(text), text[pos] \in Opening
  PROVE  \E f : \E m \in Nat :
           /\ Scanned(f, Ahead(text, pos), Len(text) - pos + 1, "<", Opening, Closing)
           /\ Ends(f, Len(text) - pos + 1, m)
           /\ CloseExpression(text, pos) = IF m = 0 THEN 0 ELSE pos + m - 1
<1> DEFINE D == pos - 1 .. Len(text)
           n == Len(text) - pos + 1
           t == Ahead(text, pos)
           Solves(h) == h = [i \in D |-> IF i = pos - 1 THEN Go(<<>>)
                                         ELSE IF h[i-1].is # "open" THEN h[i-1]
                                         ELSE StepForward(h[i-1].stack, text, i)]
           size == [i \in D |-> i - (pos - 1)]
           first == {pos - 1}
           next == [i \in D |-> IF i = pos - 1 THEN i ELSE i - 1]
           base == [i \in D |-> Go(<<>>)]
           op == [x \in D \X States |-> IF x[1] = pos - 1 \/ x[2].is # "open" THEN x[2]
                                        ELSE StepForward(x[2].stack, text, x[1])]
<1>1. /\ Len(text) \in Nat /\ n \in Nat \ {0} /\ pos \in Nat \ {0}
      /\ \A i \in 1 .. Len(text) : text[i] \in Tokens
  BY LenProperties, ElementOfSeq DEF Tokens
<1>2. Shrinks(D, size, first, next)
  BY <1>1 DEF Shrinks
<1>3. base \in [D -> States]
  <2>1. Go(<<>>) \in States
    BY DEF Go, States, Stacks
  <2> QED
    BY <2>1
<1>4. op \in [D \X States -> States]
  <2>1. \A i \in D, r \in States : i # pos - 1 => StepForward(r.stack, text, i) \in States
    BY <1>1, StepType DEF States
  <2> QED
    BY <2>1
<1>5. /\ \A i \in D : base[i] = Go(<<>>) /\ (i # pos - 1 => next[i] = i - 1 /\ i - 1 \in D)
      /\ \A i \in D, r \in States :
           i # pos - 1 => op[<<i, r>>] = IF r.is # "open" THEN r ELSE StepForward(r.stack, text, i)
  BY <1>1
<1> HIDE DEF op, next, size, base, D
<1>6. PICK h \in [D -> States] : Solution(h, D, first, next, base, op)
  BY <1>2, <1>3, <1>4, Recursion
<1>7. \A i \in D : h[i] = IF i = pos - 1 THEN Go(<<>>)
                          ELSE IF h[i-1].is # "open" THEN h[i-1]
                          ELSE StepForward(h[i-1].stack, text, i)
  <2> TAKE i \in D
  <2>1. CASE i = pos - 1
    BY <1>5, <1>6, <2>1 DEF Solution
  <2>2. CASE i # pos - 1
    <3>1. h[i] = op[<<i, h[i-1]>>] /\ h[i-1] \in States
      BY <1>5, <1>6, <2>2 DEF Solution
    <3> QED
      BY <1>5, <2>2, <3>1
  <2> QED
    BY <2>1, <2>2
<1>8. Solves(h)
  BY <1>6, <1>7
<1> DEFINE scan == CHOOSE x : Solves(x)
<1>9. Solves(scan)
  <2> HIDE DEF Solves
  <2> QED
    BY <1>8
<1> DEFINE ends == {i \in pos .. Len(text) : scan[i].is = "complete"}
<1>10. CloseExpression(text, pos) = IF ends = {} THEN 0 ELSE Min(ends)
  <2>1. text[pos] # "<"
    BY DEF Opening
  <2> QED
    BY <2>1 DEF CloseExpression, ends, scan, D
<1> HIDE DEF scan
<1>11. \A i \in D : scan[i] = IF i = pos - 1 THEN Go(<<>>)
                              ELSE IF scan[i-1].is # "open" THEN scan[i-1]
                              ELSE StepForward(scan[i-1].stack, text, i)
  BY <1>9
<1> DEFINE f == [k \in 1 .. n |-> scan[pos + k - 1]]
<1>12. \A k \in 1 .. n : /\ f[k] = scan[pos + k - 1] /\ t[k] = text[pos + k - 1]
                         /\ pos + k - 1 \in D /\ pos + k - 1 \in 1 .. Len(text)
  BY <1>1 DEF Ahead, D
<1>13. scan[pos] = Go(Append(<<>>, text[pos])) /\ f[1] = scan[pos] /\ t[1] = text[pos]
  <2>1. pos \in D /\ pos - 1 \in D /\ pos # pos - 1 /\ 1 \in 1 .. n /\ pos + 1 - 1 = pos
    BY <1>1 DEF D
  <2>2. scan[pos - 1] = Go(<<>>)
    BY <1>11, <2>1
  <2>3. scan[pos] = StepForward(<<>>, text, pos)
    BY <1>11, <2>1, <2>2 DEF Go
  <2>4. text[pos] \notin Closing \cup {"<", ">", ">=", ";", EndOfLine}
    BY DEF Opening, Closing, EndOfLine
  <2>5. StepForward(<<>>, text, pos) = Go(Append(<<>>, text[pos]))
    BY <2>4 DEF StepForward
  <2> QED
    BY <1>12, <2>1, <2>3, <2>5
<1>14. Scanned(f, t, n, "<", Opening, Closing)
  <2>1. text[pos] # "<" /\ text[pos] \in Tokens
    BY <1>1 DEF Opening
  <2>2. /\ f[1].is = "open" /\ Based(f[1].stack, "<") /\ Bare("<")[f[1].stack] = <<t[1]>>
    BY <1>13, <2>1, FirstToken
  <2>3. ASSUME NEW k \in 2 .. n
        PROVE  IF f[k-1].is = "open"
                 THEN Based(f[k-1].stack, "<")
                        => Move(f[k-1].stack, f[k], t[k], "<", Opening, Closing)
                 ELSE f[k] = f[k-1]
    <3> DEFINE i == pos + k - 1
    <3>1. k - 1 \in 1 .. n /\ k \in 1 .. n /\ pos + (k - 1) - 1 = i - 1 /\ i # pos - 1
      BY <1>1
    <3>2. f[k] = scan[i] /\ f[k-1] = scan[i - 1] /\ t[k] = text[i] /\ i \in D /\ i \in 1 .. Len(text)
      BY <1>12, <3>1
    <3> HIDE DEF i, f, t
    <3>3. f[k] = IF f[k-1].is # "open" THEN f[k-1] ELSE StepForward(f[k-1].stack, text, i)
      BY <1>11, <3>1, <3>2
    <3>4. Based(f[k-1].stack, "<")
            => Move(f[k-1].stack, StepForward(f[k-1].stack, text, i), t[k], "<", Opening, Closing)
      BY <3>2, ForwardStep
    <3> QED
      BY <3>3, <3>4
  <2> HIDE DEF f, t, n
  <2> QED
    BY <1>1, <2>2, <2>3 DEF Scanned
<1>15. CASE ends = {}
  <2>1. Ends(f, n, 0)
    <3>1. \A k \in 1 .. n : pos + k - 1 \in pos .. Len(text)
      BY <1>1
    <3> QED
      BY <1>12, <1>15, <3>1 DEF Ends
  <2> QED
    BY <1>10, <1>14, <1>15, <2>1
<1>16. CASE ends # {}
  <2> DEFINE e == Min(ends)
             m == e - pos + 1
  <2>1. ends \subseteq Nat
    BY <1>1
  <2>2. e \in ends /\ \A i \in ends : e <= i
    <3> HIDE DEF ends
    <3> QED
      BY <1>16, <2>1, MinOf
  <2> HIDE DEF e
  <2>3. e \in pos .. Len(text) /\ scan[e].is = "complete"
    BY <2>2
  <2>4. m \in 1 .. n /\ pos + m - 1 = e /\ m # 0 /\ m \in Nat
    BY <1>1, <2>3
  <2>5. \A k \in 1 .. m - 1 : pos + k - 1 \in pos .. Len(text) /\ pos + k - 1 < e /\ k \in 1 .. n
    BY <1>1, <2>3
  <2>6. f[m].is = "complete"
    BY <1>12, <2>3, <2>4
  <2>7. \A k \in 1 .. m - 1 : f[k].is # "complete"
    <3> SUFFICES ASSUME NEW k \in 1 .. m - 1, f[k].is = "complete" PROVE FALSE
      OBVIOUS
    <3>1. pos + k - 1 \in pos .. Len(text) /\ pos + k - 1 < e /\ k \in 1 .. n
      BY <2>5
    <3>2. pos + k - 1 \in ends
      BY <1>12, <3>1
    <3>3. e <= pos + k - 1
      BY <2>2, <3>2
    <3> QED
      BY <1>1, <2>3, <3>1, <3>3
  <2> HIDE DEF f, ends, m
  <2>8. Ends(f, n, m)
    BY <2>4, <2>6, <2>7 DEF Ends
  <2>9. CloseExpression(text, pos) = pos + m - 1
    BY <1>10, <1>16, <2>4 DEF e
  <2> QED
    BY <1>14, <2>4, <2>8, <2>9
<1> QED
  BY <1>15, <1>16

\* Only characters that are no brackets are stepped over, and never the first.
LEMMA SteppedOverIs ==
  ASSUME NEW text \in Seq(STRING), NEW pos \in 1 .. Len(text)
  PROVE  \A i \in SteppedOver(text, pos) : i # pos /\ text[i] \in {"-", "operator", "<"}
<1> DEFINE Pair(i) == \/ text[i + 1] = ">" /\ text[i] \in {"-", "operator"}
                      \/ text[i + 1] = "<" /\ text[i] = "<"
           Solves(h) == h = [i \in Nat |-> /\ i < pos
                                           /\ ~h[i + 1]
                                           /\ \/ text[i + 1] = ">" /\ text[i] \in {"-", "operator"}
                                              \/ text[i + 1] = "<" /\ text[i] = "<"]
           size == [i \in Nat |-> IF i < pos THEN pos - i ELSE 0]
           past == {i \in Nat : ~(i < pos)}
           next == [i \in Nat |-> i + 1]
           base == [i \in Nat |-> FALSE]
           op == [x \in Nat \X BOOLEAN |-> IF x[2] THEN FALSE
                                           ELSE IF Pair(x[1]) THEN TRUE ELSE FALSE]
<1>1. pos \in Nat
  BY LenProperties
<1>2. Shrinks(Nat, size, past, next)
  BY <1>1 DEF Shrinks
<1>3. base \in [Nat -> BOOLEAN] /\ op \in [Nat \X BOOLEAN -> BOOLEAN]
  OBVIOUS
<1>4. /\ \A i \in Nat : base[i] = FALSE /\ next[i] = i + 1 /\ i + 1 \in Nat
      /\ \A i \in Nat, r \in BOOLEAN :
           op[<<i, r>>] = IF r THEN FALSE ELSE IF Pair(i) THEN TRUE ELSE FALSE
  <2>1. \A i \in Nat : next[i] = i + 1 /\ i + 1 \in Nat
    OBVIOUS
  <2>2. \A i \in Nat : base[i] = FALSE
    BY Zenon
  <2>3. \A i \in Nat, r \in BOOLEAN :
           op[<<i, r>>] = IF r THEN FALSE ELSE IF Pair(i) THEN TRUE ELSE FALSE
    <3> HIDE DEF Pair
    <3> QED
      BY Zenon
  <2> HIDE DEF op, next, base, Pair
  <2> QED
    BY <2>1, <2>2, <2>3
<1> HIDE DEF op, next, size, base
<1>5. PICK h \in [Nat -> BOOLEAN] : Solution(h, Nat, past, next, base, op)
  BY <1>2, <1>3, Recursion
<1>6. \A i \in Nat : h[i] = (i < pos /\ ~h[i + 1] /\ Pair(i))
  <2> TAKE i \in Nat
  <2>1. h[i] \in BOOLEAN /\ h[i + 1] \in BOOLEAN
    BY <1>4, <1>5
  <2>2. CASE i < pos
    <3>1. h[i] = op[<<i, h[i + 1]>>]
      BY <1>4, <1>5, <2>2 DEF Solution
    <3>2. h[i] = IF h[i + 1] THEN FALSE ELSE IF Pair(i) THEN TRUE ELSE FALSE
      BY <1>4, <2>1, <3>1
    <3> HIDE DEF Pair
    <3> QED
      BY <2>1, <2>2, <3>2
  <2>3. CASE ~(i < pos)
    <3>1. h[i] = FALSE
      BY <1>4, <1>5, <2>3 DEF Solution
    <3> QED
      BY <2>3, <3>1
  <2> QED
    BY <2>2, <2>3
<1>7. Solves(h)
  BY <1>5, <1>6
<1> DEFINE over == CHOOSE x : Solves(x)
<1>8. Solves(over)
  <2> HIDE DEF Solves
  <2> QED
    BY <1>7
<1>9. SteppedOver(text, pos) = {i \in 1 .. pos : over[i]}
  BY DEF SteppedOver, over
<1> HIDE DEF over
<1>10. \A i \in Nat : over[i] => i < pos /\ Pair(i)
  BY <1>8
<1>11. ASSUME NEW i \in SteppedOver(text, pos) PROVE i # pos /\ text[i] \in {"-", "operator", "<"}
  <2>1. i \in Nat /\ over[i]
    BY <1>1, <1>9
  <2>2. i < pos /\ Pair(i)
    BY <1>10, <2>1
  <2> QED
    BY <1>1, <2>1, <2>2
<1> QED
  BY <1>11

LEMMA ReverseCloseExpressionIs ==
  ASSUME NEW text \in Seq(STRING), NEW pos \in 1 .. Len(text), text[pos] \in Closing
  PROVE  \E f : \E m \in Nat :
           /\ Scanned(f, Behind(text, pos), pos, ">", Closing, Opening)
           /\ Ends(f, pos, m)
           /\ ReverseCloseExpression(text, pos) = IF m = 0 THEN 0 ELSE pos - m + 1
<1> DEFINE D == 1 .. pos + 1
           t == Behind(text, pos)
           over == SteppedOver(text, pos)
           Solves(h) == h = [i \in D |-> IF i = pos + 1 THEN Go(<<>>)
                                         ELSE IF h[i+1].is # "open" \/ i \in over THEN h[i+1]
                                         ELSE StepBackward(h[i+1].stack, text, i)]
           size == [i \in D |-> pos + 1 - i]
           first == {pos + 1}
           next == [i \in D |-> IF i = pos + 1 THEN i ELSE i + 1]
           base == [i \in D |-> Go(<<>>)]
           op == [x \in D \X States |->
                    IF x[1] = pos + 1 \/ x[2].is # "open" \/ x[1] \in over THEN x[2]
                    ELSE StepBackward(x[2].stack, text, x[1])]
<1>1. /\ Len(text) \in Nat /\ pos \in Nat \ {0}
      /\ \A i \in 1 .. Len(text) : text[i] \in Tokens
  BY LenProperties, ElementOfSeq DEF Tokens
<1> HIDE DEF over
<1>2. Shrinks(D, size, first, next)
  BY <1>1 DEF Shrinks
<1>3. base \in [D -> States]
  <2>1. Go(<<>>) \in States
    BY DEF Go, States, Stacks
  <2> QED
    BY <2>1
<1>4. op \in [D \X States -> States]
  <2>1. \A i \in D, r \in States : i # pos + 1 => StepBackward(r.stack, text, i) \in States
    BY <1>1, StepType DEF States
  <2> QED
    BY <2>1
<1>5. /\ \A i \in D : base[i] = Go(<<>>) /\ (i # pos + 1 => next[i] = i + 1 /\ i + 1 \in D)
      /\ \A i \in D, r \in States :
           i # pos + 1 => op[<<i, r>>] = IF r.is # "open" \/ i \in over THEN r
                                         ELSE StepBackward(r.stack, text, i)
  BY <1>1
<1> HIDE DEF op, next, size, base, D
<1>6. PICK h \in [D -> States] : Solution(h, D, first, next, base, op)
  BY <1>2, <1>3, <1>4, Recursion
<1>7. \A i \in D : h[i] = IF i = pos + 1 THEN Go(<<>>)
                          ELSE IF h[i+1].is # "open" \/ i \in over THEN h[i+1]
                          ELSE StepBackward(h[i+1].stack, text, i)
  <2> TAKE i \in D
  <2>1. CASE i = pos + 1
    BY <1>5, <1>6, <2>1 DEF Solution
  <2>2. CASE i # pos + 1
    <3>1. h[i] = op[<<i, h[i+1]>>] /\ h[i+1] \in States
      BY <1>5, <1>6, <2>2 DEF Solution
    <3> QED
      BY <1>5, <2>2, <3>1
  <2> QED
    BY <2>1, <2>2
<1>8. Solves(h)
  BY <1>6, <1>7
<1> DEFINE scan == CHOOSE x : Solves(x)
<1>9. Solves(scan)
  <2> HIDE DEF Solves
  <2> QED
    BY <1>8
<1> DEFINE starts == {i \in 1 .. pos : scan[i].is = "complete"}
<1>10. ReverseCloseExpression(text, pos) = IF starts = {} THEN 0 ELSE Max(starts)
  BY DEF ReverseCloseExpression, starts, scan, D, over
<1> HIDE DEF scan
<1>11. \A i \in D : scan[i] = IF i = pos + 1 THEN Go(<<>>)
                              ELSE IF scan[i+1].is # "open" \/ i \in over THEN scan[i+1]
                              ELSE StepBackward(scan[i+1].stack, text, i)
  BY <1>9
<1> DEFINE f == [k \in 1 .. pos |-> scan[pos - k + 1]]
<1>12. \A k \in 1 .. pos : /\ f[k] = scan[pos - k + 1] /\ t[k] = text[pos - k + 1]
                           /\ pos - k + 1 \in D /\ pos - k + 1 \in 1 .. Len(text)
  BY <1>1 DEF Behind, D
<1>13. scan[pos] = Go(Append(<<>>, text[pos])) /\ f[1] = scan[pos] /\ t[1] = text[pos]
  <2>1. /\ pos \in D /\ pos + 1 \in D /\ pos # pos + 1 /\ 1 \in 1 .. pos /\ pos - 1 + 1 = pos
        /\ pos \notin over
    BY <1>1, SteppedOverIs DEF D, over
  <2>2. scan[pos + 1] = Go(<<>>)
    BY <1>11, <2>1
  <2>3. scan[pos] = StepBackward(<<>>, text, pos)
    BY <1>11, <2>1, <2>2 DEF Go
  <2>4. text[pos] \notin Opening \cup {"<", ">", ">=", ";", EndOfLine}
    BY DEF Opening, Closing, EndOfLine
  <2>5. StepBackward(<<>>, text, pos) = Go(Append(<<>>, text[pos]))
    BY <2>4 DEF StepBackward
  <2> QED
    BY <1>12, <2>1, <2>3, <2>5
<1>14. Scanned(f, t, pos, ">", Closing, Opening)
  <2>1. text[pos] # ">" /\ text[pos] \in Tokens
    BY <1>1 DEF Closing
  <2>2. /\ f[1].is = "open" /\ Based(f[1].stack, ">") /\ Bare(">")[f[1].stack] = <<t[1]>>
    BY <1>13, <2>1, FirstToken
  <2>3. ASSUME NEW k \in 2 .. pos
        PROVE  IF f[k-1].is = "open"
                 THEN Based(f[k-1].stack, ">")
                        => Move(f[k-1].stack, f[k], t[k], ">", Closing, Opening)
                 ELSE f[k] = f[k-1]
    <3> DEFINE i == pos - k + 1
    <3>1. k - 1 \in 1 .. pos /\ k \in 1 .. pos /\ pos - (k - 1) + 1 = i + 1 /\ i # pos + 1
      BY <1>1
    <3>2. f[k] = scan[i] /\ f[k-1] = scan[i + 1] /\ t[k] = text[i] /\ i \in D /\ i \in 1 .. Len(text)
      BY <1>12, <3>1
    <3> HIDE DEF i, f, t
    <3>3. f[k] = IF f[k-1].is # "open" \/ i \in over THEN f[k-1]
                 ELSE StepBackward(f[k-1].stack, text, i)
      BY <1>11, <3>1, <3>2
    <3>4. Based(f[k-1].stack, ">")
            => Move(f[k-1].stack, StepBackward(f[k-1].stack, text, i), t[k], ">", Closing, Opening)
      BY <3>2, BackwardStep
    <3>5. i \in over => t[k] \notin Opening \cup Closing
      <4>1. i \in over => t[k] \in {"-", "operator", "<"}
        BY <3>2, SteppedOverIs DEF over
      <4> QED
        BY <4>1 DEF Opening, Closing
    <3>6. f[k-1].is = "open" /\ t[k] \notin Opening \cup Closing /\ Based(f[k-1].stack, ">")
            => Move(f[k-1].stack, f[k-1], t[k], ">", Closing, Opening)
      BY DEF Move
    <3> QED
      BY <3>3, <3>4, <3>5, <3>6
  <2> HIDE DEF f, t
  <2> QED
    BY <1>1, <2>2, <2>3 DEF Scanned
<1>15. CASE starts = {}
  <2>1. Ends(f, pos, 0)
    <3>1. \A k \in 1 .. pos : pos - k + 1 \in 1 .. pos
      BY <1>1
    <3> QED
      BY <1>12, <1>15, <3>1 DEF Ends
  <2> QED
    BY <1>10, <1>14, <1>15, <2>1
<1>16. CASE starts # {}
  <2> DEFINE s == Max(starts)
             m == pos - s + 1
  <2>1. starts \in SUBSET Nat /\ \A i \in starts : i <= pos
    BY <1>1
  <2>2. s \in starts /\ \A i \in starts : i <= s
    <3> HIDE DEF starts
    <3> QED
      BY <1>1, <1>16, <2>1, MaxOf
  <2> HIDE DEF s
  <2>3. s \in 1 .. pos /\ scan[s].is = "complete"
    BY <2>2
  <2>4. m \in 1 .. pos /\ pos - m + 1 = s /\ m # 0 /\ m \in Nat
    BY <1>1, <2>3
  <2>5. \A k \in 1 .. m - 1 : pos - k + 1 \in 1 .. pos /\ s < pos - k + 1 /\ k \in 1 .. pos
    BY <1>1, <2>3
  <2>6. f[m].is = "complete"
    BY <1>12, <2>3, <2>4
  <2>7. \A k \in 1 .. m - 1 : f[k].is # "complete"
    <3> SUFFICES ASSUME NEW k \in 1 .. m - 1, f[k].is = "complete" PROVE FALSE
      OBVIOUS
    <3>1. pos - k + 1 \in 1 .. pos /\ s < pos - k + 1 /\ k \in 1 .. pos
      BY <2>5
    <3>2. pos - k + 1 \in starts
      BY <1>12, <3>1
    <3>3. pos - k + 1 <= s
      BY <2>2, <3>2
    <3> QED
      BY <1>1, <2>3, <3>1, <3>3
  <2> HIDE DEF f, starts, m
  <2>8. Ends(f, pos, m)
    BY <2>4, <2>6, <2>7 DEF Ends
  <2>9. ReverseCloseExpression(text, pos) = pos - m + 1
    BY <1>10, <1>16, <2>4 DEF s
  <2> QED
    BY <1>14, <2>4, <2>8, <2>9
<1> QED
  BY <1>15, <1>16

LEMMA EndsOnce ==
  ASSUME NEW f, NEW n \in Nat, NEW m \in Nat \ {0}, NEW l \in Nat, Ends(f, n, m), Ends(f, n, l)
  PROVE  l = m
<1>1. m \in 1 .. n /\ f[m].is = "complete" /\ \A k \in 1 .. m - 1 : f[k].is # "complete"
  BY DEF Ends
<1>2. l # 0
  BY <1>1 DEF Ends
<1>3. l \in 1 .. n /\ f[l].is = "complete" /\ \A k \in 1 .. l - 1 : f[k].is # "complete"
  BY <1>2 DEF Ends
<1> QED
  BY <1>1, <1>3

\* The end of what a bracket opens has that bracket as its beginning.
LEMMA BackFromEnd ==
  ASSUME NEW text \in Seq(STRING), NEW i \in 1 .. Len(text), text[i] \in Opening,
         CloseExpression(text, i) # 0
  PROVE  ReverseCloseExpression(text, CloseExpression(text, i)) = i
<1> DEFINE end == CloseExpression(text, i)
           n == Len(text) - i + 1
           t == Ahead(text, i)
           u == Behind(text, end)
<1>1. PICK f : \E m \in Nat : /\ Scanned(f, t, n, "<", Opening, Closing)
                              /\ Ends(f, n, m) /\ end = IF m = 0 THEN 0 ELSE i + m - 1
  BY CloseExpressionIs
<1>2. PICK m \in Nat : /\ Scanned(f, t, n, "<", Opening, Closing)
                       /\ Ends(f, n, m) /\ end = IF m = 0 THEN 0 ELSE i + m - 1
  BY <1>1
<1>3. Len(text) \in Nat /\ i \in Nat \ {0}
  BY LenProperties
<1>4. m # 0 /\ end = i + m - 1
  BY <1>2
<1>5. t[1] \in Opening
  BY <1>3 DEF Ahead
<1>6. m \in 2 .. n /\ \E p : Walk(p, t, m, Opening, Closing)
  BY <1>2, <1>4, <1>5, PartnerIs, ScanWalks
<1>7. t[m] \in Closing
  BY <1>6 DEF Walk
<1>8. end \in 1 .. Len(text) /\ text[end] \in Closing /\ m \in 1 .. end
  <2>1. end \in 1 .. Len(text) /\ m \in 1 .. n /\ m \in 1 .. end
    BY <1>3, <1>4, <1>6
  <2>2. t[m] = text[i + m - 1]
    BY <2>1 DEF Ahead
  <2> HIDE DEF end, t
  <2> QED
    BY <1>4, <1>7, <2>1, <2>2
<1>9. \A k \in 1 .. m : u[k] = t[m + 1 - k]
  <2> TAKE k \in 1 .. m
  <2>1. /\ end - k + 1 = i + (m + 1 - k) - 1 /\ k \in 1 .. end /\ m + 1 - k \in 1 .. n
    BY <1>3, <1>4, <1>6
  <2>2. u[k] = text[end - k + 1] /\ t[m + 1 - k] = text[i + (m + 1 - k) - 1]
    BY <2>1 DEF Ahead, Behind
  <2> QED
    BY <2>1, <2>2
<1> HIDE DEF end
<1>10. PICK g : \E l \in Nat : /\ Scanned(g, u, end, ">", Closing, Opening) /\ Ends(g, end, l)
                               /\ ReverseCloseExpression(text, end) = IF l = 0 THEN 0 ELSE end - l + 1
  BY <1>8, ReverseCloseExpressionIs
<1>11. PICK l \in Nat : /\ Scanned(g, u, end, ">", Closing, Opening) /\ Ends(g, end, l)
                        /\ ReverseCloseExpression(text, end) = IF l = 0 THEN 0 ELSE end - l + 1
  BY <1>10
<1> HIDE DEF u, t, n
<1>12. Ends(g, end, m)
  BY <1>2, <1>4, <1>5, <1>8, <1>9, <1>11, PartnerIs, ScansAgree
<1>13. l = m
  BY <1>3, <1>4, <1>8, <1>11, <1>12, EndsOnce
<1> QED
  BY <1>3, <1>4, <1>11, <1>13 DEF end

\* The beginning of what a bracket closes has that bracket as its end.
LEMMA OnFromStart ==
  ASSUME NEW text \in Seq(STRING), NEW i \in 1 .. Len(text), text[i] \in Closing,
         ReverseCloseExpression(text, i) # 0
  PROVE  CloseExpression(text, ReverseCloseExpression(text, i)) = i
<1> DEFINE start == ReverseCloseExpression(text, i)
           n == Len(text) - start + 1
           t == Behind(text, i)
           u == Ahead(text, start)
<1>1. PICK f : \E m \in Nat : /\ Scanned(f, t, i, ">", Closing, Opening)
                              /\ Ends(f, i, m) /\ start = IF m = 0 THEN 0 ELSE i - m + 1
  BY ReverseCloseExpressionIs
<1>2. PICK m \in Nat : /\ Scanned(f, t, i, ">", Closing, Opening)
                       /\ Ends(f, i, m) /\ start = IF m = 0 THEN 0 ELSE i - m + 1
  BY <1>1
<1>3. Len(text) \in Nat /\ i \in Nat \ {0} /\ i <= Len(text)
  BY LenProperties
<1>4. m # 0 /\ start = i - m + 1
  BY <1>2
<1>5. t[1] \in Closing
  BY <1>3 DEF Behind
<1>6. m \in 2 .. i /\ \E p : Walk(p, t, m, Closing, Opening)
  BY <1>2, <1>4, <1>5, PartnerIs, ScanWalks
<1>7. t[m] \in Opening
  BY <1>6 DEF Walk
<1>8. start \in 1 .. Len(text) /\ text[start] \in Opening /\ m \in 1 .. n
  <2>1. start \in 1 .. Len(text) /\ m \in 1 .. n /\ m \in 1 .. i
    BY <1>3, <1>4, <1>6
  <2>2. t[m] = text[i - m + 1]
    BY <2>1 DEF Behind
  <2> HIDE DEF start, t
  <2> QED
    BY <1>4, <1>7, <2>1, <2>2
<1>9. \A k \in 1 .. m : u[k] = t[m + 1 - k]
  <2> TAKE k \in 1 .. m
  <2>1. /\ start + k - 1 = i - (m + 1 - k) + 1 /\ k \in 1 .. n /\ m + 1 - k \in 1 .. i
    BY <1>3, <1>4, <1>6
  <2>2. u[k] = text[start + k - 1] /\ t[m + 1 - k] = text[i - (m + 1 - k) + 1]
    BY <2>1 DEF Ahead, Behind
  <2> QED
    BY <2>1, <2>2
<1> HIDE DEF start
<1>10. PICK g : \E l \in Nat : /\ Scanned(g, u, n, "<", Opening, Closing) /\ Ends(g, n, l)
                               /\ CloseExpression(text, start) = IF l = 0 THEN 0 ELSE start + l - 1
  BY <1>8, CloseExpressionIs
<1>11. PICK l \in Nat : /\ Scanned(g, u, n, "<", Opening, Closing) /\ Ends(g, n, l)
                        /\ CloseExpression(text, start) = IF l = 0 THEN 0 ELSE start + l - 1
  BY <1>10
<1>12. n \in Nat
  BY <1>3, <1>8
<1> HIDE DEF u, t, n
<1>13. Ends(g, n, m)
  <2>1. m \in Nat \ {0} /\ m \in 1 .. n /\ Ends(f, i, m)
    BY <1>2, <1>4, <1>8
  <2>2. Scanned(f, t, i, ">", Closing, Opening) /\ Scanned(g, u, n, "<", Opening, Closing)
    BY <1>2, <1>11
  <2> QED
    BY <1>5, <1>9, <2>1, <2>2, PartnerIs, ScansAgree
<1>14. l = m
  BY <1>4, <1>11, <1>12, <1>13, EndsOnce
<1> QED
  BY <1>3, <1>4, <1>11, <1>14 DEF start

-----------------------------------------------------------------------------
(* Sequences of tokens put together                                          *)

LEMMA One ==
  ASSUME NEW S, NEW x \in S
  PROVE  <<x>> \in Seq(S) /\ Len(<<x>>) = 1 /\ <<x>>[1] = x
OBVIOUS

LEMMA JoinIs ==
  ASSUME NEW a \in Line, NEW b \in Line
  PROVE  /\ a \o b \in Line /\ Len(a \o b) = Len(a) + Len(b)
         /\ Len(a) \in Nat /\ Len(b) \in Nat
         /\ \A i \in 1 .. Len(a) : (a \o b)[i] = a[i]
         /\ \A i \in 1 .. Len(b) : (a \o b)[Len(a) + i] = b[i]
BY DEF Line

LEMMA SplitAt ==
  ASSUME NEW rest \in Line, NEW n \in 0 .. Len(rest)
  PROVE  /\ SubSeq(rest, 1, n) \in Line /\ Len(SubSeq(rest, 1, n)) = n
         /\ \A i \in 1 .. n : SubSeq(rest, 1, n)[i] = rest[i]
         /\ rest = SubSeq(rest, 1, n) \o After(rest, n)
<1> DEFINE a == SubSeq(rest, 1, n)
           b == After(rest, n)
           m == Len(rest)
<1>1. a \in Line /\ Len(a) = n /\ \A i \in 1 .. n : a[i] = rest[i]
  BY DEF Line
<1>2. b \in Line /\ Len(b) = m - n /\ \A i \in 1 .. m - n : b[i] = rest[n + i]
  BY DEF Line, After
<1>3. m \in Nat /\ n \in 0 .. m
  BY LineLen
<1> HIDE DEF a, b, m
<1>4. /\ a \o b \in Line /\ Len(a \o b) = Len(a) + Len(b)
      /\ \A i \in 1 .. Len(a) : (a \o b)[i] = a[i]
      /\ \A i \in 1 .. Len(b) : (a \o b)[Len(a) + i] = b[i]
  BY <1>1, <1>2, JoinIs
<1>5. Len(a \o b) = m
  BY <1>1, <1>2, <1>3, <1>4
<1>6. ASSUME NEW i \in 1 .. m PROVE (a \o b)[i] = rest[i]
  <2>1. i \in 1 .. n \/ (i - n \in 1 .. m - n /\ n + (i - n) = i)
    BY <1>3
  <2>2. CASE i \in 1 .. n
    BY <1>1, <1>4, <2>2
  <2>3. CASE i - n \in 1 .. m - n /\ n + (i - n) = i
    BY <1>1, <1>2, <1>4, <2>3
  <2> QED
    BY <2>1, <2>2, <2>3
<1>7. rest = a \o b
  BY <1>4, <1>5, <1>6, SeqEqual DEF Line, m
<1> QED
  BY <1>1, <1>7 DEF a, b

LEMMA SplitBefore ==
  ASSUME NEW rest \in Line, NEW n \in 1 .. Len(rest)
  PROVE  /\ n - 1 \in 0 .. Len(rest) /\ n \in 0 .. Len(rest) /\ rest[n] \in STRING
         /\ SubSeq(rest, 1, n) = SubSeq(rest, 1, n - 1) \o <<rest[n]>>
<1> DEFINE a == SubSeq(rest, 1, n - 1)
           b == SubSeq(rest, 1, n)
           c == <<rest[n]>>
<1>1. n - 1 \in 0 .. Len(rest) /\ n \in 0 .. Len(rest) /\ rest[n] \in STRING
  BY DEF Line
<1>2. /\ a \in Line /\ Len(a) = n - 1 /\ \A i \in 1 .. n - 1 : a[i] = rest[i]
      /\ b \in Line /\ Len(b) = n /\ \A i \in 1 .. n : b[i] = rest[i]
  BY <1>1, SplitAt
<1>3. c \in Line /\ Len(c) = 1 /\ c[1] = rest[n]
  BY <1>1, One DEF Line
<1> HIDE DEF a, b, c
<1>4. /\ a \o c \in Line /\ Len(a \o c) = n
      /\ \A i \in 1 .. n - 1 : (a \o c)[i] = a[i]
      /\ (a \o c)[n] = c[1]
  <2>1. /\ a \o c \in Line /\ Len(a \o c) = (n - 1) + 1
        /\ \A i \in 1 .. n - 1 : (a \o c)[i] = a[i]
        /\ \A i \in 1 .. 1 : (a \o c)[(n - 1) + i] = c[i]
    <3>1. /\ a \o c \in Line /\ Len(a \o c) = Len(a) + Len(c)
          /\ \A i \in 1 .. Len(a) : (a \o c)[i] = a[i]
          /\ \A i \in 1 .. Len(c) : (a \o c)[Len(a) + i] = c[i]
      BY <1>2, <1>3, JoinIs
    <3> QED
      BY <1>2, <1>3, <3>1, Zenon
  <2>2. (n - 1) + 1 = n /\ 1 \in 1 .. 1
    OBVIOUS
  <2> QED
    BY <2>1, <2>2
<1>5. \A i \in 1 .. n : b[i] = (a \o c)[i]
  <2>1. \A i \in 1 .. n : i = n \/ i \in 1 .. n - 1
    OBVIOUS
  <2>2. n \in 1 .. n
    OBVIOUS
  <2> QED
    BY <1>2, <1>3, <1>4, <2>1, <2>2
<1>6. b = a \o c
  BY <1>2, <1>4, <1>5, SeqEqual DEF Line
<1> QED
  BY <1>1, <1>6 DEF a, b, c

LEMMA PlacesAre == ASSUME NEW text \in Line PROVE DOMAIN text = 1 .. Len(text)
BY DEF Line

LEMMA TabsAre ==
  ASSUME NEW text \in Line
  PROVE  \A i \in 1 .. IndentLevel(text) : text[i] = Tab
<1> DEFINE n == Len(text)
           tabs == {i \in 1 .. n : \A j \in 1 .. i : text[j] = Tab}
<1>1. n \in Nat /\ IndentLevel(text) = Cardinality(tabs)
  BY LineLen, PlacesAre DEF IndentLevel
<1>2. CASE tabs = {}
  <2>1. Cardinality(tabs) = 0
    BY <1>2, FS_EmptySet
  <2>2. 1 .. 0 = {}
    OBVIOUS
  <2> QED
    BY <1>1, <2>1, <2>2
<1>3. CASE tabs # {}
  <2> DEFINE m == Max(tabs)
  <2>1. tabs \in SUBSET Nat /\ \A i \in tabs : i <= n
    BY <1>1
  <2>2. m \in tabs /\ \A i \in tabs : i <= m
    <3> HIDE DEF tabs
    <3> QED
      BY <1>1, <1>3, <2>1, MaxOf
  <2> HIDE DEF m
  <2>3. m \in 1 .. n /\ \A j \in 1 .. m : text[j] = Tab
    BY <2>2
  <2>4. tabs = 1 .. m
    <3>1. ASSUME NEW i \in 1 .. m PROVE i \in tabs
      <4>1. i \in 1 .. n /\ \A j \in 1 .. i : j \in 1 .. m
        BY <1>1, <2>3
      <4> QED
        BY <2>3, <4>1
    <3>2. ASSUME NEW i \in tabs PROVE i \in 1 .. m
      BY <1>1, <2>2, <2>3
    <3> QED
      BY <3>1, <3>2
  <2>5. Cardinality(tabs) = m
    <3>1. 1 \in Int /\ m \in Int /\ m - 1 + 1 = m /\ 1 <= m
      BY <2>3
    <3>2. Cardinality(1 .. m) = m
      BY <3>1, FS_Interval
    <3> QED
      BY <2>4, <3>2, Zenon
  <2> QED
    BY <1>1, <2>3, <2>5
<1> QED
  BY <1>2, <1>3

LEMMA HeadAfter ==
  ASSUME NEW text \in Line, NEW n \in 0 .. Len(text), After(text, n) # <<>>
  PROVE  /\ n + 1 \in 1 .. Len(text)
         /\ Head(After(text, n)) = text[n + 1]
<1> DEFINE rest == After(text, n)
<1>1. Len(text) \in Nat
  BY LineLen
<1>2. /\ rest \in Line /\ Len(rest) = Len(text) - n
      /\ \A i \in 1 .. Len(text) - n : rest[i] = text[n + i]
  BY DEF Line, After
<1>3. rest # <<>>
  OBVIOUS
<1> HIDE DEF rest
<1>4. Len(rest) \in Nat \ {0} /\ Head(rest) = rest[1]
  BY <1>2, <1>3, EmptySeq DEF Line
<1>5. 1 \in 1 .. Len(text) - n /\ n + 1 \in 1 .. Len(text)
  BY <1>1, <1>2, <1>4
<1> QED
  BY <1>2, <1>4, <1>5 DEF rest

LEMMA FirstIs ==
  ASSUME NEW text \in Line, First(text) # ""
  PROVE  /\ IndentLevel(text) + 1 \in 1 .. Len(text)
         /\ First(text) = text[IndentLevel(text) + 1]
         /\ Strip(text) # <<>>
<1>1. Strip(text) # <<>> /\ First(text) = Head(Strip(text))
  BY DEF First
<1> QED
  BY <1>1, IndentLevelIs, HeadAfter, Zenon DEF Strip

-----------------------------------------------------------------------------
(* Reading token by token                                                    *)

\* What a machine is in after a text that it began in q.
Machine(move, S) == move \in [S \X STRING -> S]
Folded(move, text, q) ==
    LET f[i \in 0 .. Len(text)] == IF i = 0 THEN q ELSE move[<<f[i-1], text[i]>>]
    IN f[Len(text)]
Tracks(f, move, text, q) ==
    f[0] = q /\ \A i \in 1 .. Len(text) : f[i] = move[<<f[i-1], text[i]>>]

\* There is only one way to go on from q.
LEMMA FollowsOnce ==
  ASSUME NEW move, NEW text \in Line, NEW q, NEW f, NEW g,
         Tracks(f, move, text, q), Tracks(g, move, text, q)
  PROVE  \A i \in 0 .. Len(text) : f[i] = g[i]
<1> DEFINE n == Len(text)
           P == {i \in 0 .. n : f[i] = g[i]}
<1>1. n \in Nat
  BY LineLen
<1>2. 0 \in P
  BY <1>1 DEF Tracks
<1>3. ASSUME NEW i \in 1 .. n, i - 1 \in P PROVE i \in P
  <2>1. f[i] = move[<<f[i-1], text[i]>>] /\ g[i] = move[<<g[i-1], text[i]>>]
    BY DEF Tracks
  <2>2. i \in 0 .. n /\ f[i-1] = g[i-1]
    BY <1>1, <1>3
  <2> QED
    BY <2>1, <2>2
<1> HIDE DEF P, n
<1>4. 0 .. n \subseteq P
  BY <1>1, <1>2, <1>3, CountInduction
<1> QED
  BY <1>4 DEF P, n

LEMMA FoldSteps ==
  ASSUME NEW S, NEW move, Machine(move, S), NEW q \in S, NEW text \in Line
  PROVE  \E f \in [0 .. Len(text) -> S] :
           Tracks(f, move, text, q) /\ Folded(move, text, q) = f[Len(text)]
<1> DEFINE n == Len(text)
           Solves(f) == f = [i \in 0 .. n |-> IF i = 0 THEN q ELSE move[<<f[i-1], text[i]>>]]
           N == 0 .. n
           step == [p \in N \X S |-> IF p[1] = 0 THEN q ELSE move[<<p[2], text[p[1]]>>]]
<1>1. n \in Nat /\ \A i \in 1 .. n : text[i] \in STRING
  BY LineLen DEF Line
<1>2. step \in [N \X S -> S]
  <2>1. \A i \in N, s \in S : i # 0 => move[<<s, text[i]>>] \in S
    <3>1. \A i \in N : i # 0 => i \in 1 .. n
      BY <1>1
    <3> QED
      BY <1>1, <3>1 DEF Machine
  <2> QED
    BY <2>1
<1>3. \A i \in N, s \in S : i # 0 => step[<<i, s>>] = move[<<s, text[i]>>]
  OBVIOUS
<1> HIDE DEF step, n, N
<1>4. PICK f \in [0 .. n -> S] : Steps(f, n, q, step)
  BY <1>1, <1>2, Counting DEF N
<1>5. \A i \in 1 .. n : i \in N /\ i \in 0 .. n /\ i - 1 \in 0 .. n /\ i # 0
  BY <1>1 DEF N
<1>6. f[0] = q /\ \A i \in 1 .. n : f[i] = move[<<f[i-1], text[i]>>]
  <2>1. 0 \in 0 .. n
    BY <1>1
  <2>2. f[0] = q
    BY <1>4, <2>1 DEF Steps
  <2>3. ASSUME NEW i \in 1 .. n PROVE f[i] = move[<<f[i-1], text[i]>>]
    <3>1. f[i] = step[<<i, f[i-1]>>] /\ f[i-1] \in S
      BY <1>4, <1>5 DEF Steps
    <3> QED
      BY <1>3, <1>5, <3>1
  <2> QED
    BY <2>2, <2>3
<1> DEFINE g == CHOOSE h : Solves(h)
<1>7. Solves(g)
  <2>1. \A i \in 0 .. n : f[i] = IF i = 0 THEN q ELSE move[<<f[i-1], text[i]>>]
    <3>1. \A i \in 0 .. n : i = 0 \/ i \in 1 .. n
      BY <1>1
    <3> QED
      BY <1>6, <3>1
  <2>2. Solves(f)
    BY <2>1
  <2> HIDE DEF Solves
  <2> QED
    BY <2>2
<1>8. Folded(move, text, q) = g[n]
  BY DEF Folded, g, n
<1> HIDE DEF g
<1>9. \A i \in 0 .. n : g[i] = IF i = 0 THEN q ELSE move[<<g[i-1], text[i]>>]
  BY <1>7
<1>10. Tracks(g, move, text, q)
  <2>1. 0 \in 0 .. n
    BY <1>1
  <2> QED
    BY <1>5, <1>9, <2>1 DEF Tracks, n
<1>11. Tracks(f, move, text, q)
  BY <1>6 DEF Tracks, n
<1>12. f[n] = g[n]
  <2>1. n \in 0 .. n
    BY <1>1
  <2> QED
    BY <1>10, <1>11, <2>1, FollowsOnce DEF n
<1> QED
  BY <1>8, <1>11, <1>12 DEF n

LEMMA FoldIs ==
  ASSUME NEW S, NEW move, Machine(move, S), NEW q \in S, NEW text \in Line,
         NEW g, Tracks(g, move, text, q)
  PROVE  Folded(move, text, q) = g[Len(text)]
<1>1. PICK f \in [0 .. Len(text) -> S] :
        Tracks(f, move, text, q) /\ Folded(move, text, q) = f[Len(text)]
  BY FoldSteps
<1>2. Len(text) \in 0 .. Len(text)
  BY LineLen
<1> QED
  BY <1>1, <1>2, FollowsOnce

LEMMA FoldType ==
  ASSUME NEW S, NEW move, Machine(move, S), NEW q \in S, NEW text \in Line
  PROVE  Folded(move, text, q) \in S
<1>1. Len(text) \in 0 .. Len(text)
  BY LineLen
<1> QED
  BY <1>1, FoldSteps

LEMMA FoldEmpty ==
  ASSUME NEW S, NEW move, Machine(move, S), NEW q \in S
  PROVE  Folded(move, <<>>, q) = q
<1>1. <<>> \in Line /\ Len(<<>>) = 0
  BY DEF Line
<1>2. Tracks([i \in {0} |-> q], move, <<>>, q)
  BY <1>1 DEF Tracks
<1> QED
  BY <1>1, <1>2, FoldIs

LEMMA FoldOne ==
  ASSUME NEW S, NEW move, Machine(move, S), NEW q \in S, NEW token \in STRING
  PROVE  Folded(move, <<token>>, q) = move[<<q, token>>]
<1>1. <<token>> \in Line /\ Len(<<token>>) = 1 /\ <<token>>[1] = token
  BY One DEF Line
<1> DEFINE text == <<token>>
           g == [i \in 0 .. 1 |-> IF i = 0 THEN q ELSE move[<<q, token>>]]
<1>2. g[0] = q /\ g[1] = move[<<q, token>>]
  OBVIOUS
<1> HIDE DEF text, g
<1>3. text \in Line /\ Len(text) = 1 /\ text[1] = token
  BY <1>1 DEF text
<1>4. \A i \in 1 .. 1 : i = 1 /\ i - 1 = 0
  OBVIOUS
<1>5. Tracks(g, move, text, q)
  BY <1>2, <1>3, <1>4 DEF Tracks
<1>6. Folded(move, text, q) = g[1]
  <2>1. text \in Line
    BY <1>3
  <2>2. Folded(move, text, q) = g[Len(text)]
    BY <1>5, <2>1, FoldIs
  <2> QED
    BY <1>3, <2>2
<1> QED
  BY <1>2, <1>6 DEF text

LEMMA FoldJoined ==
  ASSUME NEW S, NEW move, Machine(move, S), NEW q \in S, NEW a \in Line, NEW b \in Line
  PROVE  Folded(move, a \o b, q) = Folded(move, b, Folded(move, a, q))
<1> DEFINE c == a \o b
           m == Len(a)
           n == Len(b)
           r == Folded(move, a, q)
<1>1. /\ m \in Nat /\ n \in Nat /\ c \in Line /\ Len(c) = m + n
      /\ \A i \in 1 .. m : c[i] = a[i]
      /\ \A i \in 1 .. n : c[m + i] = b[i]
  BY LineLen, JoinIs
<1>2. PICK f : Tracks(f, move, a, q) /\ r = f[m]
  BY FoldSteps
<1>3. r \in S
  BY FoldType
<1>4. PICK g : Tracks(g, move, b, r) /\ Folded(move, b, r) = g[n]
  BY <1>3, FoldSteps
<1> DEFINE h == [i \in 0 .. m + n |-> IF i <= m THEN f[i] ELSE g[i - m]]
<1> HIDE DEF c, m, n, r
<1>5. h[0] = q
  BY <1>1, <1>2 DEF Tracks
<1>6. ASSUME NEW i \in 1 .. m + n PROVE h[i] = move[<<h[i-1], c[i]>>]
  <2>1. CASE i <= m
    <3>1. i \in 1 .. m /\ i \in 0 .. m + n /\ i - 1 \in 0 .. m + n /\ i - 1 <= m
      BY <1>1, <2>1
    <3>2. h[i] = f[i] /\ h[i-1] = f[i-1] /\ c[i] = a[i]
      BY <1>1, <3>1
    <3> QED
      BY <1>2, <3>1, <3>2 DEF Tracks, m
  <2>2. CASE i > m
    <3>1. PICK k \in 1 .. n : i = m + k
      <4>1. i - m \in 1 .. n /\ i = m + (i - m)
        BY <1>1, <2>2
      <4> QED
        BY <4>1
    <3>2. g[k] = move[<<g[k-1], b[k]>>]
      BY <1>4 DEF Tracks, n
    <3>3. i \in 0 .. m + n /\ i - 1 \in 0 .. m + n /\ ~(i <= m) /\ i - m = k
      BY <1>1, <2>2, <3>1
    <3>4. h[i] = g[k] /\ c[i] = b[k]
      BY <1>1, <3>1, <3>3
    <3>5. h[i-1] = g[k-1]
      <4>1. CASE k = 1
        <5>1. i - 1 = m /\ k - 1 = 0 /\ m <= m
          BY <1>1, <3>1, <4>1
        <5>2. g[0] = f[m]
          BY <1>2, <1>4 DEF Tracks
        <5> QED
          BY <3>3, <5>1, <5>2
      <4>2. CASE k # 1
        <5>1. ~(i - 1 <= m) /\ (i - 1) - m = k - 1
          BY <1>1, <3>1, <4>2
        <5> QED
          BY <3>3, <5>1
      <4> QED
        BY <4>1, <4>2
    <3> QED
      BY <3>2, <3>4, <3>5
  <2>3. i <= m \/ i > m
    BY <1>1
  <2> QED
    BY <2>1, <2>2, <2>3
<1>7. h[m + n] = g[n]
  <2>1. CASE n = 0
    <3>1. m + n = m /\ m \in 0 .. m + n /\ m <= m
      BY <1>1, <2>1
    <3>2. g[0] = f[m]
      BY <1>2, <1>4 DEF Tracks
    <3> QED
      BY <2>1, <3>1, <3>2
  <2>2. CASE n # 0
    <3>1. m + n \in 0 .. m + n /\ ~(m + n <= m) /\ (m + n) - m = n
      BY <1>1, <2>2
    <3> QED
      BY <3>1
  <2> QED
    BY <2>1, <2>2
<1> HIDE DEF h
<1>8. Tracks(h, move, c, q)
  BY <1>1, <1>5, <1>6 DEF Tracks
<1>9. Folded(move, c, q) = h[m + n]
  BY <1>1, <1>8, FoldIs
<1> QED
  BY <1>4, <1>7, <1>9 DEF c, r

\* Something that holds of two machines that read the same text, and of how far
\* they are.
Together(S, move, T, other, text, R) ==
    \A i \in 1 .. Len(text), s \in S, t \in T :
      <<i - 1, s, t>> \in R => <<i, move[<<s, text[i]>>], other[<<t, text[i]>>]>> \in R

LEMMA FoldBoth ==
  ASSUME NEW S, NEW move, Machine(move, S), NEW q \in S,
         NEW T, NEW other, Machine(other, T), NEW r \in T,
         NEW R, <<0, q, r>> \in R, NEW text \in Line, Together(S, move, T, other, text, R)
  PROVE  <<Len(text), Folded(move, text, q), Folded(other, text, r)>> \in R
<1> DEFINE n == Len(text)
<1>1. PICK f \in [0 .. n -> S] : Tracks(f, move, text, q) /\ Folded(move, text, q) = f[n]
  BY FoldSteps
<1>2. PICK g \in [0 .. n -> T] : Tracks(g, other, text, r) /\ Folded(other, text, r) = g[n]
  BY FoldSteps
<1> DEFINE P == {i \in 0 .. n : <<i, f[i], g[i]>> \in R}
<1>3. n \in Nat
  BY LineLen
<1>4. 0 \in P
  BY <1>1, <1>2, <1>3 DEF Tracks
<1>5. ASSUME NEW i \in 1 .. n, i - 1 \in P PROVE i \in P
  <2>1. i \in 0 .. n /\ i - 1 \in 0 .. n
    BY <1>3
  <2>2. f[i-1] \in S /\ g[i-1] \in T /\ <<i - 1, f[i-1], g[i-1]>> \in R
    BY <1>5, <2>1
  <2>3. f[i] = move[<<f[i-1], text[i]>>] /\ g[i] = other[<<g[i-1], text[i]>>]
    BY <1>1, <1>2 DEF Tracks
  <2>4. <<i, move[<<f[i-1], text[i]>>], other[<<g[i-1], text[i]>>]>> \in R
    BY <2>2 DEF Together
  <2> QED
    BY <2>1, <2>3, <2>4
<1> HIDE DEF P, n
<1>6. 0 .. n \subseteq P
  BY <1>3, <1>4, <1>5, CountInduction
<1>7. n \in 0 .. n
  BY <1>3
<1> QED
  BY <1>1, <1>2, <1>6, <1>7 DEF P, n

\* Something that holds of the machine and of how far it is.
LEMMA FoldInduction ==
  ASSUME NEW S, NEW move, Machine(move, S), NEW q \in S, NEW text \in Line,
         NEW P, <<0, q>> \in P,
         \A i \in 1 .. Len(text), s \in S :
           <<i - 1, s>> \in P => <<i, move[<<s, text[i]>>]>> \in P
  PROVE  <<Len(text), Folded(move, text, q)>> \in P
<1> DEFINE n == Len(text)
<1>1. PICK f \in [0 .. n -> S] : Tracks(f, move, text, q) /\ Folded(move, text, q) = f[n]
  BY FoldSteps
<1> DEFINE I == {i \in 0 .. n : <<i, f[i]>> \in P}
<1>2. n \in Nat
  BY LineLen
<1>3. 0 \in I
  BY <1>1, <1>2 DEF Tracks
<1>4. ASSUME NEW i \in 1 .. n, i - 1 \in I PROVE i \in I
  <2>1. i \in 0 .. n /\ i - 1 \in 0 .. n
    BY <1>2
  <2>2. f[i-1] \in S /\ <<i - 1, f[i-1]>> \in P
    BY <1>4, <2>1
  <2>3. f[i] = move[<<f[i-1], text[i]>>]
    BY <1>1 DEF Tracks
  <2>4. <<i, move[<<f[i-1], text[i]>>]>> \in P
    BY <2>2
  <2> QED
    BY <2>1, <2>3, <2>4
<1> HIDE DEF I, n
<1>5. 0 .. n \subseteq I
  BY <1>2, <1>3, <1>4, CountInduction
<1>6. n \in 0 .. n
  BY <1>2
<1> QED
  BY <1>1, <1>5, <1>6 DEF I, n

\* One machine stays in a set.
LEMMA FoldStays ==
  ASSUME NEW S, NEW move, Machine(move, S), NEW q \in S,
         NEW R, q \in R, NEW text \in Line,
         \A i \in 1 .. Len(text), s \in S : s \in R => move[<<s, text[i]>>] \in R
  PROVE  Folded(move, text, q) \in R
<1> DEFINE P == {p \in Nat \X S : p[2] \in R}
<1>1. <<0, q>> \in P
  OBVIOUS
<1>2. ASSUME NEW i \in 1 .. Len(text), NEW s \in S, <<i - 1, s>> \in P
      PROVE  <<i, move[<<s, text[i]>>]>> \in P
  <2>1. text[i] \in STRING /\ i \in Nat
    BY DEF Line
  <2>2. move[<<s, text[i]>>] \in S
    BY <2>1 DEF Machine
  <2> QED
    BY <1>2, <2>1, <2>2
<1> HIDE DEF P
<1>3. <<Len(text), Folded(move, text, q)>> \in P
  BY <1>1, <1>2, FoldInduction
<1> QED
  BY <1>3 DEF P

-----------------------------------------------------------------------------
(* The reader of C++                                                         *)

ReaderModes == {"code", "string", "line", "comment", "quoted", "raw", "block", "after", "odd"}
Readers == [mode : ReaderModes, last : {"", "R", ")", "opening"},
           names : BOOLEAN, braces : Line]
Reads == [p \in Readers \X STRING |-> ReadToken(p[1], p[2])]

LEMMA ModeType ==
  ASSUME NEW q \in Readers, NEW token
  PROVE  ModeAfter(q, token) \in ReaderModes
BY DEF ModeAfter, ReaderModes, Readers

LEMMA ReadIs ==
  /\ Machine(Reads, Readers)
  /\ \A q \in Readers, token \in STRING : Reads[<<q, token>>] = ReadToken(q, token)
<1>1. ASSUME NEW q \in Readers, NEW token \in STRING PROVE ReadToken(q, token) \in Readers
  <2>1. ModeAfter(q, token) \in ReaderModes
    BY ModeType
  <2>2. LastAfter(q, token) \in {"", "R", ")", "opening"}
    BY DEF LastAfter
  <2>3. q.braces \in Line /\ Append(q.braces, token) \in Line /\ q.names \in BOOLEAN
    <3>1. q.braces \in Line /\ q.names \in BOOLEAN
      BY DEF Readers
    <3>2. ASSUME NEW s \in Line PROVE Append(s, token) \in Line
      BY AppendProperties DEF Line
    <3> QED
      BY <3>1, <3>2
  <2>4. (q.names \/ (q.mode = "code" /\ token = "#include")) \in BOOLEAN
    BY <2>3
  <2> QED
    BY <2>1, <2>2, <2>3, <2>4, Zenon DEF ReadToken, Readers
<1> QED
  BY <1>1 DEF Machine, Reads

LEMMA ReadAt ==
  ASSUME NEW q \in Readers, NEW token \in STRING
  PROVE  ReadToken(q, token) \in Readers /\ Reads[<<q, token>>] = ReadToken(q, token)
BY ReadIs DEF Machine

\* What a token does in code.
LEMMA InCode ==
  ASSUME NEW q, q.mode = "code", NEW token, token = "(" => q.last # "opening"
  PROVE  ModeAfter(q, token) =
           IF token = Quote THEN "string" ELSE IF token = "//" THEN "line"
           ELSE IF token = "/*" THEN "comment" ELSE IF token = "*/" THEN "odd" ELSE "code"
BY DEF ModeAfter, Quote

-----------------------------------------------------------------------------
(* Where marks are                                                           *)

LEMMA OccursAt ==
  ASSUME NEW line \in Line, NEW tokens \in Line, Len(tokens) > 0, NEW i
  PROVE  i \in Occurs(tokens, line) <=>
           /\ i \in 1 .. Len(line) /\ i + Len(tokens) - 1 <= Len(line)
           /\ \A k \in 1 .. Len(tokens) : line[i + k - 1] = tokens[k]
<1> DEFINE m == Len(line)
           n == Len(tokens)
           rest == SubSeq(line, i, m)
<1>1. m \in Nat /\ n \in Nat \ {0} /\ DOMAIN line = 1 .. m
  BY LineLen DEF Line
<1>2. i \in Occurs(tokens, line) <=> i \in 1 .. m /\ IsPrefix(tokens, rest)
  BY <1>1 DEF Occurs
<1>3. ASSUME i \in 1 .. m
      PROVE  /\ rest \in Line /\ Len(rest) = m - i + 1
             /\ \A k \in 1 .. m - i + 1 : rest[k] = line[i + k - 1]
  BY <1>1, <1>3 DEF Line
<1> HIDE DEF rest, m, n
<1>4. ASSUME i \in 1 .. m
      PROVE  IsPrefix(tokens, rest) <=>
               i + n - 1 <= m /\ \A k \in 1 .. n : line[i + k - 1] = tokens[k]
  <2>1. n <= Len(rest) <=> i + n - 1 <= m
    BY <1>1, <1>3, <1>4
  <2>2. ASSUME n <= Len(rest)
        PROVE  SubSeq(tokens, 1, n) = SubSeq(rest, 1, n)
                 <=> \A k \in 1 .. n : rest[k] = tokens[k]
    <3> DEFINE a == SubSeq(tokens, 1, n)
               b == SubSeq(rest, 1, n)
    <3>1. n \in 0 .. Len(tokens) /\ n \in 0 .. Len(rest)
      BY <1>1, <2>2, <1>3, <1>4 DEF n
    <3>2. /\ a \in Line /\ Len(a) = n /\ \A k \in 1 .. n : a[k] = tokens[k]
          /\ b \in Line /\ Len(b) = n /\ \A k \in 1 .. n : b[k] = rest[k]
      BY <1>3, <1>4, <3>1, SplitAt
    <3> HIDE DEF a, b
    <3>3. a = b <=> \A k \in 1 .. n : a[k] = b[k]
      BY <3>2, SeqEqual DEF Line
    <3>4. (\A k \in 1 .. n : a[k] = b[k]) <=> \A k \in 1 .. n : rest[k] = tokens[k]
      BY <3>2
    <3> QED
      BY <3>3, <3>4 DEF a, b
  <2>3. ASSUME n <= Len(rest) PROVE \A k \in 1 .. n : rest[k] = line[i + k - 1]
    BY <1>1, <1>3, <1>4, <2>3
  <2>4. ASSUME n <= Len(rest)
        PROVE  (\A k \in 1 .. n : rest[k] = tokens[k])
                 <=> \A k \in 1 .. n : line[i + k - 1] = tokens[k]
    BY <2>3, <2>4
  <2> QED
    BY <2>1, <2>2, <2>4 DEF IsPrefix, n
<1> QED
  BY <1>2, <1>4 DEF m, n

LEMMA OpenersAre ==
  ASSUME NEW line \in Line, NEW i
  PROVE  i \in RawOpeners(line) <=>
           /\ i \in 1 .. Len(line) - 2
           /\ line[i] = "R" /\ line[i+1] = Quote /\ line[i+2] = "("
<1> DEFINE opener == <<"R", Quote, "(">>
<1>1. opener \in Line /\ Len(opener) = 3 /\ Len(line) \in Nat
  BY TokensAssumption, Three, LineLen DEF Line
<1>2. opener[1] = "R" /\ opener[2] = Quote /\ opener[3] = "("
  OBVIOUS
<1>3. RawOpeners(line) = Occurs(opener, line)
  BY DEF RawOpeners
<1> HIDE DEF opener
<1>4. i \in Occurs(opener, line) <=>
        /\ i \in 1 .. Len(line) /\ i + 3 - 1 <= Len(line)
        /\ \A k \in 1 .. 3 : line[i + k - 1] = opener[k]
  <2>1. Len(opener) > 0
    BY <1>1
  <2>2. opener \in Line
    BY <1>1
  <2>3. i \in Occurs(opener, line) <=>
          /\ i \in 1 .. Len(line) /\ i + Len(opener) - 1 <= Len(line)
          /\ \A k \in 1 .. Len(opener) : line[i + k - 1] = opener[k]
    BY <2>1, <2>2, OccursAt
  <2>4. Len(opener) = 3
    BY <1>1
  <2> QED
    BY <2>3, <2>4, Zenon
<1>5. ASSUME i \in 1 .. Len(line)
      PROVE  (\A k \in 1 .. 3 : line[i + k - 1] = opener[k]) <=>
               line[i] = opener[1] /\ line[i+1] = opener[2] /\ line[i+2] = opener[3]
  <2>1. \A k \in 1 .. 3 : k = 1 \/ k = 2 \/ k = 3
    OBVIOUS
  <2>2. i + 1 - 1 = i /\ i + 2 - 1 = i + 1 /\ i + 3 - 1 = i + 2
    BY <1>5
  <2>3. 1 \in 1 .. 3 /\ 2 \in 1 .. 3 /\ 3 \in 1 .. 3
    OBVIOUS
  <2> QED
    BY <2>1, <2>2, <2>3, Zenon
<1>6. i \in 1 .. Len(line) - 2 <=> i \in 1 .. Len(line) /\ i + 3 - 1 <= Len(line)
  BY <1>1
<1> QED
  BY <1>2, <1>3, <1>4, <1>5, <1>6, Zenon

LEMMA ClosersAre ==
  ASSUME NEW line \in Line, NEW i
  PROVE  i \in RawClosers(line) <=>
           i \in 1 .. Len(line) - 1 /\ line[i] = ")" /\ line[i+1] = Quote
<1> DEFINE closer == <<")", Quote>>
<1>1. closer \in Line /\ Len(closer) = 2 /\ Len(line) \in Nat
  BY TokensAssumption, Two, LineLen DEF Line
<1>2. closer[1] = ")" /\ closer[2] = Quote
  OBVIOUS
<1>3. RawClosers(line) = Occurs(closer, line)
  BY DEF RawClosers
<1> HIDE DEF closer
<1>4. i \in Occurs(closer, line) <=>
        /\ i \in 1 .. Len(line) /\ i + 2 - 1 <= Len(line)
        /\ \A k \in 1 .. 2 : line[i + k - 1] = closer[k]
  <2>1. Len(closer) > 0
    BY <1>1
  <2>2. closer \in Line
    BY <1>1
  <2>3. i \in Occurs(closer, line) <=>
          /\ i \in 1 .. Len(line) /\ i + Len(closer) - 1 <= Len(line)
          /\ \A k \in 1 .. Len(closer) : line[i + k - 1] = closer[k]
    BY <2>1, <2>2, OccursAt
  <2>4. Len(closer) = 2
    BY <1>1
  <2> QED
    BY <2>3, <2>4, Zenon
<1>5. ASSUME i \in 1 .. Len(line)
      PROVE  (\A k \in 1 .. 2 : line[i + k - 1] = closer[k]) <=>
               line[i] = closer[1] /\ line[i+1] = closer[2]
  <2>1. \A k \in 1 .. 2 : k = 1 \/ k = 2
    OBVIOUS
  <2>2. i + 1 - 1 = i /\ i + 2 - 1 = i + 1
    BY <1>5
  <2>3. 1 \in 1 .. 2 /\ 2 \in 1 .. 2
    OBVIOUS
  <2> QED
    BY <2>1, <2>2, <2>3, Zenon
<1>6. i \in 1 .. Len(line) - 1 <=> i \in 1 .. Len(line) /\ i + 2 - 1 <= Len(line)
  BY <1>1
<1> QED
  BY <1>2, <1>3, <1>4, <1>5, <1>6, Zenon

-----------------------------------------------------------------------------
(* What the reader makes of raw strings                                      *)

ReadOn(text, q) == Folded(Reads, text, q)
At(q, mode) == [mode |-> mode, last |-> "", names |-> q.names, braces |-> q.braces]
RawBegin == <<"R", Quote, "(">>
RawFinish == <<")", Quote>>

LEMMA ReadType ==
  ASSUME NEW q \in Readers, NEW text \in Line PROVE ReadOn(text, q) \in Readers
BY ReadIs, FoldType DEF ReadOn

LEMMA ReadJoined ==
  ASSUME NEW q \in Readers, NEW a \in Line, NEW b \in Line
  PROVE  ReadOn(a \o b, q) = ReadOn(b, ReadOn(a, q))
BY ReadIs, FoldJoined DEF ReadOn

LEMMA ReadOne ==
  ASSUME NEW q \in Readers, NEW token \in STRING
  PROVE  ReadOn(<<token>>, q) = ReadToken(q, token)
<1>1. ReadOn(<<token>>, q) = Reads[<<q, token>>]
  BY ReadIs, FoldOne DEF ReadOn
<1> QED
  BY <1>1, ReadIs

LEMMA ReadEmpty == ASSUME NEW q \in Readers PROVE ReadOn(<<>>, q) = q
BY ReadIs, FoldEmpty DEF ReadOn

LEMMA AtType ==
  ASSUME NEW q \in Readers, NEW mode \in ReaderModes
  PROVE  /\ At(q, mode) \in Readers /\ At(q, mode).mode = mode /\ At(q, mode).last = ""
         /\ At(q, mode).names = q.names /\ At(q, mode).braces = q.braces
BY DEF At, Readers

LEMMA OddAfter ==
  ASSUME NEW q \in Readers, q.mode = "odd", NEW token
  PROVE  ModeAfter(q, token) = "odd"
BY DEF ModeAfter

LEMMA OddStays ==
  ASSUME NEW q \in Readers, q.mode = "odd", NEW text \in Line
  PROVE  ReadOn(text, q).mode = "odd"
<1> DEFINE R == {s \in Readers : s.mode = "odd"}
<1>1. ASSUME NEW s \in Readers, s \in R, NEW token \in STRING PROVE Reads[<<s, token>>] \in R
  <2>1. Reads[<<s, token>>] = ReadToken(s, token) /\ Reads[<<s, token>>] \in Readers
    BY ReadIs DEF Machine
  <2>2. ReadToken(s, token).mode = "odd"
    BY <1>1, OddAfter DEF ReadToken
  <2> QED
    BY <2>1, <2>2
<1>2. \A i \in 1 .. Len(text) : text[i] \in STRING
  BY DEF Line
<1>3. q \in R /\ \A s \in R : s.mode = "odd"
  OBVIOUS
<1> HIDE DEF R
<1>4. \A i \in 1 .. Len(text), s \in Readers : s \in R => Reads[<<s, text[i]>>] \in R
  BY <1>1, <1>2
<1> QED
  BY <1>3, <1>4, ReadIs, FoldStays DEF ReadOn

\* A text that is not odd in the end was not before.
LEMMA NotOdd ==
  ASSUME NEW q \in Readers, NEW a \in Line, NEW b \in Line, ReadOn(a \o b, q).mode # "odd"
  PROVE  q.mode # "odd" /\ ReadOn(a, q).mode # "odd"
<1>1. ReadOn(a \o b, q) = ReadOn(b, ReadOn(a, q)) /\ ReadOn(a, q) \in Readers
  BY ReadJoined, ReadType
<1> QED
  BY <1>1, OddStays

LEMMA TokensAre ==
  /\ "R" \in STRING /\ Quote \in STRING /\ "(" \in STRING /\ ")" \in STRING
  /\ "/*" \in STRING /\ "*/" \in STRING /\ "//" \in STRING
BY TokensAssumption

LEMMA RawBeginIs ==
  /\ RawBegin \in Line /\ RawBegin = <<"R">> \o <<Quote>> \o <<"(">>
  /\ RawFinish \in Line /\ RawFinish = <<")">> \o <<Quote>>
  /\ EmptyString = <<Quote>> \o <<Quote>>
<1>1. RawBegin \in Line /\ RawFinish \in Line
  BY TokensAre, Two, Three DEF RawBegin, RawFinish, Line
<1> QED
  BY <1>1 DEF RawBegin, RawFinish, EmptyString

\* Three tokens, one after the other.
LEMMA ReadThree ==
  ASSUME NEW q \in Readers, NEW a \in STRING, NEW b \in STRING, NEW c \in STRING
  PROVE  /\ ReadToken(q, a) \in Readers /\ ReadToken(ReadToken(q, a), b) \in Readers
         /\ ReadOn(<<a>> \o <<b>>, q) = ReadToken(ReadToken(q, a), b)
         /\ ReadOn(<<a>> \o <<b>> \o <<c>>, q) = ReadToken(ReadToken(ReadToken(q, a), b), c)
<1>1. /\ <<a>> \in Line /\ <<b>> \in Line /\ <<c>> \in Line /\ <<a>> \o <<b>> \in Line
  BY One, Joined DEF Line
<1>2. ReadOn(<<a>>, q) = ReadToken(q, a) /\ ReadToken(q, a) \in Readers
  BY <1>1, ReadOne, ReadType
<1>3. ReadOn(<<a>> \o <<b>>, q) = ReadToken(ReadToken(q, a), b)
  <2>1. ReadOn(<<a>> \o <<b>>, q) = ReadOn(<<b>>, ReadOn(<<a>>, q))
    BY <1>1, ReadJoined
  <2>2. ReadOn(<<b>>, ReadToken(q, a)) = ReadToken(ReadToken(q, a), b)
    BY <1>2, ReadOne
  <2> QED
    BY <1>2, <2>1, <2>2
<1>4. ReadToken(ReadToken(q, a), b) \in Readers
  BY <1>1, <1>3, ReadType
<1>5. ReadOn(<<a>> \o <<b>> \o <<c>>, q) = ReadToken(ReadToken(ReadToken(q, a), b), c)
  <2>1. ReadOn(<<a>> \o <<b>> \o <<c>>, q) = ReadOn(<<c>>, ReadOn(<<a>> \o <<b>>, q))
    BY <1>1, ReadJoined
  <2>2. ReadOn(<<c>>, ReadToken(ReadToken(q, a), b)) = ReadToken(ReadToken(ReadToken(q, a), b), c)
    BY <1>4, ReadOne
  <2> QED
    BY <1>3, <2>1, <2>2
<1> QED
  BY <1>2, <1>3, <1>4, <1>5

LEMMA BeginRead ==
  ASSUME NEW q \in Readers, q.mode \notin {"block", "after"}
  PROVE  /\ q.mode = "code" => ReadOn(RawBegin, q) = At(q, "raw")
         /\ q.mode # "code" => ReadOn(RawBegin, q).mode = "odd"
<1> DEFINE q1 == ReadToken(q, "R")
           q2 == ReadToken(q1, Quote)
<1>1. ReadOn(RawBegin, q) = ReadToken(q2, "(") /\ q1 \in Readers /\ q2 \in Readers
  BY ReadThree, RawBeginIs, TokensAre
<1>3. q1.mode = q.mode /\ q1.last = "R" /\ q1.names = q.names /\ q1.braces = q.braces
  <2>1. ModeAfter(q, "R") = q.mode
    BY DEF ModeAfter, Quote, Kept, IsBrace
  <2> QED
    BY <2>1 DEF ReadToken, LastAfter, IsBrace, Readers, Quote
<1> HIDE DEF q1
<1>4. q2.last = "opening" /\ q2.names = q.names /\ q2.braces = q.braces
  BY <1>1, <1>3 DEF ReadToken, LastAfter, IsBrace, Quote, Readers
<1>5. q2.mode = "string" <=> q.mode = "code"
  <2>1. q2.mode = ModeAfter(q1, Quote)
    BY DEF ReadToken
  <2> QED
    BY <1>3, <2>1 DEF ModeAfter, Quote, Kept, IsBrace
<1>6. q2.mode # "block"
  <2>1. q2.mode = ModeAfter(q1, Quote)
    BY DEF ReadToken
  <2> QED
    BY <1>3, <2>1 DEF ModeAfter, Quote, Kept, IsBrace
<1> HIDE DEF q2
<1>7. CASE q.mode = "code"
  <2>1. ModeAfter(q2, "(") = "raw"
    BY <1>4, <1>5, <1>7 DEF ModeAfter, Quote, Kept, IsBrace
  <2>2. ReadToken(q2, "(") = At(q, "raw")
    BY <1>4, <2>1, <1>5, <1>7 DEF ReadToken, At, LastAfter, IsBrace, Quote, Readers
  <2> QED
    BY <1>1, <1>7, <2>2
<1>8. CASE q.mode # "code"
  <2>1. ModeAfter(q2, "(") = "odd"
    BY <1>4, <1>5, <1>6, <1>8 DEF ModeAfter, Quote, Kept, IsBrace
  <2> QED
    BY <1>1, <1>8, <2>1 DEF ReadToken
<1> QED
  BY <1>7, <1>8

LEMMA EmptyRead ==
  ASSUME NEW q \in Readers, q.mode = "code"
  PROVE  ReadOn(EmptyString, q) = At(q, "code")
<1> DEFINE q1 == ReadToken(q, Quote)
<1>1. ReadOn(EmptyString, q) = ReadToken(q1, Quote) /\ q1 \in Readers
  BY ReadThree, RawBeginIs, TokensAre
<1>2. q1.mode = "string" /\ q1.last # "R" /\ q1.names = q.names /\ q1.braces = q.braces
  BY DEF ReadToken, ModeAfter, LastAfter, IsBrace, Quote, Readers
<1> HIDE DEF q1
<1>3. ModeAfter(q1, Quote) = "code"
  BY <1>2 DEF ModeAfter, Quote, Kept, IsBrace
<1> QED
  BY <1>1, <1>2, <1>3 DEF ReadToken, At, LastAfter, IsBrace, Quote, Readers

LEMMA FinishRead ==
  ASSUME NEW q \in Readers, q.mode = "raw"
  PROVE  ReadOn(RawFinish, q) = At(q, "code")
<1> DEFINE q1 == ReadToken(q, ")")
<1>1. ReadOn(RawFinish, q) = ReadToken(q1, Quote) /\ q1 \in Readers
  BY ReadThree, RawBeginIs, TokensAre
<1>2. q1.mode = "raw" /\ q1.last = ")" /\ q1.names = q.names /\ q1.braces = q.braces
  BY DEF ReadToken, ModeAfter, LastAfter, IsBrace, Quote, Readers
<1> HIDE DEF q1
<1>3. ModeAfter(q1, Quote) = "code"
  BY <1>2 DEF ModeAfter, Quote, Kept, IsBrace
<1> QED
  BY <1>1, <1>2, <1>3 DEF ReadToken, At, LastAfter, IsBrace, Quote, Readers

IsOdd(q) == q.mode = "odd"

Consists(line, a, b, c) ==
    a \in Line /\ b \in Line /\ c \in Line /\ line = a \o b \o c

LEMMA ReadCut ==
  ASSUME NEW q \in Readers, NEW a, NEW b, NEW c, NEW line, Consists(line, a, b, c)
  PROVE  /\ ReadOn(line, q) = ReadOn(c, ReadOn(b, ReadOn(a, q)))
         /\ ReadOn(a, q) \in Readers /\ ReadOn(b, ReadOn(a, q)) \in Readers
         /\ IsOdd(ReadOn(b, ReadOn(a, q))) => IsOdd(ReadOn(line, q))
         /\ IsOdd(ReadOn(a, q)) => IsOdd(ReadOn(line, q))
<1>1. a \in Line /\ b \in Line /\ c \in Line /\ line = a \o b \o c /\ a \o b \in Line
  BY Joined DEF Consists
<1>2. ReadOn(a, q) \in Readers
  BY <1>1, ReadType
<1>3. ReadOn(b, ReadOn(a, q)) \in Readers
  BY <1>1, <1>2, ReadType
<1>4. ReadOn(a \o b, q) = ReadOn(b, ReadOn(a, q))
  BY <1>1, ReadJoined
<1>5. ReadOn(line, q) = ReadOn(c, ReadOn(a \o b, q))
  BY <1>1, ReadJoined
<1>6. IsOdd(ReadOn(b, ReadOn(a, q))) => IsOdd(ReadOn(line, q))
  BY <1>1, <1>3, <1>4, <1>5, OddStays DEF IsOdd
<1>7. IsOdd(ReadOn(a, q)) => IsOdd(ReadOn(b, ReadOn(a, q)))
  BY <1>1, <1>2, OddStays DEF IsOdd
<1> QED
  BY <1>2, <1>3, <1>4, <1>5, <1>6, <1>7

\* A line is what is before, what is there and what comes after.
LEMMA CutOut ==
  ASSUME NEW line \in Line, NEW i \in 1 .. Len(line), NEW j \in 0 .. Len(line),
         NEW mid \in Line, Len(mid) = j - i + 1,
         \A k \in 1 .. Len(mid) : mid[k] = line[i + k - 1]
  PROVE  line = Before(line, i) \o mid \o After(line, j)
<1> DEFINE a == Before(line, i)
           b == SubSeq(line, 1, j)
<1>1. Len(line) \in Nat /\ Len(mid) \in Nat /\ i - 1 \in 0 .. Len(line)
  BY LineLen
<1>2. a \in Line /\ Len(a) = i - 1 /\ \A k \in 1 .. i - 1 : a[k] = line[k]
  BY <1>1, SplitAt DEF Before
<1>3. /\ b \in Line /\ Len(b) = j /\ \A k \in 1 .. j : b[k] = line[k]
      /\ line = b \o After(line, j)
  BY SplitAt
<1> HIDE DEF a, b
<1>4. /\ a \o mid \in Line /\ Len(a \o mid) = Len(a) + Len(mid)
      /\ \A k \in 1 .. Len(a) : (a \o mid)[k] = a[k]
      /\ \A k \in 1 .. Len(mid) : (a \o mid)[Len(a) + k] = mid[k]
  BY <1>2, JoinIs
<1>5. Len(a \o mid) = j
  BY <1>1, <1>2, <1>4
<1>6. ASSUME NEW k \in 1 .. j PROVE (a \o mid)[k] = b[k]
  <2>1. CASE k \in 1 .. i - 1
    BY <1>2, <1>3, <1>4, <2>1
  <2>2. CASE k \notin 1 .. i - 1
    <3>1. PICK n \in 1 .. Len(mid) : k = (i - 1) + n /\ k = i + n - 1
      <4>1. k - (i - 1) \in 1 .. Len(mid)
        BY <1>1, <2>2
      <4>2. k = (i - 1) + (k - (i - 1)) /\ k = i + (k - (i - 1)) - 1
        BY <1>1
      <4> QED
        BY <4>1, <4>2
    <3>2. (a \o mid)[k] = mid[n]
      BY <1>2, <1>4, <3>1
    <3>3. mid[n] = line[k]
      BY <3>1
    <3> QED
      BY <1>3, <3>2, <3>3
  <2> QED
    BY <2>1, <2>2
<1>7. a \o mid = b
  BY <1>3, <1>4, <1>5, <1>6, SeqEqual DEF Line
<1> QED
  BY <1>3, <1>7 DEF a

LEMMA BeforeAt ==
  ASSUME NEW line \in Line, NEW i \in 1 .. Len(line)
  PROVE  /\ Before(line, i) \in Line /\ Len(Before(line, i)) = i - 1
         /\ \A k \in 1 .. i - 1 : Before(line, i)[k] = line[k]
<1>1. i - 1 \in 0 .. Len(line)
  BY LineLen
<1> QED
  BY <1>1, SplitAt DEF Before

LEMMA AfterAt ==
  ASSUME NEW line \in Line, NEW i \in 0 .. Len(line)
  PROVE  /\ After(line, i) \in Line /\ Len(After(line, i)) = Len(line) - i
         /\ \A k \in 1 .. Len(line) - i : After(line, i)[k] = line[i + k]
BY DEF Line, After

LEMMA OpenerCut ==
  ASSUME NEW line \in Line, NEW p \in RawOpeners(line)
  PROVE  /\ p \in 1 .. Len(line) /\ p + 2 \in 0 .. Len(line) /\ Len(line) \in Nat
         /\ Before(line, p) \in Line /\ After(line, p + 2) \in Line
         /\ line = Before(line, p) \o RawBegin \o After(line, p + 2)
<1>1. p \in 1 .. Len(line) - 2 /\ line[p] = "R" /\ line[p+1] = Quote /\ line[p+2] = "("
  BY OpenersAre
<1>2. p \in 1 .. Len(line) /\ p + 2 \in 0 .. Len(line) /\ Len(line) \in Nat
  BY <1>1, LineLen
<1>3. Len(RawBegin) = 3 /\ RawBegin \in Line
      /\ RawBegin[1] = "R" /\ RawBegin[2] = Quote /\ RawBegin[3] = "("
  BY RawBeginIs DEF RawBegin
<1>4. \A k \in 1 .. 3 : RawBegin[k] = line[p + k - 1]
  <2>1. \A k \in 1 .. 3 : k = 1 \/ k = 2 \/ k = 3
    OBVIOUS
  <2>2. p + 1 - 1 = p /\ p + 2 - 1 = p + 1 /\ p + 3 - 1 = p + 2
    BY <1>1
  <2> QED
    BY <1>1, <1>3, <2>1, <2>2, Zenon
<1>5. (p + 2) - p + 1 = 3
  BY <1>1
<1>6. line = Before(line, p) \o RawBegin \o After(line, p + 2)
  BY <1>2, <1>3, <1>4, <1>5, CutOut
<1> QED
  BY <1>2, <1>6, BeforeAt, AfterAt

LEMMA CloserCut ==
  ASSUME NEW line \in Line, NEW p \in RawClosers(line)
  PROVE  /\ p \in 1 .. Len(line) /\ p + 1 \in 0 .. Len(line) /\ Len(line) \in Nat
         /\ Before(line, p) \in Line /\ After(line, p + 1) \in Line
         /\ line = Before(line, p) \o RawFinish \o After(line, p + 1)
<1>1. p \in 1 .. Len(line) - 1 /\ line[p] = ")" /\ line[p+1] = Quote
  BY ClosersAre
<1>2. p \in 1 .. Len(line) /\ p + 1 \in 0 .. Len(line) /\ Len(line) \in Nat
  BY <1>1, LineLen
<1>3. Len(RawFinish) = 2 /\ RawFinish \in Line
      /\ RawFinish[1] = ")" /\ RawFinish[2] = Quote
  BY RawBeginIs DEF RawFinish
<1>4. \A k \in 1 .. 2 : RawFinish[k] = line[p + k - 1]
  <2>1. \A k \in 1 .. 2 : k = 1 \/ k = 2
    OBVIOUS
  <2>2. p + 1 - 1 = p /\ p + 2 - 1 = p + 1
    BY <1>1
  <2> QED
    BY <1>1, <1>3, <2>1, <2>2, Zenon
<1>5. (p + 1) - p + 1 = 2
  BY <1>1
<1>6. line = Before(line, p) \o RawFinish \o After(line, p + 1)
  BY <1>2, <1>3, <1>4, <1>5, CutOut
<1> QED
  BY <1>2, <1>6, BeforeAt, AfterAt

\* The first end of a raw string.
LEMMA FirstCloser ==
  ASSUME NEW line \in Line, RawClosers(line) # {}
  PROVE  /\ Min(RawClosers(line)) \in RawClosers(line)
         /\ RawClosers(Before(line, Min(RawClosers(line)))) = {}
<1> DEFINE p == Min(RawClosers(line))
<1>1. RawClosers(line) \subseteq Nat
  <2>1. ASSUME NEW i \in RawClosers(line) PROVE i \in Nat
    BY ClosersAre, LineLen
  <2> QED
    BY <2>1
<1>2. p \in RawClosers(line) /\ \A i \in RawClosers(line) : p <= i
  BY <1>1, MinOf
<1> HIDE DEF p
<1>3. /\ p \in 1 .. Len(line) /\ Len(line) \in Nat /\ Before(line, p) \in Line
      /\ Len(Before(line, p)) = p - 1 /\ \A k \in 1 .. p - 1 : Before(line, p)[k] = line[k]
  BY <1>2, CloserCut, BeforeAt
<1>4. ASSUME NEW i \in RawClosers(Before(line, p)) PROVE FALSE
  <2>1. /\ i \in 1 .. (p - 1) - 1 /\ Before(line, p)[i] = ")" /\ Before(line, p)[i+1] = Quote
    BY <1>3, ClosersAre
  <2>2. /\ i \in 1 .. p - 1 /\ i + 1 \in 1 .. p - 1 /\ i \in 1 .. Len(line) - 1 /\ ~(p <= i)
    BY <1>3, <2>1
  <2>3. i \in RawClosers(line)
    BY <1>3, <2>1, <2>2, ClosersAre
  <2> QED
    BY <1>2, <2>2, <2>3
<1> QED
  BY <1>2, <1>4 DEF p

LEMMA OpenersAfter ==
  ASSUME NEW line \in Line, NEW n \in 0 .. Len(line), NEW i \in RawOpeners(After(line, n))
  PROVE  n + i \in RawOpeners(line) /\ i \in Nat \ {0}
<1>1. /\ After(line, n) \in Line /\ Len(After(line, n)) = Len(line) - n
      /\ \A k \in 1 .. Len(line) - n : After(line, n)[k] = line[n + k]
  BY AfterAt
<1>2. /\ i \in 1 .. (Len(line) - n) - 2 /\ After(line, n)[i] = "R"
      /\ After(line, n)[i+1] = Quote /\ After(line, n)[i+2] = "("
  BY <1>1, OpenersAre
<1>3. /\ Len(line) \in Nat /\ n + i \in 1 .. Len(line) - 2
      /\ i \in 1 .. Len(line) - n /\ i + 1 \in 1 .. Len(line) - n /\ i + 2 \in 1 .. Len(line) - n
      /\ n + (i + 1) = (n + i) + 1 /\ n + (i + 2) = (n + i) + 2
  BY <1>2, LineLen
<1>4. line[n + i] = "R" /\ line[(n + i) + 1] = Quote /\ line[(n + i) + 2] = "("
  <2>1. line[n + i] = After(line, n)[i]
    BY <1>1, <1>3
  <2>2. line[n + (i + 1)] = After(line, n)[i + 1]
    BY <1>1, <1>3
  <2>3. line[n + (i + 2)] = After(line, n)[i + 2]
    BY <1>1, <1>3
  <2> QED
    BY <1>2, <1>3, <2>1, <2>2, <2>3
<1> QED
  BY <1>2, <1>3, <1>4, OpenersAre

LEMMA PlaceIs ==
  ASSUME NEW text \in Line, NEW i \in 1 .. Len(text)
  PROVE  i \in Nat /\ i # 0 /\ i - 1 \in Nat /\ text[i] \in STRING
BY LineLen DEF Line

LEMMA ReadInduction ==
  ASSUME NEW q \in Readers, NEW text \in Line, NEW P, <<0, q>> \in P,
         \A i \in 1 .. Len(text), s \in Readers :
           <<i - 1, s>> \in P => <<i, ReadToken(s, text[i])>> \in P
  PROVE  <<Len(text), ReadOn(text, q)>> \in P
<1>1. ASSUME NEW i \in 1 .. Len(text), NEW s \in Readers, <<i - 1, s>> \in P
      PROVE  <<i, Reads[<<s, text[i]>>]>> \in P
  <2>1. text[i] \in STRING
    BY DEF Line
  <2> QED
    BY <1>1, <2>1, ReadIs
<1> QED
  BY <1>1, ReadIs, FoldInduction DEF ReadOn

\* What a reader remembers of the token before.
Recalls(s, text, i) ==
    /\ s.last = ")" => i # 0 /\ text[i] = ")"
    /\ s.last = "R" => i # 0 /\ text[i] = "R"
    /\ s.last = "opening" =>
         i # 0 /\ text[i] = Quote /\ i - 1 # 0 /\ text[i-1] = "R"

LEMMA RecallsAfter ==
  ASSUME NEW s, NEW text, NEW i, NEW j, i # 0, i - 1 = j, Recalls(s, text, j)
  PROVE  Recalls(ReadToken(s, text[i]), text, i)
<1> DEFINE token == text[i]
           last == LastAfter(s, token)
<1>1. ReadToken(s, token).last = last
  BY DEF ReadToken
<1>2. /\ last = ")" => token = ")"
      /\ last = "R" => token = "R"
      /\ last = "opening" => s.last = "R" /\ token = Quote
  BY DEF LastAfter
<1> HIDE DEF token, last
<1>3. last = "opening" => i - 1 # 0 /\ text[i-1] = "R"
  BY <1>2 DEF Recalls
<1> QED
  BY <1>1, <1>2, <1>3 DEF Recalls, token

\* A raw string goes on to its end.
InRaw(s, q) == s.mode = "raw" /\ s.names = q.names /\ s.braces = q.braces

LEMMA RawStep ==
  ASSUME NEW s \in Readers, NEW q, NEW token, InRaw(s, q), ~(s.last = ")" /\ token = Quote)
  PROVE  ReadToken(s, token).mode = "odd" \/ InRaw(ReadToken(s, token), q)
<1>1. ModeAfter(s, token) \in {"raw", "odd"}
  BY DEF ModeAfter, InRaw
<1>2. /\ ReadToken(s, token).mode = ModeAfter(s, token)
      /\ ReadToken(s, token).names = s.names
      /\ ReadToken(s, token).braces = s.braces
  BY DEF ReadToken, Readers, InRaw
<1> QED
  BY <1>1, <1>2 DEF InRaw

LEMMA NotClosed ==
  ASSUME NEW text \in Line, RawClosers(text) = {}, NEW i \in 1 .. Len(text), NEW s,
         Recalls(s, text, i - 1)
  PROVE  ~(s.last = ")" /\ text[i] = Quote)
<1> SUFFICES ASSUME s.last = ")", text[i] = Quote PROVE FALSE
  OBVIOUS
<1>1. i - 1 # 0 /\ text[i-1] = ")"
  BY DEF Recalls
<1> DEFINE k == i - 1
<1>2. k # 0 => k \in 1 .. Len(text) - 1
  BY LineLen
<1>3. k + 1 = i
  OBVIOUS
<1>4. k # 0 /\ text[k] = ")"
  BY <1>1
<1> HIDE DEF k
<1>5. k \in RawClosers(text)
  BY <1>2, <1>3, <1>4, ClosersAre
<1> QED
  BY <1>5

LEMMA RawGoesOn ==
  ASSUME NEW q \in Readers, q.mode = "raw", q.last = "", NEW text \in Line,
         RawClosers(text) = {}, ReadOn(text, q).mode # "odd"
  PROVE  InRaw(ReadOn(text, q), q)
<1> DEFINE Good(s) == s.mode = "odd" \/ InRaw(s, q)
           P == {p \in Nat \X Readers : Good(p[2]) /\ Recalls(p[2], text, p[1])}
<1>1. <<0, q>> \in P
  BY DEF InRaw, Recalls
<1>2. ASSUME NEW i \in 1 .. Len(text), NEW s \in Readers, <<i - 1, s>> \in P
      PROVE  <<i, ReadToken(s, text[i])>> \in P
  <2>1. Good(s) /\ Recalls(s, text, i - 1)
    BY <1>2
  <2>2. ~(s.last = ")" /\ text[i] = Quote)
    BY <2>1, NotClosed
  <2>3. Good(ReadToken(s, text[i]))
    <3>1. CASE s.mode = "odd"
      BY <3>1, OddAfter DEF ReadToken
    <3>2. CASE InRaw(s, q)
      BY <2>2, <3>2, RawStep
    <3> QED
      BY <2>1, <3>1, <3>2
  <2> HIDE DEF Good
  <2>4. i \in Nat /\ i # 0 /\ text[i] \in STRING
    BY PlaceIs
  <2>5. Recalls(ReadToken(s, text[i]), text, i)
    BY <2>1, <2>4, RecallsAfter
  <2>6. ReadToken(s, text[i]) \in Readers
    BY <2>4, ReadIs DEF Machine
  <2> QED
    BY <2>3, <2>4, <2>5, <2>6
<1>3. \A p \in P : Good(p[2])
  OBVIOUS
<1> HIDE DEF P, Good
<1>4. <<Len(text), ReadOn(text, q)>> \in P
  BY <1>1, <1>2, ReadInduction
<1>5. Good(ReadOn(text, q))
  BY <1>3, <1>4
<1> QED
  BY <1>5 DEF Good

AtRaw(q) == q.mode = "raw" /\ q.last = ""

\* A raw string that is open and ends on the line.
LEMMA RawEndRead ==
  ASSUME NEW q \in Readers, AtRaw(q), NEW line \in Line,
         NEW p, p = Min(RawClosers(line)), RawClosers(line) # {}, ~IsOdd(ReadOn(line, q))
  PROVE  /\ p + 1 \in 0 .. Len(line) /\ After(line, p + 1) \in Line
         /\ ReadOn(line, q) = ReadOn(After(line, p + 1), At(q, "code"))
<1> DEFINE a == Before(line, p)
           c == After(line, p + 1)
           s == ReadOn(a, q)
<1>1. p \in RawClosers(line) /\ RawClosers(a) = {}
  BY FirstCloser
<1>2. p + 1 \in 0 .. Len(line) /\ a \in Line /\ c \in Line /\ line = a \o RawFinish \o c
  BY <1>1, CloserCut
<1> HIDE DEF a, c
<1>3. RawFinish \in Line
  BY RawBeginIs
<1>4. ReadOn(line, q) = ReadOn(c, ReadOn(RawFinish, s)) /\ s \in Readers /\ ~IsOdd(s)
  <2>1. Consists(line, a, RawFinish, c)
    BY <1>2, <1>3 DEF Consists
  <2> QED
    BY <2>1, ReadCut
<1>5. InRaw(s, q)
  BY <1>1, <1>2, <1>4, RawGoesOn DEF AtRaw, IsOdd
<1> HIDE DEF s
<1>6. ReadOn(RawFinish, s) = At(s, "code")
  BY <1>4, <1>5, FinishRead DEF InRaw
<1>7. At(s, "code") = At(q, "code")
  BY <1>5 DEF At, InRaw
<1> QED
  BY <1>2, <1>4, <1>6, <1>7 DEF c

\* Between lines that are in a comment the reader is in none.
OnLine(q) == q.mode \notin {"block", "after"}

LEMMA StaysOnLine ==
  ASSUME NEW q \in Readers, OnLine(q), NEW text \in Line
  PROVE  OnLine(ReadOn(text, q))
<1> DEFINE R == {s \in Readers : OnLine(s)}
<1>1. ASSUME NEW s \in Readers, s \in R, NEW token \in STRING PROVE Reads[<<s, token>>] \in R
  <2>1. Reads[<<s, token>>] = ReadToken(s, token) /\ Reads[<<s, token>>] \in Readers
    BY ReadIs DEF Machine
  <2>2. ReadToken(s, token).mode \notin {"block", "after"}
    BY <1>1 DEF ReadToken, ModeAfter, OnLine
  <2> QED
    BY <2>1, <2>2 DEF OnLine
<1>2. q \in R /\ \A s \in R : OnLine(s)
  OBVIOUS
<1> HIDE DEF R
<1>3. \A i \in 1 .. Len(text), s \in Readers : s \in R => Reads[<<s, text[i]>>] \in R
  BY <1>1, PlaceIs
<1> QED
  BY <1>2, <1>3, ReadIs, FoldStays DEF ReadOn

\* Where a raw string begins there is code before, or the reader gives up.
LEMMA RawBeginRead ==
  ASSUME NEW q \in Readers, OnLine(q), NEW line \in Line, NEW p \in RawOpeners(line),
         ~IsOdd(ReadOn(line, q))
  PROVE  /\ ReadOn(Before(line, p), q) \in Readers /\ ReadOn(Before(line, p), q).mode = "code"
         /\ ReadOn(line, q) = ReadOn(After(line, p + 2), At(ReadOn(Before(line, p), q), "raw"))
<1> DEFINE a == Before(line, p)
           c == After(line, p + 2)
           s == ReadOn(a, q)
<1>1. a \in Line /\ c \in Line /\ line = a \o RawBegin \o c
  BY OpenerCut
<1> HIDE DEF a, c
<1>2. RawBegin \in Line
  BY RawBeginIs
<1>3. /\ ReadOn(line, q) = ReadOn(c, ReadOn(RawBegin, s))
      /\ s \in Readers /\ ~IsOdd(ReadOn(RawBegin, s))
  <2>1. Consists(line, a, RawBegin, c)
    BY <1>1, <1>2 DEF Consists
  <2> QED
    BY <2>1, ReadCut
<1>4. OnLine(s)
  BY <1>1, StaysOnLine
<1> HIDE DEF s
<1>5. s.mode = "code" /\ ReadOn(RawBegin, s) = At(s, "raw")
  BY <1>3, <1>4, BeginRead DEF OnLine, IsOdd
<1> QED
  BY <1>3, <1>5 DEF s, a, c

-----------------------------------------------------------------------------
(* Without raw strings                                                       *)

\* The reader that forgets the token before, so that it does not know raw
\* strings.
Forget(q) == At(q, q.mode)
Passes == [p \in Readers \X STRING |-> Forget(ReadToken(Forget(p[1]), p[2]))]
Pass(text, q) == Folded(Passes, text, q)

LEMMA ForgetIs ==
  ASSUME NEW q \in Readers
  PROVE  /\ Forget(q) \in Readers /\ Forget(q).last = "" /\ Forget(q).mode = q.mode
         /\ Forget(q).names = q.names /\ Forget(q).braces = q.braces
         /\ Forget(Forget(q)) = Forget(q)
<1>1. q.mode \in ReaderModes
  BY DEF Readers
<1>2. /\ Forget(q) \in Readers /\ Forget(q).last = "" /\ Forget(q).mode = q.mode
      /\ Forget(q).names = q.names /\ Forget(q).braces = q.braces
  BY <1>1, AtType DEF Forget
<1> QED
  BY <1>2 DEF Forget, At

LEMMA PassIs ==
  /\ Machine(Passes, Readers)
  /\ \A q \in Readers, token \in STRING : Passes[<<q, token>>] = Forget(ReadToken(Forget(q), token))
<1>1. ASSUME NEW q \in Readers, NEW token \in STRING
      PROVE  Forget(ReadToken(Forget(q), token)) \in Readers
  <2>1. Forget(q) \in Readers
    BY ForgetIs
  <2>2. ReadToken(Forget(q), token) \in Readers
    BY <2>1, ReadIs DEF Machine
  <2> QED
    BY <2>2, ForgetIs
<1> QED
  BY <1>1 DEF Machine, Passes

Simple(q) == q.mode \notin {"raw", "block", "after"}

LEMMA ForgetStep ==
  ASSUME NEW q \in Readers, Simple(q), NEW token \in STRING, ~(q.last = "opening" /\ token = "(")
  PROVE  /\ Simple(ReadToken(q, token))
         /\ Forget(ReadToken(q, token)) = Forget(ReadToken(Forget(q), token))
<1> DEFINE r == Forget(q)
<1>1. r \in Readers /\ r.last = "" /\ r.mode = q.mode /\ r.names = q.names /\ r.braces = q.braces
  BY ForgetIs
<1> HIDE DEF r
<1>2. Kept(r, token) <=> Kept(q, token)
  BY <1>1 DEF Kept
<1>3. ModeAfter(r, token) = ModeAfter(q, token)
  BY <1>1, <1>2 DEF ModeAfter, Simple
<1>4. ModeAfter(q, token) \notin {"raw", "block", "after"}
  BY DEF ModeAfter, Simple
<1>5. Forget(ReadToken(q, token)) = Forget(ReadToken(r, token))
  BY <1>1, <1>3 DEF Forget, At, ReadToken
<1> QED
  BY <1>4, <1>5 DEF r, Simple, ReadToken

LEMMA NotOpened ==
  ASSUME NEW text \in Line, RawOpeners(text) = {}, NEW i \in 1 .. Len(text), NEW s,
         Recalls(s, text, i - 1)
  PROVE  ~(s.last = "opening" /\ text[i] = "(")
<1> SUFFICES ASSUME s.last = "opening", text[i] = "(" PROVE FALSE
  OBVIOUS
<1> DEFINE k == (i - 1) - 1
<1>1. i - 1 # 0 /\ text[i-1] = Quote /\ k # 0 /\ text[k] = "R"
  BY DEF Recalls
<1>2. i - 1 # 0 /\ k # 0 => k \in 1 .. Len(text) - 2
  BY LineLen
<1>3. k + 1 = i - 1 /\ k + 2 = i
  OBVIOUS
<1> HIDE DEF k
<1>4. k \in RawOpeners(text)
  BY <1>1, <1>2, <1>3, OpenersAre
<1> QED
  BY <1>4

LEMMA NoRawRead ==
  ASSUME NEW q \in Readers, Simple(q), q.last = "", NEW text \in Line, RawOpeners(text) = {}
  PROVE  Simple(ReadOn(text, q)) /\ Forget(ReadOn(text, q)) = Pass(text, Forget(q))
<1> DEFINE R == {p \in Nat \X Readers \X Readers :
                   Simple(p[2]) /\ Recalls(p[2], text, p[1]) /\ p[3] = Forget(p[2])}
<1>1. Forget(q) \in Readers
  BY ForgetIs
<1>2. <<0, q, Forget(q)>> \in R
  BY <1>1 DEF Recalls
<1>3. ASSUME NEW i \in 1 .. Len(text), NEW s \in Readers, NEW t \in Readers, <<i - 1, s, t>> \in R
      PROVE  <<i, Reads[<<s, text[i]>>], Passes[<<t, text[i]>>]>> \in R
  <2>1. Simple(s) /\ Recalls(s, text, i - 1) /\ t = Forget(s)
    BY <1>3
  <2>2. i \in Nat /\ i # 0 /\ text[i] \in STRING
    BY PlaceIs
  <2>3. ~(s.last = "opening" /\ text[i] = "(")
    BY <2>1, NotOpened
  <2>4. Simple(ReadToken(s, text[i]))
        /\ Forget(ReadToken(s, text[i])) = Forget(ReadToken(Forget(s), text[i]))
    BY <2>1, <2>2, <2>3, ForgetStep
  <2>5. Recalls(ReadToken(s, text[i]), text, i)
    BY <2>1, <2>2, RecallsAfter
  <2>6. ReadToken(s, text[i]) \in Readers /\ Reads[<<s, text[i]>>] = ReadToken(s, text[i])
    BY <2>2, ReadAt
  <2>7. Forget(s) \in Readers /\ Forget(Forget(s)) = Forget(s)
    BY ForgetIs
  <2>8. Passes[<<Forget(s), text[i]>>] = Forget(ReadToken(Forget(s), text[i]))
    BY <2>2, <2>7, PassIs
  <2>9. Forget(ReadToken(s, text[i])) \in Readers
    BY <2>6, ForgetIs
  <2> QED
    BY <2>1, <2>2, <2>4, <2>5, <2>6, <2>8, <2>9
<1> HIDE DEF R
<1> DEFINE r == Forget(q)
<1> HIDE DEF r
<1>4. <<Len(text), Folded(Reads, text, q), Folded(Passes, text, Forget(q))>> \in R
  <2>1. Machine(Reads, Readers) /\ Machine(Passes, Readers)
    BY ReadIs, PassIs
  <2>2. r \in Readers /\ <<0, q, r>> \in R
    BY <1>1, <1>2 DEF r
  <2>3. Together(Readers, Reads, Readers, Passes, text, R)
    BY <1>3 DEF Together
  <2>4. <<Len(text), Folded(Reads, text, q), Folded(Passes, text, r)>> \in R
    BY <2>1, <2>2, <2>3, FoldBoth
  <2> QED
    BY <2>4 DEF r
<1> QED
  BY <1>4 DEF R, ReadOn, Pass

\* The last raw string that begins on a line: the line before it, what is read
\* there, and what comes after it.
RawHead(line) == Before(line, RawStart(line))
AtCode(q) == q \in Readers /\ q.mode = "code"
IsRaw(q) == q.mode = "raw"

LEMMA AtAgain ==
  ASSUME NEW q \in Readers
  PROVE  /\ At(At(q, "raw"), "code") = At(q, "code")
         /\ At(q, "raw") \in Readers /\ At(q, "code") \in Readers
         /\ AtRaw(At(q, "raw")) /\ AtCode(At(q, "code"))
         /\ Simple(At(q, "code")) /\ At(q, "code").last = ""
<1>1. "raw" \in ReaderModes /\ "code" \in ReaderModes
  BY DEF ReaderModes
<1> QED
  BY <1>1, AtType DEF At, AtRaw, AtCode, Simple

LEMMA StartIs ==
  ASSUME NEW line \in Line, RawOpeners(line) # {}
  PROVE  RawStart(line) \in RawOpeners(line) /\ \A i \in RawOpeners(line) : i <= RawStart(line)
<1>1. RawOpeners(line) \subseteq 1 .. Len(line) /\ Len(line) \in Nat
  BY RawOpenersAre, LineLen
<1>2. RawOpeners(line) \in SUBSET Nat /\ \A n \in RawOpeners(line) : n <= Len(line)
  BY <1>1
<1> QED
  BY <1>1, <1>2, MaxOf DEF RawStart

LEMMA LastRaw ==
  ASSUME NEW q \in Readers, OnLine(q), NEW line \in Line, RawOpeners(line) # {},
         ~IsOdd(ReadOn(line, q))
  PROVE  /\ RawHead(line) \in Line /\ RawRest(line) \in Line
         /\ RawOpeners(RawRest(line)) = {}
         /\ AtCode(ReadOn(RawHead(line), q))
         /\ ReadOn(line, q) = ReadOn(RawRest(line), At(ReadOn(RawHead(line), q), "raw"))
         /\ ReadOn(RawKept(line), q) = At(ReadOn(RawHead(line), q), "code")
<1> DEFINE p == RawStart(line)
           s == ReadOn(Before(line, p), q)
<1>1. p \in RawOpeners(line) /\ \A i \in RawOpeners(line) : i <= p
  BY StartIs
<1> HIDE DEF p
<1>2. /\ p \in 1 .. Len(line) /\ p + 2 \in 0 .. Len(line)
      /\ Before(line, p) \in Line /\ After(line, p + 2) \in Line
  BY <1>1, OpenerCut
<1>3. s \in Readers /\ s.mode = "code" /\ ReadOn(line, q) = ReadOn(After(line, p + 2), At(s, "raw"))
  BY <1>1, RawBeginRead
<1>4. ASSUME NEW i \in RawOpeners(After(line, p + 2)) PROVE FALSE
  <2>1. p + 2 + i \in RawOpeners(line) /\ i \in Nat \ {0}
    BY <1>2, <1>4, OpenersAfter
  <2>2. p \in Nat
    BY <1>2
  <2> QED
    BY <1>1, <2>1, <2>2
<1> HIDE DEF s
<1>5. ReadOn(Before(line, p) \o EmptyString, q) = At(s, "code")
  <2>1. ReadOn(Before(line, p) \o EmptyString, q) = ReadOn(EmptyString, s)
    BY <1>2, EmptyStringIs, ReadJoined DEF s
  <2> QED
    BY <1>3, <2>1, EmptyRead
<1> QED
  BY <1>2, <1>3, <1>4, <1>5 DEF s, p, RawHead, RawRest, RawKept, AtCode

\* A raw string that ends on its line, taken out, is an empty string to the reader.
LEMMA WithoutRawRead ==
  ASSUME NEW q \in Readers, OnLine(q), NEW line \in Line, RawOpeners(line) # {},
         ~IsOdd(ReadOn(line, q)), RawClosers(RawRest(line)) # {}
  PROVE  /\ WithoutRaw(line) \in Line /\ ReadOn(WithoutRaw(line), q) = ReadOn(line, q)
         /\ ~IsRaw(ReadOn(line, q))
<1> DEFINE s == ReadOn(RawHead(line), q)
           rest == RawRest(line)
           e == Min(RawClosers(rest))
           c == After(rest, e + 1)
<1>1. /\ rest \in Line /\ RawOpeners(rest) = {} /\ s \in Readers
      /\ ReadOn(line, q) = ReadOn(rest, At(s, "raw"))
      /\ ReadOn(RawKept(line), q) = At(s, "code")
  BY LastRaw DEF AtCode
<1>2. RawKept(line) \in Line /\ WithoutRaw(line) \in Line /\ WithoutRaw(line) = RawKept(line) \o c
  BY WithoutRawIs DEF WithoutRaw
<1> HIDE DEF s, rest
<1>3. At(s, "raw") \in Readers /\ AtRaw(At(s, "raw"))
      /\ At(At(s, "raw"), "code") = At(s, "code") /\ At(s, "code") \in Readers
      /\ Simple(At(s, "code")) /\ At(s, "code").last = ""
  BY <1>1, AtAgain
<1>4. RawClosers(rest) # {}
  BY DEF rest
<1>5. /\ e + 1 \in 0 .. Len(rest) /\ c \in Line
      /\ ReadOn(rest, At(s, "raw")) = ReadOn(c, At(At(s, "raw"), "code"))
  BY <1>1, <1>3, <1>4, RawEndRead
<1>6. RawOpeners(c) = {}
  BY <1>1, <1>5, OpenersAfter
<1> HIDE DEF e, c
<1>7. ReadOn(WithoutRaw(line), q) = ReadOn(c, At(s, "code"))
  BY <1>1, <1>2, <1>5, ReadJoined
<1>8. Simple(ReadOn(c, At(s, "code")))
  BY <1>3, <1>5, <1>6, NoRawRead
<1> QED
  BY <1>1, <1>2, <1>3, <1>5, <1>7, <1>8 DEF Simple, IsRaw

\* One that does not end on its line.
LEMMA RawStaysOpen ==
  ASSUME NEW q \in Readers, OnLine(q), NEW line \in Line, RawOpeners(line) # {},
         ~IsOdd(ReadOn(line, q)), RawClosers(RawRest(line)) = {}
  PROVE  /\ RawKept(line) \in Line /\ IsRaw(ReadOn(line, q))
         /\ ReadOn(RawKept(line), q) = At(ReadOn(line, q), "code")
<1> DEFINE s == ReadOn(RawHead(line), q)
           t == ReadOn(line, q)
<1>1. /\ RawRest(line) \in Line /\ s \in Readers
      /\ t = ReadOn(RawRest(line), At(s, "raw"))
      /\ ReadOn(RawKept(line), q) = At(s, "code")
  BY LastRaw DEF AtCode
<1>2. RawKept(line) \in Line
  BY WithoutRawIs
<1> HIDE DEF s
<1>3. At(s, "raw") \in Readers /\ AtRaw(At(s, "raw")) /\ At(At(s, "raw"), "code") = At(s, "code")
  BY <1>1, AtAgain
<1>4. InRaw(t, At(s, "raw"))
  BY <1>1, <1>3, RawGoesOn DEF AtRaw, IsOdd
<1> HIDE DEF t
<1>5. At(t, "code") = At(s, "code") /\ IsRaw(t)
  BY <1>3, <1>4 DEF At, InRaw, IsRaw
<1> QED
  BY <1>1, <1>2, <1>5 DEF t

\* Before the last raw string no other begins, if there is only one.
LEMMA KeptOpeners ==
  ASSUME NEW line \in Line, RawOpeners(line) # {}, \A i, j \in RawOpeners(line) : i = j
  PROVE  RawOpeners(RawKept(line)) = {}
<1> DEFINE p == RawStart(line)
           a == Before(line, p)
           k == RawKept(line)
<1>1. p \in RawOpeners(line) /\ p \in 1 .. Len(line) /\ Len(line) \in Nat
  BY StartIs, OpenerCut
<1> HIDE DEF p
<1>2. a \in Line /\ Len(a) = p - 1 /\ \A i \in 1 .. p - 1 : a[i] = line[i]
  BY <1>1, BeforeAt
<1>3. k = a \o EmptyString
  BY DEF RawKept, p
<1> HIDE DEF a, k
<1>4. /\ k \in Line /\ Len(k) = Len(a) + Len(EmptyString)
      /\ \A i \in 1 .. Len(a) : k[i] = a[i]
      /\ \A i \in 1 .. Len(EmptyString) : k[Len(a) + i] = EmptyString[i]
  BY <1>2, <1>3, EmptyStringIs, JoinIs
<1>5. Len(EmptyString) = 2 /\ \A i \in 1 .. 2 : EmptyString[i] = Quote
  BY DEF EmptyString
<1>6. Len(k) = p + 1 /\ k[p] = Quote /\ k[p+1] = Quote /\ \A i \in 1 .. p - 1 : k[i] = line[i]
  <2>1. Len(a) + 1 = p /\ Len(a) + 2 = p + 1
    BY <1>1, <1>2
  <2>2. k[Len(a) + 1] = Quote /\ k[Len(a) + 2] = Quote
    BY <1>4, <1>5
  <2> QED
    BY <1>2, <1>4, <1>5, <2>1, <2>2
<1>7. Quote # "("
  BY DEF Quote
<1>8. ASSUME NEW i \in RawOpeners(k) PROVE FALSE
  <2>1. i \in 1 .. Len(k) - 2 /\ k[i] = "R" /\ k[i+1] = Quote /\ k[i+2] = "("
    BY <1>4, <1>8, OpenersAre
  <2>2. i \in 1 .. p - 1 /\ i + 2 \notin {p, p + 1}
    BY <1>1, <1>6, <1>7, <2>1
  <2>3. i + 1 \in 1 .. p - 1 /\ i + 2 \in 1 .. p - 1 /\ i \in 1 .. Len(line) - 2 /\ i # p
    BY <1>1, <2>2
  <2>4. line[i] = "R" /\ line[i+1] = Quote /\ line[i+2] = "("
    BY <1>6, <2>1, <2>2, <2>3
  <2>5. i \in RawOpeners(line)
    BY <2>3, <2>4, OpenersAre
  <2> QED
    BY <1>1, <2>3, <2>5
<1> QED
  BY <1>8 DEF k

\* Reading a line without its raw strings is reading the line.
LEMMA WithoutRaws ==
  ASSUME NEW q \in Readers, OnLine(q), NEW text \in Line,
         ~IsOdd(ReadOn(text, q)), ~IsRaw(ReadOn(text, q))
  PROVE  /\ ~OpenRaw[text].open /\ RawOpeners(OpenRaw[text].line) = {}
         /\ ReadOn(OpenRaw[text].line, q) = ReadOn(text, q)
<1> DEFINE size == [x \in Line |-> Len(x)]
           Plainly(x) == ~IsOdd(ReadOn(x, q)) /\ ~IsRaw(ReadOn(x, q))
           Good(x) == /\ ~OpenRaw[x].open /\ RawOpeners(OpenRaw[x].line) = {}
                      /\ ReadOn(OpenRaw[x].line, q) = ReadOn(x, q)
           P == {x \in Line : Plainly(x) => Good(x)}
<1>1. size \in [Line -> Nat]
  BY LineLen
<1>2. ASSUME NEW x \in Line, \A y \in Line : size[y] < size[x] => y \in P PROVE x \in P
  <2> SUFFICES ASSUME Plainly(x) PROVE Good(x)
    OBVIOUS
  <2>1. OpenRaw[x] = IF x \in RawEnds THEN RawEnd(x) ELSE OpenRaw[WithoutRaw(x)]
    BY OpenRawExists
  <2>2. CASE RawOpeners(x) = {}
    <3>1. OpenRaw[x] = [line |-> x, open |-> FALSE]
      BY <2>1, <2>2 DEF RawEnds, RawEnd
    <3> QED
      BY <2>2, <3>1
  <2>3. CASE RawOpeners(x) # {}
    <3>1. RawClosers(RawRest(x)) # {}
      BY <2>3, RawStaysOpen
    <3>2. /\ WithoutRaw(x) \in Line /\ ReadOn(WithoutRaw(x), q) = ReadOn(x, q)
          /\ Len(WithoutRaw(x)) < Len(x)
      BY <2>3, <3>1, WithoutRawRead, WithoutRawIs
    <3>3. OpenRaw[x] = OpenRaw[WithoutRaw(x)]
      BY <2>1, <2>3, <3>1 DEF RawEnds
    <3>4. WithoutRaw(x) \in P
      BY <1>2, <3>2
    <3>5. Good(WithoutRaw(x))
      BY <3>2, <3>4
    <3> QED
      BY <3>2, <3>3, <3>5
  <2> QED
    BY <2>2, <2>3
<1>3. text \in P /\ Plainly(text) => Good(text)
  OBVIOUS
<1> HIDE DEF size, P
<1>4. Line \subseteq P
  BY <1>1, <1>2, Induction
<1> QED
  BY <1>3, <1>4

LEMMA OpenRawEnds ==
  ASSUME NEW line \in Line, RawOpeners(line) # {}, RawClosers(RawRest(line)) = {}
  PROVE  OpenRaw[line].open = TRUE /\ OpenRaw[line].line = RawKept(line)
<1>1. OpenRaw[line] = [line |-> RawKept(line), open |-> TRUE]
  BY OpenRawExists DEF RawEnds, RawEnd
<1> QED
  BY <1>1

\* What OpenRaw makes of a line that begins outside of any raw string.
LEMMA OpenRawRead ==
  ASSUME NEW q \in Readers, Simple(q), q.last = "", NEW text \in Line, ~IsOdd(ReadOn(text, q)),
         IsRaw(ReadOn(text, q)) => \A i, j \in RawOpeners(text) : i = j
  PROVE  /\ OpenRaw[text].line \in Line /\ RawOpeners(OpenRaw[text].line) = {}
         /\ OpenRaw[text].open <=> IsRaw(ReadOn(text, q))
         /\ ReadOn(OpenRaw[text].line, q) =
              IF IsRaw(ReadOn(text, q)) THEN At(ReadOn(text, q), "code") ELSE ReadOn(text, q)
<1>1. OnLine(q)
  BY DEF Simple, OnLine
<1>2. OpenRaw[text] \in RawResult /\ OpenRaw[text].line \in Line
  BY OpenRawExists DEF RawResult
<1>3. CASE ~IsRaw(ReadOn(text, q))
  BY <1>1, <1>2, <1>3, WithoutRaws
<1>4. CASE IsRaw(ReadOn(text, q))
  <2>1. RawOpeners(text) # {}
    BY <1>4, NoRawRead DEF Simple, IsRaw
  <2>2. RawClosers(RawRest(text)) = {}
    BY <1>1, <1>4, <2>1, WithoutRawRead
  <2>3. RawKept(text) \in Line /\ ReadOn(RawKept(text), q) = At(ReadOn(text, q), "code")
    BY <1>1, <2>1, <2>2, RawStaysOpen
  <2>4. RawOpeners(RawKept(text)) = {}
    BY <1>4, <2>1, KeptOpeners
  <2>6. OpenRaw[text].open = TRUE /\ OpenRaw[text].line = RawKept(text)
    BY <2>1, <2>2, OpenRawEnds
  <2>7. OpenRaw[text].open <=> IsRaw(ReadOn(text, q))
    BY <1>4, <2>6
  <2> HIDE DEF IsRaw
  <2> QED
    BY <1>4, <2>3, <2>4, <2>6, <2>7
<1> QED
  BY <1>3, <1>4

\* Tabs are nothing to the reader.
LEMMA TabsRead ==
  ASSUME NEW q \in Readers, AtCode(q), NEW text \in Line, \A i \in 1 .. Len(text) : text[i] = Tab
  PROVE  At(ReadOn(text, q), "code") = At(q, "code") /\ AtCode(ReadOn(text, q))
<1> DEFINE R == {s \in Readers : s.mode = "code" /\ s.names = q.names /\ s.braces = q.braces}
<1>1. q \in R
  BY DEF AtCode
<1>2. ASSUME NEW i \in 1 .. Len(text), NEW s \in Readers, s \in R PROVE Reads[<<s, text[i]>>] \in R
  <2>1. text[i] = Tab /\ text[i] \in STRING
    BY PlaceIs
  <2>2. Reads[<<s, text[i]>>] \in Readers /\ Reads[<<s, text[i]>>] = ReadToken(s, Tab)
    BY <2>1, ReadAt
  <2>3. ModeAfter(s, Tab) = "code"
    BY <1>2, InCode DEF Tab, Quote
  <2>4. Tab # "#include" /\ ~IsBrace(Tab)
    BY DEF Tab, IsBrace
  <2>5. /\ ReadToken(s, Tab).mode = "code" /\ ReadToken(s, Tab).names = q.names
        /\ ReadToken(s, Tab).braces = q.braces
    BY <1>2, <2>3, <2>4 DEF ReadToken, Readers
  <2> QED
    BY <2>2, <2>5
<1> HIDE DEF R
<1>3. ReadOn(text, q) \in R
  BY <1>1, <1>2, ReadIs, FoldStays DEF ReadOn
<1> QED
  BY <1>3 DEF R, At, AtCode

\* Raw strings that begin after what is left of one that was closed begin on
\* the line itself.
NoMark(b) == \A k \in 1 .. Len(b) : b[k] \in {Tab, Quote}

LEMMA LaterOpeners ==
  ASSUME NEW line \in Line, NEW n \in 0 .. Len(line), NEW b \in Line, NoMark(b),
         NEW i \in RawOpeners(b \o After(line, n))
  PROVE  i > Len(b) /\ n + (i - Len(b)) \in RawOpeners(line)
<1> DEFINE m == Len(b)
           c == After(line, n)
           l == Len(c)
           text == b \o c
<1>1. c \in Line /\ l \in Nat
  BY AfterAt, LineLen
<1> HIDE DEF c
<1>2. /\ text \in Line /\ Len(text) = m + l /\ m \in Nat
      /\ \A k \in 1 .. m : text[k] = b[k]
      /\ \A k \in 1 .. l : text[m + k] = c[k]
  BY <1>1, JoinIs
<1>3. i \in RawOpeners(text)
  BY DEF c
<1>4. \A k \in 1 .. m : text[k] \in {Tab, Quote}
  BY <1>2 DEF NoMark
<1> HIDE DEF l, text, m
<1>5. i \in 1 .. Len(text) - 2 /\ text[i] = "R" /\ text[i+1] = Quote /\ text[i+2] = "("
  BY <1>2, <1>3, OpenersAre
<1>6. "R" \notin {Tab, Quote}
  BY DEF Tab, Quote
<1>7. i \notin 1 .. m
  BY <1>4, <1>5, <1>6
<1> DEFINE k == i - m
<1>8. /\ i > m /\ k \in 1 .. l - 2 /\ k \in 1 .. l /\ k + 1 \in 1 .. l /\ k + 2 \in 1 .. l
      /\ m + k = i /\ m + (k + 1) = i + 1 /\ m + (k + 2) = i + 2
  <2>1. i \in 1 .. Len(text) - 2
    BY <1>5
  <2> QED
    BY <1>1, <1>2, <1>7, <2>1
<1> HIDE DEF k
<1>9. c[k] = "R" /\ c[k+1] = Quote /\ c[k+2] = "("
  <2>1. c[k] = text[m + k] /\ c[k+1] = text[m + (k+1)] /\ c[k+2] = text[m + (k+2)]
    BY <1>2, <1>8
  <2> QED
    BY <1>5, <1>8, <2>1
<1>10. k \in RawOpeners(c)
  <2>1. k \in 1 .. Len(c) - 2
    BY <1>8 DEF l
  <2> QED
    BY <1>1, <1>9, <2>1, OpenersAre
<1>11. n + k \in RawOpeners(line)
  BY <1>10, OpenersAfter DEF c
<1> QED
  BY <1>8, <1>11 DEF m, k

LEMMA NoMarkJoined ==
  ASSUME NEW a \in Line, NoMark(a), NEW b \in Line, NoMark(b)
  PROVE  a \o b \in Line /\ NoMark(a \o b)
<1> DEFINE m == Len(a)
           n == Len(b)
           c == a \o b
<1>1. /\ c \in Line /\ Len(c) = m + n /\ m \in Nat /\ n \in Nat
      /\ \A i \in 1 .. m : c[i] = a[i]
      /\ \A i \in 1 .. n : c[m + i] = b[i]
  BY JoinIs
<1> HIDE DEF c, m, n
<1>2. ASSUME NEW k \in 1 .. Len(c) PROVE c[k] \in {Tab, Quote}
  <2>1. k \in 1 .. m \/ (k - m \in 1 .. n /\ m + (k - m) = k)
    BY <1>1
  <2> QED
    BY <1>1, <2>1 DEF NoMark, m, n
<1> QED
  BY <1>1, <1>2 DEF NoMark, c

LEMMA EmptyNoMark == EmptyString \in Line /\ NoMark(EmptyString)
<1>1. Len(EmptyString) = 2 /\ \A k \in 1 .. 2 : EmptyString[k] = Quote
  BY DEF EmptyString
<1> QED
  BY <1>1, EmptyStringIs DEF NoMark

\* What CloseRaw makes of a line that begins in a raw string.
ClosedHead(line) == SubSeq(line, 1, IndentLevel(line)) \o EmptyString
ClosedRest(line) == After(line, Min(RawClosers(line)) + 1)

LEMMA ClosedHeadIs ==
  ASSUME NEW line \in Line
  PROVE  /\ ClosedHead(line) \in Line /\ NoMark(ClosedHead(line))
         /\ \A q \in Readers : AtCode(q) => ReadOn(ClosedHead(line), q) = At(q, "code")
<1> DEFINE n == IndentLevel(line)
           a == SubSeq(line, 1, n)
<1>1. n \in 0 .. Len(line) /\ \A i \in 1 .. n : line[i] = Tab
  BY IndentLevelIs, TabsAre
<1> HIDE DEF n
<1>2. a \in Line /\ Len(a) = n /\ \A i \in 1 .. n : a[i] = line[i]
  BY <1>1, SplitAt
<1> HIDE DEF a
<1>3. NoMark(a) /\ \A i \in 1 .. Len(a) : a[i] = Tab
  BY <1>1, <1>2 DEF NoMark
<1>4. a \o EmptyString \in Line /\ NoMark(a \o EmptyString)
  BY <1>2, <1>3, EmptyNoMark, NoMarkJoined
<1>5. ASSUME NEW q \in Readers, AtCode(q) PROVE ReadOn(a \o EmptyString, q) = At(q, "code")
  <2>1. ReadOn(a, q) \in Readers /\ AtCode(ReadOn(a, q)) /\ At(ReadOn(a, q), "code") = At(q, "code")
    BY <1>2, <1>3, <1>5, TabsRead, ReadType
  <2>2. ReadOn(a \o EmptyString, q) = ReadOn(EmptyString, ReadOn(a, q))
    BY <1>2, EmptyStringIs, ReadJoined
  <2>3. ReadOn(EmptyString, ReadOn(a, q)) = At(ReadOn(a, q), "code")
    BY <2>1, EmptyRead DEF AtCode
  <2> QED
    BY <2>1, <2>2, <2>3
<1> QED
  BY <1>4, <1>5 DEF ClosedHead, a, n

OneOpener(line) == \A i, j \in RawOpeners(line) : i = j
\* The reader after a line whose open raw string, if there is one, is gone.
Settled(t) == IF IsRaw(t) THEN At(t, "code") ELSE t
Fresh(q) == q \in Readers /\ q.last = "" /\ q.mode \in {"code", "raw"}

\* CleanseRawStrings on one line: what the reader makes of what is left.
RawRight(r, t, q) ==
    /\ r.line \in Line /\ RawOpeners(r.line) = {} /\ (r.open <=> IsRaw(t))
    /\ ReadOn(r.line, At(q, "code")) = Settled(t)

LEMMA FreshIs ==
  ASSUME NEW q, Fresh(q)
  PROVE  /\ q \in Readers /\ At(q, "code") \in Readers /\ Simple(At(q, "code"))
         /\ At(q, "code").last = "" /\ AtCode(At(q, "code"))
         /\ (~IsRaw(q) => At(q, "code") = q) /\ (IsRaw(q) => AtRaw(q))
<1>1. At(q, "code") \in Readers /\ Simple(At(q, "code")) /\ At(q, "code").last = ""
      /\ AtCode(At(q, "code"))
  BY AtAgain DEF Fresh
<1>2. ~IsRaw(q) => At(q, "code") = q
  BY DEF Fresh, IsRaw, At, Readers
<1> QED
  BY <1>1, <1>2 DEF Fresh, IsRaw, AtRaw

LEMMA OpenRight ==
  ASSUME NEW q, Fresh(q), NEW text \in Line, NEW t, t = ReadOn(text, At(q, "code")), ~IsOdd(t),
         IsRaw(t) => OneOpener(text)
  PROVE  RawRight(OpenRaw[text], t, q)
<1> DEFINE c == At(q, "code")
<1>1. c \in Readers /\ Simple(c) /\ c.last = ""
  BY FreshIs
<1> HIDE DEF c
<1>2. t = ReadOn(text, c)
  BY DEF c
<1>3. IsRaw(ReadOn(text, c)) => \A i, j \in RawOpeners(text) : i = j
  BY <1>2 DEF OneOpener
<1>4. /\ OpenRaw[text].line \in Line /\ RawOpeners(OpenRaw[text].line) = {}
      /\ (OpenRaw[text].open <=> IsRaw(t))
      /\ ReadOn(OpenRaw[text].line, c) = IF IsRaw(t) THEN At(t, "code") ELSE t
  BY <1>1, <1>2, <1>3, OpenRawRead
<1> QED
  BY <1>4 DEF RawRight, Settled, c

LEMMA NoOpenerInEmpty == RawOpeners(EmptyString) = {}
<1>1. EmptyString \in Line /\ Len(EmptyString) = 2
  BY EmptyStringIs
<1>2. ASSUME NEW i \in RawOpeners(EmptyString) PROVE FALSE
  <2>1. i \in 1 .. Len(EmptyString) - 2
    BY <1>1, OpenersAre
  <2> QED
    BY <1>1, <2>1
<1> QED
  BY <1>2

LEMMA RawLineRead ==
  ASSUME NEW q, Fresh(q), NEW line \in Line, NEW t, t = ReadOn(line, q), ~IsOdd(t),
         IsRaw(t) => OneOpener(line), NEW open, open <=> IsRaw(q)
  PROVE  RawRight(CleanseRawLine(line, open), t, q)
<1> DEFINE c == At(q, "code")
<1>0. /\ q \in Readers /\ c \in Readers /\ AtCode(c)
      /\ (~IsRaw(q) => c = q) /\ (IsRaw(q) => AtRaw(q))
  BY FreshIs
<1>1. CASE ~IsRaw(q)
  <2>1. CleanseRawLine(line, open) = OpenRaw[line]
    BY <1>1 DEF CleanseRawLine
  <2>2. t = ReadOn(line, c)
    BY <1>0, <1>1
  <2> QED
    BY <2>1, <2>2, OpenRight
<1>2. CASE IsRaw(q) /\ RawClosers(line) = {}
  <2>1. CleanseRawLine(line, open) = [line |-> EmptyString, open |-> TRUE]
    BY <1>2 DEF CleanseRawLine, CloseRaw
  <2>2. InRaw(t, q)
    BY <1>0, <1>2, RawGoesOn DEF AtRaw, IsOdd
  <2>3. IsRaw(t) /\ At(t, "code") = At(q, "code") /\ At(c, "code") = c
    BY <2>2 DEF InRaw, At, IsRaw
  <2>4. ReadOn(EmptyString, c) = At(c, "code")
    BY <1>0, EmptyRead DEF AtCode
  <2> HIDE DEF c
  <2>5. ReadOn(EmptyString, c) = Settled(t)
    BY <2>3, <2>4 DEF Settled, c
  <2>6. EmptyString \in Line /\ RawOpeners(EmptyString) = {}
    BY EmptyStringIs, NoOpenerInEmpty
  <2> QED
    BY <2>1, <2>3, <2>5, <2>6 DEF RawRight, c
<1>3. CASE IsRaw(q) /\ RawClosers(line) # {}
  <2> DEFINE p == Min(RawClosers(line))
             n == p + 1
             b == ClosedHead(line)
             text == b \o After(line, n)
  <2>1. CleanseRawLine(line, open) = OpenRaw[text]
    BY <1>3 DEF CleanseRawLine, CloseRaw, ClosedHead
  <2>2. /\ p + 1 \in 0 .. Len(line) /\ After(line, p + 1) \in Line
        /\ t = ReadOn(After(line, p + 1), c)
    BY <1>0, <1>3, RawEndRead
  <2>3. b \in Line /\ NoMark(b) /\ ReadOn(b, c) = At(c, "code")
    BY <1>0, ClosedHeadIs
  <2>4. At(c, "code") = c
    BY DEF At
  <2>5. n \in 0 .. Len(line) /\ After(line, n) \in Line /\ t = ReadOn(After(line, n), c)
    BY <2>2
  <2> HIDE DEF n, b, c
  <2>6. text \in Line /\ t = ReadOn(text, c)
    BY <1>0, <2>3, <2>4, <2>5, Joined, ReadJoined
  <2>7. ASSUME OneOpener(line) PROVE OneOpener(text)
    <3>1. ASSUME NEW i \in RawOpeners(text), NEW j \in RawOpeners(text) PROVE i = j
      <4>1. /\ i > Len(b) /\ n + (i - Len(b)) \in RawOpeners(line)
            /\ j > Len(b) /\ n + (j - Len(b)) \in RawOpeners(line)
        BY <2>3, <2>5, LaterOpeners
      <4>2. n + (i - Len(b)) = n + (j - Len(b))
        BY <2>7, <4>1 DEF OneOpener
      <4>3. n \in Nat /\ Len(b) \in Nat /\ i \in Nat /\ j \in Nat
        <5>1. i \in 1 .. Len(text) - 2 /\ j \in 1 .. Len(text) - 2
          BY <2>6, OpenersAre
        <5> QED
          BY <2>3, <2>5, <5>1, LineLen
      <4> QED
        BY <4>2, <4>3
    <3> QED
      BY <3>1 DEF OneOpener
  <2> HIDE DEF text
  <2>8. RawRight(OpenRaw[text], t, q)
    BY <2>6, <2>7, OpenRight DEF c
  <2> QED
    BY <2>1, <2>8
<1> QED
  BY <1>1, <1>2, <1>3

\* Without raw strings the reader is simple: what a token does to it.
Named(q) == [mode |-> q.mode, last |-> "", names |-> TRUE, braces |-> q.braces]
Calm(q) == q \in Readers /\ q.last = "" /\ Simple(q)

ModeOf(q, token) ==
    IF q.mode = "code"
      THEN IF token = Quote THEN "string" ELSE IF token = "//" THEN "line"
           ELSE IF token = "/*" THEN "comment" ELSE IF token = "*/" THEN "odd" ELSE "code"
    ELSE IF q.mode = "string"
      THEN IF token = Quote THEN "code" ELSE IF Kept(q, token) THEN "odd" ELSE "string"
    ELSE IF q.mode = "comment"
      THEN IF token = "*/" THEN "code" ELSE IF token = Quote THEN "quoted" ELSE "comment"
    ELSE IF q.mode = "quoted"
      THEN IF token = Quote THEN "comment"
           ELSE IF token = "*/" \/ Kept(q, token) THEN "odd" ELSE "quoted"
    ELSE q.mode

LEMMA ModeIn ==
  ASSUME NEW q, Calm(q), NEW token
  PROVE  ModeAfter(q, token) = ModeOf(q, token)
<1>1. q.last # "opening"
  BY DEF Calm
<1>2. q.mode \in {"code", "string", "comment", "quoted", "line", "odd"}
  BY DEF Calm, Simple, Readers, ReaderModes
<1>3. CASE q.mode = "string"
  BY <1>1, <1>3 DEF ModeAfter, Quote, Kept, IsBrace, ModeOf
<1>4. CASE q.mode = "comment"
  BY <1>1, <1>4 DEF ModeAfter, Quote, Kept, IsBrace, ModeOf
<1>5. CASE q.mode = "quoted"
  BY <1>1, <1>5 DEF ModeAfter, Quote, Kept, IsBrace, ModeOf
<1>6. CASE q.mode \in {"line", "odd"}
  BY <1>1, <1>6 DEF ModeAfter, Quote, Kept, IsBrace, ModeOf
<1>7. CASE q.mode = "code"
  BY <1>1, <1>7, InCode DEF ModeOf
<1> QED
  BY <1>2, <1>3, <1>4, <1>5, <1>6, <1>7

Moves(q, token, r) ==
    /\ r \in Readers /\ r.last = "" /\ r.mode = ModeOf(q, token)
    /\ r.mode \in {"code", "string", "comment", "quoted", "line", "odd"}
    /\ (q.names = TRUE => r.names = TRUE)
    /\ (q.mode # "code" => r.names = q.names)
    /\ (token # "#include" => r.names = q.names)
    /\ (q.mode = "code" /\ token = "#include" => r.names = TRUE)
    /\ (q.mode = "code" /\ IsBrace(token) => r.braces = Append(q.braces, token))
    /\ (q.mode # "code" => r.braces = q.braces)
    /\ (~IsBrace(token) => r.braces = q.braces)

LEMMA PassMoves ==
  ASSUME NEW q, Calm(q), NEW token \in STRING
  PROVE  Moves(q, token, Passes[<<q, token>>]) /\ Calm(Passes[<<q, token>>])
<1> DEFINE t == ReadToken(q, token)
           r == Passes[<<q, token>>]
<1>1. q \in Readers /\ q.last = "" /\ q.names \in BOOLEAN
  BY DEF Calm, Readers
<1>2. Forget(q) = q
  BY <1>1 DEF Forget, At, Readers
<1>3. t \in Readers /\ r = Forget(t)
  BY <1>1, <1>2, ReadAt, PassIs
<1>4. t.mode = ModeAfter(q, token) /\ ModeOf(q, token) = ModeAfter(q, token)
  BY ModeIn DEF ReadToken
<1>5. ModeOf(q, token) \in {"code", "string", "comment", "quoted", "line", "odd"}
  BY DEF ModeOf, Calm, Simple, Readers, ReaderModes
<1>6. /\ (q.names = TRUE => t.names = TRUE)
      /\ (q.mode # "code" => t.names = q.names)
      /\ (token # "#include" => t.names = q.names)
      /\ (q.mode = "code" /\ token = "#include" => t.names = TRUE)
  BY <1>1 DEF ReadToken
<1>7. /\ (q.mode = "code" /\ IsBrace(token) => t.braces = Append(q.braces, token))
      /\ (q.mode # "code" => t.braces = q.braces)
      /\ (~IsBrace(token) => t.braces = q.braces)
  BY DEF ReadToken
<1> HIDE DEF t
<1>8. /\ r \in Readers /\ r.last = "" /\ r.mode = t.mode
      /\ r.names = t.names /\ r.braces = t.braces
  BY <1>3, ForgetIs
<1> HIDE DEF r
<1>9. r.mode = ModeOf(q, token)
  BY <1>4, <1>8
<1>10. Moves(q, token, r)
  BY <1>5, <1>6, <1>7, <1>8, <1>9 DEF Moves
<1>11. Calm(r)
  BY <1>10 DEF Moves, Calm, Simple
<1> QED
  BY <1>10, <1>11 DEF r

\* When two readers are the same.
LEMMA SameReader ==
  ASSUME NEW q \in Readers, NEW r \in Readers, q.mode = r.mode, q.last = r.last,
         q.names = r.names, q.braces = r.braces
  PROVE  q = r
<1>1. /\ q = [mode |-> q.mode, last |-> q.last, names |-> q.names, braces |-> q.braces]
      /\ r = [mode |-> r.mode, last |-> r.last, names |-> r.names, braces |-> r.braces]
  BY DEF Readers
<1> QED
  BY <1>1

IsNamed(n, q) ==
    /\ n \in Readers /\ n.last = "" /\ n.names = TRUE
    /\ n.mode = q.mode /\ n.braces = q.braces

LEMMA NamedIs ==
  ASSUME NEW q, Calm(q)
  PROVE  Calm(Named(q)) /\ IsNamed(Named(q), q) /\ Named(Named(q)) = Named(q)
<1>1. q \in Readers
  BY DEF Calm
<1>2. IsNamed(Named(q), q)
  BY <1>1 DEF Named, IsNamed, Readers
<1>3. Calm(Named(q))
  BY <1>2 DEF Calm, IsNamed, Simple
<1> QED
  BY <1>2, <1>3 DEF Named

LEMMA NamedOnce ==
  ASSUME NEW q, Calm(q), NEW n, IsNamed(n, q)
  PROVE  n = Named(q)
<1>1. IsNamed(Named(q), q)
  BY NamedIs
<1> QED
  BY <1>1, SameReader DEF IsNamed

LEMMA PassType ==
  ASSUME NEW q, Calm(q), NEW text \in Line
  PROVE  Calm(Pass(text, q))
<1> DEFINE R == {s \in Readers : Calm(s)}
<1>1. q \in R /\ q \in Readers
  BY DEF Calm
<1>2. ASSUME NEW i \in 1 .. Len(text), NEW s \in Readers, s \in R PROVE Passes[<<s, text[i]>>] \in R
  <2>1. Calm(s) /\ text[i] \in STRING
    BY <1>2, PlaceIs
  <2>2. Calm(Passes[<<s, text[i]>>])
    BY <2>1, PassMoves
  <2> QED
    BY <2>2 DEF Calm
<1> HIDE DEF R
<1>3. Pass(text, q) \in R
  BY <1>1, <1>2, PassIs, FoldStays DEF Pass
<1> QED
  BY <1>3 DEF R

LEMMA PassJoined ==
  ASSUME NEW q, Calm(q), NEW a \in Line, NEW b \in Line
  PROVE  Pass(a \o b, q) = Pass(b, Pass(a, q))
<1>1. Machine(Passes, Readers) /\ q \in Readers
  BY PassIs DEF Calm
<1>2. Folded(Passes, a \o b, q) = Folded(Passes, b, Folded(Passes, a, q))
  BY <1>1, FoldJoined
<1> QED
  BY <1>2 DEF Pass

LEMMA PassOne ==
  ASSUME NEW q, Calm(q), NEW token \in STRING
  PROVE  Pass(<<token>>, q) = Passes[<<q, token>>]
<1>1. Machine(Passes, Readers) /\ q \in Readers
  BY PassIs DEF Calm
<1>2. Folded(Passes, <<token>>, q) = Passes[<<q, token>>]
  BY <1>1, FoldOne
<1> QED
  BY <1>2 DEF Pass

LEMMA OddStep ==
  ASSUME NEW q, Calm(q), IsOdd(q), NEW token \in STRING
  PROVE  /\ Calm(Passes[<<q, token>>]) /\ IsOdd(Passes[<<q, token>>])
         /\ Passes[<<Named(q), token>>] = Named(Passes[<<q, token>>])
<1> DEFINE n == Named(q)
           r == Passes[<<q, token>>]
           s == Passes[<<n, token>>]
<1>1. Calm(n) /\ IsNamed(n, q)
  BY NamedIs
<1> HIDE DEF n
<1>2. Moves(q, token, r) /\ Calm(r) /\ Moves(n, token, s)
  BY <1>1, PassMoves
<1> HIDE DEF r, s
<1>3. r.mode = "odd" /\ r.braces = q.braces
  BY <1>2 DEF Moves, ModeOf, IsOdd
<1>4. s \in Readers /\ s.last = "" /\ s.mode = "odd" /\ s.braces = q.braces /\ s.names = TRUE
  BY <1>1, <1>2 DEF Moves, ModeOf, IsOdd, IsNamed
<1>5. s = Named(r)
  BY <1>2, <1>3, <1>4, NamedOnce DEF IsNamed
<1> QED
  BY <1>2, <1>3, <1>5 DEF n, r, s, IsOdd

LEMMA OddPass ==
  ASSUME NEW q, Calm(q), IsOdd(q), NEW text \in Line
  PROVE  Calm(Pass(text, q)) /\ IsOdd(Pass(text, q))
<1> DEFINE R == {s \in Readers : Calm(s) /\ IsOdd(s)}
<1>1. q \in R /\ q \in Readers
  BY DEF Calm
<1>2. ASSUME NEW i \in 1 .. Len(text), NEW s \in Readers, s \in R PROVE Passes[<<s, text[i]>>] \in R
  <2>1. Calm(s) /\ IsOdd(s) /\ text[i] \in STRING
    BY <1>2, PlaceIs
  <2>2. Calm(Passes[<<s, text[i]>>]) /\ IsOdd(Passes[<<s, text[i]>>])
    BY <2>1, OddStep
  <2> QED
    BY <2>2 DEF Calm
<1> HIDE DEF R
<1>3. Pass(text, q) \in R
  BY <1>1, <1>2, PassIs, FoldStays DEF Pass
<1> QED
  BY <1>3 DEF R

\* Text that changes nothing unless the reader gives up.
LEMMA PassKeeps ==
  ASSUME NEW q, Calm(q), NEW text \in Line,
         \A i \in 1 .. Len(text) :
           Passes[<<q, text[i]>>] = q \/ IsOdd(Passes[<<q, text[i]>>])
  PROVE  Pass(text, q) = q \/ IsOdd(Pass(text, q))
<1> DEFINE R == {s \in Readers : s = q \/ (Calm(s) /\ IsOdd(s))}
<1>1. q \in R /\ q \in Readers
  BY DEF Calm
<1>2. ASSUME NEW i \in 1 .. Len(text), NEW s \in Readers, s \in R PROVE Passes[<<s, text[i]>>] \in R
  <2>1. Calm(s) /\ text[i] \in STRING /\ (s = q \/ IsOdd(s))
    BY <1>2, PlaceIs
  <2>2. Calm(Passes[<<s, text[i]>>])
    BY <2>1, PassMoves
  <2>3. IsOdd(s) => IsOdd(Passes[<<s, text[i]>>])
    BY <2>1, OddStep
  <2>4. s = q => Passes[<<s, text[i]>>] = q \/ IsOdd(Passes[<<s, text[i]>>])
    OBVIOUS
  <2>6. Passes[<<s, text[i]>>] \in Readers
    BY <2>2 DEF Calm
  <2> QED
    BY <2>1, <2>2, <2>3, <2>4, <2>6
<1> HIDE DEF R
<1>3. Pass(text, q) \in R
  BY <1>1, <1>2, PassIs, FoldStays DEF Pass
<1> QED
  BY <1>3 DEF R

-----------------------------------------------------------------------------
(* Strings                                                                   *)

\* An even number of quotes came before.
Even(q) == Calm(q) /\ q.mode \in {"code", "comment", "line"}
EndsWell(q) == q.mode \in {"code", "line"}

\* Outside of strings it does not matter whether there was an #include.
LEMMA EvenStep ==
  ASSUME NEW q, Even(q), NEW token \in STRING, token # Quote
  PROVE  /\ Even(Passes[<<q, token>>]) \/ (Calm(Passes[<<q, token>>]) /\ IsOdd(Passes[<<q, token>>]))
         /\ Passes[<<Named(q), token>>] = Named(Passes[<<q, token>>])
<1> DEFINE n == Named(q)
           r == Passes[<<q, token>>]
           s == Passes[<<n, token>>]
<1>0. Calm(q) /\ q.mode \in {"code", "comment", "line"}
  BY DEF Even
<1>1. Calm(n) /\ IsNamed(n, q)
  BY <1>0, NamedIs
<1> HIDE DEF n
<1>2. Moves(q, token, r) /\ Calm(r) /\ Moves(n, token, s)
  BY <1>0, <1>1, PassMoves
<1> HIDE DEF r, s
<1>3. r.mode \in {"code", "comment", "line", "odd"}
  BY <1>0, <1>2 DEF Moves, ModeOf
<1>4. s.mode = r.mode
  BY <1>0, <1>1, <1>2 DEF Moves, ModeOf, IsNamed
<1>5. s.braces = r.braces
  BY <1>0, <1>1, <1>2 DEF Moves, IsNamed
<1>6. s \in Readers /\ s.last = "" /\ s.names = TRUE
  BY <1>1, <1>2 DEF Moves, IsNamed
<1>7. s = Named(r)
  BY <1>2, <1>4, <1>5, <1>6, NamedOnce DEF IsNamed
<1>8. Even(r) \/ (Calm(r) /\ IsOdd(r))
  BY <1>2, <1>3 DEF Even, IsOdd
<1> QED
  BY <1>7, <1>8 DEF n, r, s

LEMMA EvenRead ==
  ASSUME NEW q, Even(q), NEW text \in Line, \A i \in 1 .. Len(text) : text[i] # Quote
  PROVE  /\ Even(Pass(text, q)) \/ IsOdd(Pass(text, q))
         /\ Pass(text, Named(q)) = Named(Pass(text, q))
<1> DEFINE R == {p \in Nat \X Readers \X Readers :
                   (Even(p[2]) \/ (Calm(p[2]) /\ IsOdd(p[2]))) /\ p[3] = Named(p[2])}
           n == Named(q)
<1>1. q \in Readers /\ n \in Readers
  BY NamedIs DEF Even, Calm
<1>2. <<0, q, n>> \in R
  BY <1>1
<1>3. ASSUME NEW i \in 1 .. Len(text), NEW s \in Readers, NEW t \in Readers, <<i - 1, s, t>> \in R
      PROVE  <<i, Passes[<<s, text[i]>>], Passes[<<t, text[i]>>]>> \in R
  <2>1. (Even(s) \/ (Calm(s) /\ IsOdd(s))) /\ t = Named(s)
    BY <1>3
  <2>2. i \in Nat /\ text[i] \in STRING /\ text[i] # Quote
    BY PlaceIs
  <2> DEFINE token == text[i]
             u == Passes[<<s, token>>]
  <2>3. (Even(u) \/ (Calm(u) /\ IsOdd(u))) /\ Passes[<<Named(s), token>>] = Named(u)
    <3> HIDE DEF token
    <3>1. token \in STRING /\ token # Quote
      BY <2>2 DEF token
    <3>2. CASE Even(s)
      BY <3>1, <3>2, EvenStep
    <3>3. CASE Calm(s) /\ IsOdd(s)
      BY <3>1, <3>3, OddStep
    <3> QED
      BY <2>1, <3>2, <3>3
  <2> HIDE DEF u
  <2>4. u \in Readers /\ Named(u) \in Readers
    BY <2>3, NamedIs DEF Even, Calm
  <2>5. <<i, u, Named(u)>> \in R
    BY <2>2, <2>3, <2>4
  <2> QED
    BY <2>1, <2>3, <2>5 DEF u, token
<1> HIDE DEF R, n
<1>4. <<Len(text), Folded(Passes, text, q), Folded(Passes, text, n)>> \in R
  <2>1. Machine(Passes, Readers)
    BY PassIs
  <2>2. Together(Readers, Passes, Readers, Passes, text, R)
    BY <1>3 DEF Together
  <2> QED
    BY <1>1, <1>2, <2>1, <2>2, FoldBoth
<1> QED
  BY <1>4 DEF R, n, Pass

\* A quote begins a string, which the next one ends.
LEMMA QuoteStep ==
  ASSUME NEW q, Even(q), NEW r, r = Passes[<<q, Quote>>]
  PROVE  /\ Calm(r) /\ Passes[<<r, Quote>>] = q
         /\ ~EndsWell(r) \/ r = q
         /\ \A token \in STRING :
              token # Quote => Passes[<<r, token>>] = r \/ IsOdd(Passes[<<r, token>>])
<1>1. q \in Readers /\ q.last = "" /\ Calm(q) /\ q.mode \in {"code", "comment", "line"}
  BY DEF Calm, Even
<1>2. Quote \in STRING /\ ~IsBrace(Quote) /\ Quote # "#include" /\ Quote # "*/"
  BY TokensAre DEF Quote, IsBrace
<1>3. Moves(q, Quote, r) /\ Calm(r)
  BY <1>1, <1>2, PassMoves
<1>4. /\ r \in Readers /\ r.last = "" /\ r.names = q.names /\ r.braces = q.braces
      /\ r.mode \in {"string", "quoted", "line"}
  BY <1>1, <1>2, <1>3 DEF Moves, ModeOf
<1>5. /\ q.mode = "code" <=> r.mode = "string"
      /\ q.mode = "comment" <=> r.mode = "quoted"
      /\ q.mode = "line" <=> r.mode = "line"
  BY <1>1, <1>2, <1>3 DEF Moves, ModeOf
<1>6. Passes[<<r, Quote>>] = q
  <2> DEFINE s == Passes[<<r, Quote>>]
  <2>1. Moves(r, Quote, s)
    BY <1>2, <1>3, PassMoves
  <2> HIDE DEF s
  <2>2. s.mode = q.mode
    BY <1>1, <1>2, <1>4, <1>5, <2>1 DEF Moves, ModeOf
  <2>3. s \in Readers /\ s.last = "" /\ s.names = q.names /\ s.braces = q.braces
    BY <1>2, <1>4, <2>1 DEF Moves
  <2>4. s = q
    BY <1>1, <2>2, <2>3, SameReader
  <2> QED
    BY <2>4 DEF s
<1>7. ~EndsWell(r) \/ r = q
  <2>1. r.mode # "line" => ~EndsWell(r)
    BY <1>4 DEF EndsWell
  <2>2. r.mode = "line" => r = q
    BY <1>1, <1>4, <1>5, SameReader
  <2> QED
    BY <2>1, <2>2
<1>8. ASSUME NEW token \in STRING, token # Quote
      PROVE  Passes[<<r, token>>] = r \/ IsOdd(Passes[<<r, token>>])
  <2> DEFINE s == Passes[<<r, token>>]
  <2>1. Moves(r, token, s)
    BY <1>3, PassMoves
  <2> HIDE DEF s
  <2>2. s.mode = r.mode \/ IsOdd(s)
    BY <1>4, <1>8, <2>1 DEF Moves, ModeOf, IsOdd
  <2>3. s \in Readers /\ s.last = "" /\ s.names = r.names /\ s.braces = r.braces
    BY <1>4, <2>1 DEF Moves
  <2>4. s.mode = r.mode => s = r
    BY <1>4, <2>3, SameReader
  <2> QED
    BY <2>2, <2>4 DEF s
<1> QED
  BY <1>3, <1>6, <1>7, <1>8

LEMMA LineStep ==
  ASSUME NEW q, Calm(q), q.mode = "line", NEW token \in STRING
  PROVE  Passes[<<q, token>>] = q
<1> DEFINE r == Passes[<<q, token>>]
<1>1. Moves(q, token, r)
  BY PassMoves
<1> HIDE DEF r
<1>2. /\ r \in Readers /\ r.last = "" /\ r.mode = q.mode
      /\ r.names = q.names /\ r.braces = q.braces
  BY <1>1 DEF Moves, ModeOf
<1>3. q \in Readers /\ q.last = ""
  BY DEF Calm
<1>4. r = q
  BY <1>2, <1>3, SameReader
<1> QED
  BY <1>4 DEF r

LEMMA LinePass ==
  ASSUME NEW q, Calm(q), q.mode = "line", NEW text \in Line
  PROVE  Pass(text, q) = q
<1>1. ASSUME NEW i \in 1 .. Len(text) PROVE Passes[<<q, text[i]>>] = q
  <2>1. text[i] \in STRING
    BY PlaceIs
  <2> QED
    BY <2>1, LineStep
<1>2. Pass(text, q) = q \/ IsOdd(Pass(text, q))
  BY <1>1, PassKeeps
<1> DEFINE R == {q}
<1>3. Folded(Passes, text, q) \in R
  <2>1. \A i \in 1 .. Len(text), s \in Readers : s \in R => Passes[<<s, text[i]>>] \in R
    BY <1>1
  <2>2. Machine(Passes, Readers) /\ q \in Readers /\ q \in R
    BY PassIs DEF Calm
  <2> HIDE DEF R
  <2> QED
    BY <2>1, <2>2, FoldStays
<1> QED
  BY <1>3 DEF Pass

LEMMA QuoteEnded ==
  ASSUME NEW q, Even(q), EndsWell(Passes[<<q, Quote>>])
  PROVE  q.mode = "line"
<1>1. Calm(q) /\ q.mode \in {"code", "comment", "line"} /\ Quote \in STRING /\ Quote # "*/"
  BY TokensAre DEF Even, Quote
<1>2. Moves(q, Quote, Passes[<<q, Quote>>])
  BY <1>1, PassMoves
<1> QED
  BY <1>1, <1>2 DEF Moves, ModeOf, EndsWell

LEMMA NotWell == \A q : IsOdd(q) => ~EndsWell(q)
BY DEF IsOdd, EndsWell

\* A line is what comes before a token, the token, and what comes after it.
LEMMA TokenCut ==
  ASSUME NEW line \in Line, NEW i \in 1 .. Len(line)
  PROVE  /\ Before(line, i) \in Line /\ After(line, i) \in Line /\ line[i] \in STRING
         /\ <<line[i]>> \in Line
         /\ line = Before(line, i) \o <<line[i]>> \o After(line, i)
<1>1. line[i] \in STRING /\ Len(line) \in Nat /\ i \in 0 .. Len(line)
  BY PlaceIs, LineLen
<1>2. <<line[i]>> \in Line /\ Len(<<line[i]>>) = i - i + 1
  BY <1>1 DEF Line
<1>3. \A k \in 1 .. Len(<<line[i]>>) : <<line[i]>>[k] = line[i + k - 1]
  <2>1. ASSUME NEW k \in 1 .. 1 PROVE <<line[i]>>[k] = line[i + k - 1]
    <3>1. k = 1 /\ i + k - 1 = i
      OBVIOUS
    <3> QED
      BY <3>1
  <2>2. Len(<<line[i]>>) = 1
    OBVIOUS
  <2> QED
    BY <2>1, <2>2
<1>4. Before(line, i) \in Line /\ After(line, i) \in Line
  BY <1>1, BeforeAt, AfterAt
<1> QED
  BY <1>1, <1>2, <1>3, <1>4, CutOut

LEMMA PassThree ==
  ASSUME NEW q, Calm(q), NEW line, NEW a, NEW b, NEW c, Consists(line, a, b, c)
  PROVE  Pass(line, q) = Pass(c, Pass(b, Pass(a, q)))
<1> DEFINE d == a \o b
<1>1. a \in Line /\ b \in Line /\ c \in Line /\ line = (a \o b) \o c
  BY DEF Consists
<1>2. d \in Line
  BY <1>1, Joined
<1>3. Pass(d, q) = Pass(b, Pass(a, q))
  BY <1>1, PassJoined
<1> HIDE DEF d
<1>4. Pass(d \o c, q) = Pass(c, Pass(d, q))
  BY <1>1, <1>2, PassJoined
<1> QED
  BY <1>1, <1>3, <1>4 DEF d

LEMMA PassCut ==
  ASSUME NEW q, Calm(q), NEW line \in Line, NEW i \in 1 .. Len(line),
         NEW s, s = Pass(Before(line, i), q), NEW r, r = Passes[<<s, line[i]>>]
  PROVE  Calm(s) /\ Calm(r) /\ Pass(line, q) = Pass(After(line, i), r)
<1> DEFINE a == Before(line, i)
           b == <<line[i]>>
           c == After(line, i)
<1>1. a \in Line /\ b \in Line /\ c \in Line /\ line[i] \in STRING /\ line = (a \o b) \o c
  BY TokenCut
<1>2. Calm(s)
  BY <1>1, PassType
<1>3. Pass(b, s) = r /\ Calm(r)
  BY <1>1, <1>2, PassOne, PassMoves
<1>4. Consists(line, a, b, c)
  BY <1>1 DEF Consists
<1>5. s = Pass(a, q)
  OBVIOUS
<1> HIDE DEF a, b, c
<1>6. Pass(line, q) = Pass(c, Pass(b, Pass(a, q)))
  BY <1>4, PassThree
<1> QED
  BY <1>2, <1>3, <1>5, <1>6 DEF c

LEMMA AfterTwice ==
  ASSUME NEW line \in Line, NEW i \in 0 .. Len(line), NEW k \in 0 .. Len(line) - i
  PROVE  After(After(line, i), k) = After(line, i + k)
<1> DEFINE a == After(line, i)
           b == After(a, k)
           c == After(line, i + k)
           n == Len(line)
<1>1. /\ a \in Line /\ Len(a) = n - i /\ n \in Nat
      /\ \A m \in 1 .. n - i : a[m] = line[i + m]
  BY AfterAt, LineLen
<1> HIDE DEF a
<1>2. k \in 0 .. Len(a) /\ i + k \in 0 .. n
  BY <1>1
<1>3. /\ b \in Line /\ Len(b) = Len(a) - k
      /\ \A m \in 1 .. Len(a) - k : b[m] = a[k + m]
  BY <1>1, <1>2, AfterAt
<1>4. /\ c \in Line /\ Len(c) = n - (i + k)
      /\ \A m \in 1 .. n - (i + k) : c[m] = line[(i + k) + m]
  BY <1>2, AfterAt
<1> HIDE DEF b, c, n
<1>5. Len(b) = Len(c)
  BY <1>1, <1>3, <1>4
<1>6. ASSUME NEW m \in 1 .. Len(b) PROVE b[m] = c[m]
  <2>1. /\ m \in 1 .. Len(a) - k /\ k + m \in 1 .. n - i /\ m \in 1 .. n - (i + k)
        /\ i + (k + m) = (i + k) + m
    BY <1>1, <1>3, <1>4, <1>5
  <2> QED
    BY <1>1, <1>3, <1>4, <2>1
<1>7. b = c
  BY <1>3, <1>4, <1>5, <1>6, SeqEqual DEF Line
<1> QED
  BY <1>7 DEF a, b, c

\* Something that holds of the reader and of how far it is.
LEMMA PassInduction ==
  ASSUME NEW q, Calm(q), NEW text \in Line, NEW P, <<0, q>> \in P,
         \A i \in 1 .. Len(text), s \in Readers :
           Calm(s) /\ <<i - 1, s>> \in P => <<i, Passes[<<s, text[i]>>]>> \in P
  PROVE  <<Len(text), Pass(text, q)>> \in P
<1> DEFINE R == {p \in Nat \X Readers : Calm(p[2]) /\ p \in P}
<1>1. Machine(Passes, Readers) /\ q \in Readers /\ <<0, q>> \in R
  BY PassIs DEF Calm
<1>2. ASSUME NEW i \in 1 .. Len(text), NEW s \in Readers, <<i - 1, s>> \in R
      PROVE  <<i, Passes[<<s, text[i]>>]>> \in R
  <2>1. Calm(s) /\ <<i - 1, s>> \in P /\ text[i] \in STRING /\ i \in Nat
    BY <1>2, PlaceIs
  <2>2. Calm(Passes[<<s, text[i]>>])
    BY <2>1, PassMoves
  <2>3. <<i, Passes[<<s, text[i]>>]>> \in P
    BY <2>1
  <2>4. Passes[<<s, text[i]>>] \in Readers
    BY <2>2 DEF Calm
  <2> QED
    BY <2>1, <2>2, <2>3, <2>4
<1> HIDE DEF R
<1>3. <<Len(text), Folded(Passes, text, q)>> \in R
  BY <1>1, <1>2, FoldInduction
<1> QED
  BY <1>3 DEF R, Pass

LEMMA PassStays ==
  ASSUME NEW q, Calm(q), NEW text \in Line, NEW R, q \in R,
         \A i \in 1 .. Len(text), s \in Readers :
           Calm(s) /\ s \in R => Passes[<<s, text[i]>>] \in R
  PROVE  Pass(text, q) \in R
<1> DEFINE P == Nat \X R
<1>1. <<0, q>> \in P
  OBVIOUS
<1>2. ASSUME NEW i \in 1 .. Len(text), NEW s \in Readers, Calm(s), <<i - 1, s>> \in P
      PROVE  <<i, Passes[<<s, text[i]>>]>> \in P
  <2>1. s \in R /\ i \in Nat
    BY <1>2
  <2> QED
    BY <1>2, <2>1
<1> HIDE DEF P
<1>3. <<Len(text), Pass(text, q)>> \in P
  BY <1>1, <1>2, PassInduction
<1> QED
  BY <1>3 DEF P

\* The first two quotes of a line.
LEMMA TwoQuotesAre ==
  ASSUME NEW line \in Line \ QuoteEnds, NEW i, i = FirstQuote(line), NEW j, j = SecondQuote(line)
  PROVE  /\ i \in 1 .. Len(line) /\ j \in 1 .. Len(line) /\ i < j
         /\ line[i] = Quote /\ line[j] = Quote
         /\ \A k \in 1 .. Len(line) : k < i => line[k] # Quote
         /\ \A k \in 1 .. Len(line) : i < k /\ k < j => line[k] # Quote
<1> DEFINE Q == Quotes(line)
<1>1. Q \in SUBSET (1 .. Len(line)) /\ IsFiniteSet(Q) /\ Len(line) \in Nat
  BY PositionsAre, LineLen DEF Quotes
<1>2. Cardinality(Q) \in Nat /\ ~(Cardinality(Q) < 2)
  BY <1>1, FS_CardinalityType DEF QuoteEnds
<1>3. \A k \in 1 .. Len(line) : line[k] = Quote <=> k \in Q
  BY PlacesAre DEF Quotes, Positions
<1>4. i = Min(Q) /\ j = Min(Q \ {i})
  BY DEF FirstQuote, SecondQuote
<1> HIDE DEF Q
<1>5. Q # {}
  BY <1>2, FS_EmptySet
<1>6. i \in Q /\ \A k \in Q : i <= k
  BY <1>1, <1>4, <1>5, MinOf
<1>7. Q \ {i} # {}
  <2> SUFFICES ASSUME Q = {i} PROVE FALSE
    BY <1>6
  <2>1. Cardinality({i}) = 1
    BY FS_Singleton
  <2> QED
    BY <1>2, <2>1
<1>8. j \in Q \ {i} /\ \A k \in Q \ {i} : j <= k
  <2>1. Q \ {i} \subseteq 1 .. Len(line)
    BY <1>1
  <2>2. Q \ {i} \in SUBSET Nat
    BY <1>1, <2>1
  <2> QED
    BY <1>4, <1>7, <2>2, MinOf
<1>9. i \in 1 .. Len(line) /\ j \in 1 .. Len(line)
  BY <1>1, <1>6, <1>8
<1>10. i <= j /\ i # j
  BY <1>6, <1>8
<1>11. i < j
  BY <1>9, <1>10
<1>12. ASSUME NEW k \in 1 .. Len(line), k < i PROVE line[k] # Quote
  <2> SUFFICES ASSUME k \in Q PROVE FALSE
    BY <1>3
  <2>1. i <= k
    BY <1>6
  <2> QED
    BY <1>9, <1>12, <2>1
<1>13. ASSUME NEW k \in 1 .. Len(line), i < k, k < j PROVE line[k] # Quote
  <2> SUFFICES ASSUME k \in Q PROVE FALSE
    BY <1>3
  <2>1. k \in Q \ {i}
    BY <1>9, <1>13
  <2>2. j <= k
    BY <1>8, <2>1
  <2> QED
    BY <1>9, <1>13, <2>2
<1> QED
  BY <1>3, <1>6, <1>8, <1>9, <1>11, <1>12, <1>13

LEMMA OneQuoteIs ==
  ASSUME NEW line \in QuoteEnds, NEW i \in 1 .. Len(line), line[i] = Quote,
         NEW k \in 1 .. Len(line), line[k] = Quote
  PROVE  k = i
<1> DEFINE Q == Quotes(line)
<1>1. line \in Line
  BY DEF QuoteEnds
<1>2. IsFiniteSet(Q) /\ Cardinality(Q) < 2 /\ i \in Q /\ k \in Q
  BY <1>1, PositionsAre, PlacesAre DEF Quotes, Positions, QuoteEnds
<1> HIDE DEF Q
<1>3. SUFFICES ASSUME k # i PROVE FALSE
  OBVIOUS
<1>4. {i, k} \subseteq Q /\ IsFiniteSet({i, k}) /\ Cardinality({i, k}) = 2
  <2>1. IsFiniteSet({i}) /\ Cardinality({i}) = 1
    BY FS_Singleton
  <2>2. IsFiniteSet({i} \cup {k}) /\ Cardinality({i} \cup {k}) = 1 + 1
    BY <1>3, <2>1, FS_AddElement
  <2>3. {i} \cup {k} = {i, k} /\ 1 + 1 = 2
    OBVIOUS
  <2> QED
    BY <1>2, <2>2, <2>3
<1>5. Cardinality({i, k}) <= Cardinality(Q) /\ Cardinality(Q) \in Nat
  BY <1>2, <1>4, FS_Subset, FS_CardinalityType
<1>6. 2 <= Cardinality(Q)
  BY <1>4, <1>5
<1> QED
  BY <1>2, <1>5, <1>6

\* Nothing between two quotes changes the reader unless it gives up.
LEMMA BetweenQuotes ==
  ASSUME NEW q, Even(q), NEW text \in Line, \A k \in 1 .. Len(text) : text[k] # Quote
  PROVE  LET r == Passes[<<q, Quote>>] IN Pass(text, r) = r \/ IsOdd(Pass(text, r))
<1> DEFINE r == Passes[<<q, Quote>>]
<1>1. /\ Calm(r)
      /\ \A token \in STRING : token # Quote => Passes[<<r, token>>] = r \/ IsOdd(Passes[<<r, token>>])
  BY QuoteStep
<1> HIDE DEF r
<1>2. ASSUME NEW k \in 1 .. Len(text) PROVE Passes[<<r, text[k]>>] = r \/ IsOdd(Passes[<<r, text[k]>>])
  <2>1. text[k] \in STRING
    BY PlaceIs
  <2> QED
    BY <1>1, <2>1
<1>3. Pass(text, r) = r \/ IsOdd(Pass(text, r))
  BY <1>1, <1>2, PassKeeps
<1> QED
  BY <1>3 DEF r

LEMMA EmptyStringRead ==
  ASSUME NEW q, Even(q)
  PROVE  Pass(EmptyString, q) = q
<1> DEFINE r == Passes[<<q, Quote>>]
<1>1. Calm(q) /\ Quote \in STRING /\ <<Quote>> \in Line
  BY TokensAre, One DEF Even, Line
<1>2. Calm(r) /\ Passes[<<r, Quote>>] = q
  BY QuoteStep
<1>3. EmptyString = <<Quote>> \o <<Quote>>
  BY DEF EmptyString
<1> DEFINE a == <<Quote>>
<1>4. Pass(a, q) = r /\ Pass(a, r) = q
  BY <1>1, <1>2, PassOne
<1> HIDE DEF a, r
<1>5. a \in Line
  BY <1>1 DEF a
<1>6. Pass(a \o a, q) = Pass(a, Pass(a, q))
  BY <1>1, <1>5, PassJoined
<1> QED
  BY <1>3, <1>4, <1>6 DEF a

\* The text before the first quote.
LEMMA BeforeQuote ==
  ASSUME NEW q, Even(q), NEW line \in Line, NEW i \in 1 .. Len(line),
         \A k \in 1 .. Len(line) : k < i => line[k] # Quote,
         NEW s, s = Pass(Before(line, i), q)
  PROVE  /\ Even(s) \/ (Calm(s) /\ IsOdd(s))
         /\ Pass(Before(line, i), Named(q)) = Named(s)
<1> DEFINE a == Before(line, i)
<1>1. a \in Line /\ Len(a) = i - 1 /\ \A k \in 1 .. i - 1 : a[k] = line[k]
  BY BeforeAt
<1> HIDE DEF a
<1>2. ASSUME NEW k \in 1 .. Len(a) PROVE a[k] # Quote
  <2>1. k \in 1 .. i - 1 /\ k \in 1 .. Len(line) /\ k < i
    BY <1>1, LineLen
  <2> QED
    BY <1>1, <2>1
<1>3. /\ Even(Pass(a, q)) \/ IsOdd(Pass(a, q))
      /\ Pass(a, Named(q)) = Named(Pass(a, q))
  BY <1>1, <1>2, EvenRead
<1>4. Calm(Pass(a, q))
  BY <1>1, PassType DEF Even
<1> QED
  BY <1>3, <1>4 DEF a

\* Two quotes and what is between them can be left out.
LEMMA TwoQuotesRead ==
  ASSUME NEW q, Even(q), NEW line \in Line \ QuoteEnds, ~IsOdd(Pass(line, q)),
         NEW s, s = Pass(Before(line, FirstQuote(line)), q)
  PROVE  /\ Even(s) /\ Pass(line, q) = Pass(AfterQuotes(line), s)
         /\ Pass(Collapsed(line), Named(q)) = Named(s)
<1> DEFINE i == FirstQuote(line)
           j == SecondQuote(line)
           a == Before(line, i)
           rest == After(line, i)
           m == j - i
           mid == Before(rest, m)
           r == Passes[<<s, Quote>>]
           n == Named(q)
<1>0. line \in Line /\ Len(line) \in Nat /\ Calm(q)
  BY LineLen DEF Even
<1>1. /\ i \in 1 .. Len(line) /\ j \in 1 .. Len(line) /\ i < j
      /\ line[i] = Quote /\ line[j] = Quote
      /\ \A k \in 1 .. Len(line) : k < i => line[k] # Quote
      /\ \A k \in 1 .. Len(line) : i < k /\ k < j => line[k] # Quote
  BY TwoQuotesAre
<1> HIDE DEF i, j
<1>2. Calm(s) /\ Calm(Passes[<<s, line[i]>>]) /\ Pass(line, q) = Pass(rest, Passes[<<s, line[i]>>])
  BY <1>0, <1>1, PassCut DEF i
<1>3. Calm(r) /\ Pass(line, q) = Pass(rest, r)
  BY <1>1, <1>2
<1>4. /\ Even(s) \/ (Calm(s) /\ IsOdd(s))
      /\ Pass(a, n) = Named(s)
  BY <1>0, <1>1, BeforeQuote DEF i
<1>5. i \in 0 .. Len(line) /\ m \in 0 .. Len(line) - i /\ m \in 1 .. Len(line) - i /\ i + m = j
  BY <1>0, <1>1
<1>6. /\ rest \in Line /\ Len(rest) = Len(line) - i
      /\ \A k \in 1 .. Len(line) - i : rest[k] = line[i + k]
  BY <1>0, <1>5, AfterAt
<1> HIDE DEF n
<1>7. Even(s)
  <2> SUFFICES ASSUME IsOdd(s) PROVE FALSE
    BY <1>4
  <2>1. IsOdd(r)
    BY <1>2, OddStep, TokensAre
  <2>2. IsOdd(Pass(rest, r))
    <3> HIDE DEF r, rest
    <3> QED
      BY <1>3, <1>6, <2>1, OddPass
  <2> QED
    BY <1>3, <2>2
<1>8. After(rest, m) = After(line, j)
  BY <1>0, <1>5, AfterTwice
<1> HIDE DEF rest, m
<1>9. m \in 1 .. Len(rest) /\ rest[m] = Quote
  BY <1>1, <1>5, <1>6
<1>10. mid \in Line /\ \A k \in 1 .. Len(mid) : mid[k] # Quote
  <2>1. /\ mid \in Line /\ Len(mid) = m - 1
        /\ \A k \in 1 .. m - 1 : mid[k] = rest[k]
    BY <1>6, <1>9, BeforeAt
  <2> HIDE DEF mid
  <2>2. ASSUME NEW k \in 1 .. Len(mid) PROVE mid[k] # Quote
    <3>1. k \in 1 .. m - 1 /\ k \in 1 .. Len(line) - i /\ i + k \in 1 .. Len(line)
          /\ i < i + k /\ i + k < j
      BY <1>0, <1>1, <1>5, <2>1
    <3> QED
      BY <1>1, <1>6, <2>1, <3>1
  <2> QED
    BY <2>1, <2>2
<1> HIDE DEF mid
<1>11. Pass(mid, r) = r \/ IsOdd(Pass(mid, r))
  BY <1>7, <1>10, BetweenQuotes
<1> DEFINE u == Pass(mid, r)
           v == Passes[<<u, rest[m]>>]
<1>12. Calm(u) /\ Calm(v) /\ Pass(rest, r) = Pass(After(rest, m), v)
  <2> HIDE DEF r
  <2> QED
    BY <1>3, <1>6, <1>9, PassCut DEF mid
<1>13. u = r
  <2> SUFFICES ASSUME IsOdd(u) PROVE FALSE
    BY <1>11
  <2>1. IsOdd(v)
    <3> HIDE DEF u
    <3> QED
      BY <1>9, <1>12, OddStep, TokensAre
  <2>2. After(rest, m) \in Line
    BY <1>6, <1>9, AfterIs, LineLen
  <2>3. IsOdd(Pass(After(rest, m), v))
    <3> HIDE DEF v
    <3> QED
      BY <1>12, <2>1, <2>2, OddPass
  <2> QED
    BY <1>3, <1>12, <2>3
<1>14. v = s
  <2>1. Passes[<<r, Quote>>] = s
    BY <1>7, QuoteStep
  <2> QED
    BY <1>9, <1>13, <2>1
<1>15. Pass(line, q) = Pass(AfterQuotes(line), s)
  BY <1>3, <1>8, <1>12, <1>14 DEF AfterQuotes, j
<1>16. Pass(a \o EmptyString, n) = Named(s)
  <2>1. a \in Line /\ EmptyString \in Line /\ Calm(n)
    BY <1>0, <1>1, BeforeAt, EmptyStringIs, NamedIs DEF n
  <2>2. Even(Named(s))
    BY <1>7, NamedIs DEF Even, IsNamed
  <2>3. Pass(EmptyString, Named(s)) = Named(s)
    BY <2>2, EmptyStringRead
  <2> HIDE DEF a
  <2>4. Pass(a \o EmptyString, n) = Pass(EmptyString, Pass(a, n))
    BY <2>1, PassJoined
  <2> QED
    BY <1>4, <2>3, <2>4 DEF a
<1> QED
  BY <1>7, <1>15, <1>16 DEF Collapsed, a, i, n

\* A line with one quote, which is in a comment if the line ends well.
LEMMA OneQuoteRead ==
  ASSUME NEW q, Even(q), NEW line \in QuoteEnds, EndsWell(Pass(line, q))
  PROVE  Pass(line, Named(q)) = Named(Pass(line, q))
<1>0. line \in Line /\ Len(line) \in Nat /\ Calm(q)
  BY LineLen DEF QuoteEnds, Even
<1>1. CASE \A k \in 1 .. Len(line) : line[k] # Quote
  BY <1>0, <1>1, EvenRead
<1>2. CASE \E k \in 1 .. Len(line) : line[k] = Quote
  <2>1. PICK i \in 1 .. Len(line) : line[i] = Quote
    BY <1>2
  <2>2. \A k \in 1 .. Len(line) : k # i => line[k] # Quote
    BY <2>1, OneQuoteIs
  <2> DEFINE a == Before(line, i)
             c == After(line, i)
             s == Pass(a, q)
             r == Passes[<<s, Quote>>]
             n == Named(q)
  <2>3. /\ Even(s) \/ (Calm(s) /\ IsOdd(s))
        /\ Pass(a, n) = Named(s)
    <3>1. \A k \in 1 .. Len(line) : k < i => line[k] # Quote
      BY <2>2
    <3> QED
      BY <1>0, <3>1, BeforeQuote
  <2>4. Calm(s) /\ Calm(r) /\ Pass(line, q) = Pass(c, r)
    <3>1. Calm(s) /\ Calm(Passes[<<s, line[i]>>]) /\ Pass(line, q) = Pass(c, Passes[<<s, line[i]>>])
      BY <1>0, PassCut
    <3> QED
      BY <2>1, <3>1
  <2>5. c \in Line /\ \A k \in 1 .. Len(c) : c[k] # Quote
    <3>1. i \in 0 .. Len(line)
      BY <1>0
    <3>2. /\ c \in Line /\ Len(c) = Len(line) - i
          /\ \A k \in 1 .. Len(line) - i : c[k] = line[i + k]
      BY <1>0, <3>1, AfterAt
    <3> HIDE DEF c
    <3>3. ASSUME NEW k \in 1 .. Len(c) PROVE c[k] # Quote
      <4>1. k \in 1 .. Len(line) - i /\ i + k \in 1 .. Len(line) /\ i + k # i
        BY <1>0, <3>2
      <4> QED
        BY <2>2, <3>2, <4>1
    <3> QED
      BY <3>2, <3>3
  <2>6. s.mode = "line"
    <3>1. Even(s)
      <4> SUFFICES ASSUME IsOdd(s) PROVE FALSE
        BY <2>3
      <4>1. IsOdd(r)
        <5> HIDE DEF s
        <5> QED
          BY <2>4, OddStep, TokensAre
      <4>2. IsOdd(Pass(c, r))
        <5> HIDE DEF r, c
        <5> QED
          BY <2>4, <2>5, <4>1, OddPass
      <4> QED
        BY <2>4, <4>2, NotWell
    <3>2. Pass(c, r) = r \/ IsOdd(Pass(c, r))
      <4> HIDE DEF s, c
      <4> QED
        BY <2>5, <3>1, BetweenQuotes
    <3>3. EndsWell(r)
      BY <2>4, <3>2, NotWell
    <3> HIDE DEF s
    <3> QED
      BY <3>1, <3>3, QuoteEnded
  <2> HIDE DEF a, c, s, r, n
  <2>7. Calm(n) /\ Calm(Named(s)) /\ Named(s).mode = "line"
    BY <1>0, <2>4, <2>6, NamedIs DEF n, IsNamed
  <2>8. Pass(line, q) = s
    <3>1. r = s
      BY <2>4, <2>6, LineStep, TokensAre DEF r
    <3> QED
      BY <2>4, <2>5, <2>6, <3>1, LinePass
  <2>9. Pass(line, n) = Named(s)
    <3> DEFINE t == Named(s)
    <3>1. t = Pass(Before(line, i), n)
      BY <2>3 DEF a
    <3>2. Calm(t) /\ t.mode = "line"
      BY <2>7
    <3> HIDE DEF t
    <3>3. Pass(line, n) = Pass(c, Passes[<<t, line[i]>>])
      BY <1>0, <2>7, <3>1, PassCut DEF c
    <3>4. Passes[<<t, line[i]>>] = t
      BY <2>1, <3>2, LineStep, TokensAre
    <3> QED
      BY <2>5, <3>2, <3>3, <3>4, LinePass DEF t
  <2> QED
    BY <2>8, <2>9 DEF n
<1> QED
  BY <1>1, <1>2

\* CollapseQuotes keeps what the reader that has seen an #include, which reads
\* marks even in strings, makes of the line.
LEMMA CollapseRead ==
  \A line \in Line, q \in Readers :
    Even(q) /\ EndsWell(Pass(line, q)) =>
      Pass(CollapseQuotes[line], Named(q)) = Named(Pass(line, q))
<1> DEFINE size == [x \in Line |-> Len(x)]
           P == {x \in Line : \A q \in Readers :
                   Even(q) /\ EndsWell(Pass(x, q)) =>
                     Pass(CollapseQuotes[x], Named(q)) = Named(Pass(x, q))}
<1>1. size \in [Line -> Nat] /\ \A x \in Line : size[x] = Len(x)
  BY LineLen
<1> HIDE DEF size
<1>2. ASSUME NEW x \in Line, \A y \in Line : size[y] < size[x] => y \in P,
             NEW q \in Readers, Even(q), EndsWell(Pass(x, q))
      PROVE  Pass(CollapseQuotes[x], Named(q)) = Named(Pass(x, q))
  <2>1. CASE x \in QuoteEnds
    <3>1. CollapseQuotes[x] = x
      BY <2>1, CollapseQuotesExists
    <3> QED
      BY <1>2, <2>1, <3>1, OneQuoteRead
  <2>2. CASE x \notin QuoteEnds
    <3> DEFINE s == Pass(Before(x, FirstQuote(x)), q)
               rest == AfterQuotes(x)
               head == Collapsed(x)
               tail == CollapseQuotes[rest]
    <3>1. head \in Line /\ rest \in Line /\ Len(rest) < Len(x) /\ tail \in Line
      BY <2>2, QuotesAre, CollapseQuotesExists
    <3>2. ~IsOdd(Pass(x, q))
      BY <1>2, NotWell
    <3>3. Even(s) /\ Pass(x, q) = Pass(rest, s) /\ Pass(head, Named(q)) = Named(s)
      BY <1>2, <2>2, <3>2, TwoQuotesRead
    <3>4. rest \in P
      BY <1>1, <1>2, <3>1
    <3> HIDE DEF s
    <3>5. Pass(tail, Named(s)) = Named(Pass(rest, s))
      <4>1. s \in Readers /\ EndsWell(Pass(rest, s))
        BY <1>2, <3>3 DEF Even, Calm
      <4> QED
        BY <3>3, <3>4, <4>1
    <3>6. CollapseQuotes[x] = head \o tail
      BY <2>2, CollapseQuotesExists
    <3> DEFINE n == Named(q)
    <3>7. Calm(n)
      BY <1>2, NamedIs DEF Even
    <3> HIDE DEF n, head, tail
    <3>8. Pass(head \o tail, n) = Pass(tail, Pass(head, n))
      BY <3>1, <3>7, PassJoined
    <3> QED
      BY <3>3, <3>5, <3>6, <3>8 DEF n
  <2> QED
    BY <2>1, <2>2
<1>3. \A x \in Line : (\A y \in Line : size[y] < size[x] => y \in P) => x \in P
  BY <1>2
<1> HIDE DEF P
<1>4. Line \subseteq P
  BY <1>1, <1>3, Induction
<1> QED
  BY <1>4 DEF P

InCodeNow(q) == Calm(q) /\ q.mode = "code"

\* Tabs change nothing, an #include makes the reader read marks in strings.
LEMMA TabStep ==
  ASSUME NEW q, InCodeNow(q), Tab \in STRING
  PROVE  Passes[<<q, Tab>>] = q
<1> DEFINE r == Passes[<<q, Tab>>]
<1>1. Calm(q) /\ q \in Readers /\ q.last = "" /\ q.mode = "code"
  BY DEF InCodeNow, Calm
<1>2. Tab # Quote /\ Tab # "//" /\ Tab # "/*" /\ Tab # "*/" /\ Tab # "#include" /\ ~IsBrace(Tab)
  BY DEF Tab, Quote, IsBrace
<1>3. Moves(q, Tab, r)
  BY <1>1, PassMoves
<1> HIDE DEF r
<1>4. r \in Readers /\ r.last = "" /\ r.mode = "code" /\ r.names = q.names /\ r.braces = q.braces
  BY <1>1, <1>2, <1>3 DEF Moves, ModeOf
<1>5. r = q
  BY <1>1, <1>4, SameReader
<1> QED
  BY <1>5 DEF r

LEMMA IncludeStep ==
  ASSUME NEW q, InCodeNow(q), NEW token \in STRING, token = "#include"
  PROVE  Passes[<<q, token>>] = Named(q)
<1> DEFINE r == Passes[<<q, token>>]
<1>1. Calm(q) /\ q \in Readers /\ q.last = "" /\ q.mode = "code"
  BY DEF InCodeNow, Calm
<1>2. token # Quote /\ token # "//" /\ token # "/*" /\ token # "*/" /\ ~IsBrace(token)
  BY DEF Quote, IsBrace
<1>3. Moves(q, token, r)
  BY <1>1, PassMoves
<1> HIDE DEF r
<1>4. r \in Readers /\ r.last = "" /\ r.mode = "code" /\ r.names = TRUE /\ r.braces = q.braces
  BY <1>1, <1>2, <1>3 DEF Moves, ModeOf
<1>5. IsNamed(r, q)
  BY <1>1, <1>4 DEF IsNamed
<1>6. r = Named(q)
  BY <1>1, <1>5, NamedOnce
<1> QED
  BY <1>6 DEF r

LEMMA IncludeFrom ==
  ASSUME NEW q, InCodeNow(q), NEW line \in Line, IsInclude(line)
  PROVE  Pass(line, q) = Pass(After(line, IndentLevel(line) + 1), Named(q))
<1> DEFINE n == IndentLevel(line)
           a == Before(line, n + 1)
<1>1. n + 1 \in 1 .. Len(line) /\ line[n + 1] = "#include" /\ Calm(q)
  BY FirstIs DEF IsInclude, InCodeNow
<1>2. \A k \in 1 .. n : line[k] = Tab
  BY TabsAre
<1>3. n \in 0 .. Len(line) /\ Len(line) \in Nat
  BY IndentLevelIs, LineLen
<1> HIDE DEF n
<1>4. a \in Line /\ Len(a) = n /\ \A k \in 1 .. n : a[k] = Tab
  <2>1. a \in Line /\ Len(a) = (n + 1) - 1 /\ \A k \in 1 .. (n + 1) - 1 : a[k] = line[k]
    BY <1>1, BeforeAt
  <2>2. (n + 1) - 1 = n
    BY <1>3
  <2> QED
    BY <1>2, <2>1, <2>2
<1>5. Pass(a, q) = q
  <2> HIDE DEF a
  <2> DEFINE R == {q}
  <2>1. ASSUME NEW i \in 1 .. Len(a), NEW s \in Readers, Calm(s), s \in R
        PROVE  Passes[<<s, a[i]>>] \in R
    <3>1. a[i] = Tab /\ a[i] \in STRING
      BY <1>4, PlaceIs
    <3> QED
      BY <2>1, <3>1, TabStep
  <2>2. q \in R
    OBVIOUS
  <2> HIDE DEF R
  <2>3. Pass(a, q) \in R
    BY <1>1, <1>4, <2>1, <2>2, PassStays
  <2> QED
    BY <2>3 DEF R
<1>6. Pass(line, q) = Pass(After(line, n + 1), Passes[<<q, line[n + 1]>>])
  BY <1>1, <1>5, PassCut
<1>7. Passes[<<q, line[n + 1]>>] = Named(q)
  <2>1. line[n + 1] \in STRING
    BY <1>1, PlaceIs
  <2> QED
    BY <1>1, <2>1, IncludeStep
<1> QED
  BY <1>6, <1>7 DEF n

\* What CollapseStrings leaves of a line is read as the line was.
LEMMA CollapseStringsRead ==
  ASSUME NEW q, InCodeNow(q), NEW line \in Line, EndsWell(Pass(line, q)),
         NEW t, t = Pass(CollapseStrings(line), Named(q))
  PROVE  EndsWell(t) /\ t.braces = Pass(line, q).braces
<1>1. Calm(q) /\ Even(q) /\ q \in Readers /\ q.mode = "code"
  BY DEF InCodeNow, Even, Calm
<1>2. CASE IsInclude(line)
  <2>1. InCodeNow(Named(q)) /\ Named(Named(q)) = Named(q)
    BY <1>1, NamedIs DEF InCodeNow, IsNamed
  <2>2. t = Pass(line, Named(q))
    BY <1>2 DEF CollapseStrings
  <2> DEFINE n == Named(q)
             c == After(line, IndentLevel(line) + 1)
  <2>3. Pass(line, q) = Pass(c, n)
    BY <1>2, IncludeFrom
  <2>4. Pass(line, n) = Pass(c, Named(n))
    <3>1. InCodeNow(n)
      BY <2>1
    <3> HIDE DEF n
    <3> QED
      BY <1>2, <3>1, IncludeFrom
  <2> QED
    BY <2>1, <2>2, <2>3, <2>4
<1>3. CASE ~IsInclude(line)
  <2>1. t = Pass(CollapseQuotes[line], Named(q))
    BY <1>3 DEF CollapseStrings
  <2>2. t = Named(Pass(line, q))
    BY <1>1, <2>1, CollapseRead
  <2>3. Calm(Pass(line, q))
    BY <1>1, PassType
  <2>4. IsNamed(t, Pass(line, q))
    BY <2>2, <2>3, NamedIs
  <2> QED
    BY <2>4 DEF IsNamed, EndsWell
<1> QED
  BY <1>2, <1>3

-----------------------------------------------------------------------------
(* Comments                                                                  *)

\* Braces counts with a machine, too.
Bracing == [p \in Line \X STRING |-> IF IsBrace(p[2]) THEN Append(p[1], p[2]) ELSE p[1]]

LEMMA BracingIs ==
  /\ Machine(Bracing, Line)
  /\ \A s \in Line, token \in STRING :
       Bracing[<<s, token>>] = IF IsBrace(token) THEN Append(s, token) ELSE s
<1>1. ASSUME NEW s \in Line, NEW token \in STRING PROVE Append(s, token) \in Line
  BY AppendProperties DEF Line
<1> QED
  BY <1>1 DEF Machine, Bracing

LEMMA BracesFold ==
  ASSUME NEW text \in Line
  PROVE  Braces(text) = Folded(Bracing, text, <<>>)
<1> DEFINE n == Len(text)
           Solves(f) == f = [i \in 0 .. n |->
             IF i = 0 THEN <<>>
             ELSE IF IsBrace(text[i]) THEN Append(f[i-1], text[i]) ELSE f[i-1]]
           g == CHOOSE h : Solves(h)
<1>1. Machine(Bracing, Line) /\ <<>> \in Line /\ n \in Nat
  BY BracingIs, LineLen DEF Line
<1>2. PICK f \in [0 .. n -> Line] :
        Tracks(f, Bracing, text, <<>>) /\ Folded(Bracing, text, <<>>) = f[n]
  BY <1>1, FoldSteps
<1>3. Braces(text) = g[n]
  BY DEF Braces, g, n
<1> HIDE DEF n
<1>4. f[0] = <<>> /\ \A i \in 1 .. n : f[i] = Bracing[<<f[i-1], text[i]>>]
  BY <1>2 DEF Tracks, n
<1>5. ASSUME NEW i \in 1 .. n
      PROVE  f[i] = IF IsBrace(text[i]) THEN Append(f[i-1], text[i]) ELSE f[i-1]
  <2>1. i - 1 \in 0 .. n /\ text[i] \in STRING
    BY <1>1, PlaceIs DEF n
  <2>2. f[i-1] \in Line
    BY <1>2, <2>1
  <2> QED
    BY <1>4, <2>1, <2>2, BracingIs
<1>6. Solves(g)
  <2>1. \A i \in 0 .. n : i = 0 \/ i \in 1 .. n
    BY <1>1
  <2>2. \A i \in 0 .. n : f[i] = IF i = 0 THEN <<>>
          ELSE IF IsBrace(text[i]) THEN Append(f[i-1], text[i]) ELSE f[i-1]
    BY <1>4, <1>5, <2>1
  <2>3. Solves(f)
    BY <1>2, <2>2
  <2> HIDE DEF Solves
  <2> QED
    BY <2>3
<1> HIDE DEF g
<1>7. \A i \in 0 .. n : g[i] = IF i = 0 THEN <<>>
        ELSE IF IsBrace(text[i]) THEN Append(g[i-1], text[i]) ELSE g[i-1]
  BY <1>6
<1> DEFINE P == {i \in 0 .. n : f[i] = g[i]}
<1>8. 0 \in P
  BY <1>1, <1>4, <1>7
<1>9. ASSUME NEW i \in 1 .. n, i - 1 \in P PROVE i \in P
  <2>1. i \in 0 .. n /\ i # 0 /\ f[i-1] = g[i-1]
    BY <1>1, <1>9
  <2>2. g[i] = IF IsBrace(text[i]) THEN Append(g[i-1], text[i]) ELSE g[i-1]
    BY <1>7, <2>1
  <2> QED
    BY <1>5, <2>1, <2>2
<1> HIDE DEF P
<1>10. 0 .. n \subseteq P
  BY <1>1, <1>8, <1>9, CountInduction
<1>11. n \in P
  BY <1>1, <1>10
<1> QED
  BY <1>2, <1>3, <1>11 DEF P, n

\* A reader that reads marks in strings, and one that does so in code.
Strict(q) == Calm(q) /\ q.names = TRUE
Started(q) == Strict(q) /\ q.mode = "code"
Without(text, token) == \A i \in 1 .. Len(text) : text[i] # token

\* What a token does to such a reader.
StrictMode(mode, token) ==
    IF mode = "code"
      THEN IF token = Quote THEN "string" ELSE IF token = "//" THEN "line"
           ELSE IF token = "/*" THEN "comment" ELSE IF token = "*/" THEN "odd" ELSE "code"
    ELSE IF mode = "string"
      THEN IF token = Quote THEN "code"
           ELSE IF IsBrace(token) \/ token \in {"//", "/*", "*/"} THEN "odd" ELSE "string"
    ELSE IF mode = "comment"
      THEN IF token = "*/" THEN "code" ELSE IF token = Quote THEN "quoted" ELSE "comment"
    ELSE IF mode = "quoted"
      THEN IF token = Quote THEN "comment"
           ELSE IF IsBrace(token) \/ token \in {"//", "/*", "*/"} THEN "odd" ELSE "quoted"
    ELSE mode

StrictMoves(q, token, r) ==
    /\ Strict(r) /\ r.mode = StrictMode(q.mode, token)
    /\ (q.mode = "code" /\ IsBrace(token) => r.braces = Append(q.braces, token))
    /\ (q.mode # "code" => r.braces = q.braces)
    /\ (~IsBrace(token) => r.braces = q.braces)

LEMMA StrictStep ==
  ASSUME NEW q, Strict(q), NEW token \in STRING
  PROVE  StrictMoves(q, token, Passes[<<q, token>>])
<1> DEFINE r == Passes[<<q, token>>]
<1>1. Moves(q, token, r) /\ Calm(r) /\ q.names = TRUE
  BY PassMoves DEF Strict
<1> HIDE DEF r
<1>2. ModeOf(q, token) = StrictMode(q.mode, token)
  BY <1>1 DEF ModeOf, StrictMode, Kept
<1>3. Strict(r)
  BY <1>1 DEF Moves, Strict
<1>4. StrictMoves(q, token, r)
  BY <1>1, <1>2, <1>3 DEF Moves, StrictMoves
<1> QED
  BY <1>4 DEF r

\* Without comments, what Braces counts is code.
LEMMA FlatRead ==
  ASSUME NEW q, Started(q), q.braces = <<>>, NEW text \in Line,
         Without(text, "//"), Without(text, "/*"), Without(text, "*/"),
         NEW t, t = Pass(text, q), ~IsOdd(t)
  PROVE  Braces(text) = t.braces /\ t.mode \in {"code", "string"}
<1> DEFINE Good(s, b) == s.mode \in {"code", "string"} /\ s.braces = b
           R == {p \in Nat \X Readers \X Line :
                   Strict(p[2]) /\ (IsOdd(p[2]) \/ Good(p[2], p[3]))}
<1>1. q \in Readers /\ <<>> \in Line /\ Machine(Passes, Readers) /\ Machine(Bracing, Line)
  <2>1. <<>> \in Line
    BY DEF Line
  <2>2. q \in Readers
    BY DEF Started, Strict, Calm
  <2> QED
    BY <2>1, <2>2, PassIs, BracingIs
<1>2. <<0, q, <<>> >> \in R
  BY <1>1 DEF Started
<1>3. ASSUME NEW i \in 1 .. Len(text), NEW s \in Readers, NEW b \in Line, <<i - 1, s, b>> \in R
      PROVE  <<i, Passes[<<s, text[i]>>], Bracing[<<b, text[i]>>]>> \in R
  <2> DEFINE token == text[i]
             r == Passes[<<s, token>>]
             c == Bracing[<<b, token>>]
  <2>1. Strict(s) /\ (IsOdd(s) \/ Good(s, b))
    BY <1>3
  <2>2. i \in Nat /\ token \in STRING /\ token # "//" /\ token # "/*" /\ token # "*/"
    BY PlaceIs DEF Without
  <2> HIDE DEF token
  <2>3. StrictMoves(s, token, r)
    BY <2>1, <2>2, StrictStep
  <2>4. c = (IF IsBrace(token) THEN Append(b, token) ELSE b) /\ c \in Line
    BY <2>2, BracingIs DEF Machine
  <2> HIDE DEF r, c
  <2>5. Strict(r) /\ r \in Readers
    BY <2>3 DEF StrictMoves, Strict, Calm
  <2>6. IsOdd(s) => IsOdd(r)
    BY <2>3 DEF StrictMoves, StrictMode, IsOdd
  <2>7. CASE s.mode = "code" /\ s.braces = b
    <3>1. r.mode \in {"code", "string"}
      BY <2>2, <2>3, <2>7 DEF StrictMoves, StrictMode
    <3>2. r.braces = c
      BY <2>3, <2>4, <2>7 DEF StrictMoves
    <3> QED
      BY <2>2, <2>4, <2>5, <3>1, <3>2 DEF r, c, token
  <2>8. CASE s.mode = "string" /\ s.braces = b
    <3>1. (r.mode \in {"code", "string"} /\ ~IsBrace(token)) \/ IsOdd(r)
      BY <2>2, <2>3, <2>8 DEF StrictMoves, StrictMode, IsOdd, Quote, IsBrace
    <3>2. ~IsBrace(token) => r.braces = c
      BY <2>3, <2>4, <2>8 DEF StrictMoves
    <3> QED
      BY <2>2, <2>4, <2>5, <3>1, <3>2 DEF r, c, token
  <2>9. CASE IsOdd(s)
    BY <2>2, <2>4, <2>5, <2>6, <2>9 DEF r, c, token
  <2> QED
    BY <2>1, <2>7, <2>8, <2>9
<1>4. Together(Readers, Passes, Line, Bracing, text, R)
  BY <1>3 DEF Together
<1> HIDE DEF R, Good
<1>5. <<Len(text), Folded(Passes, text, q), Folded(Bracing, text, <<>>)>> \in R
  BY <1>1, <1>2, <1>4, FoldBoth
<1>6. Good(Folded(Passes, text, q), Folded(Bracing, text, <<>>))
  BY <1>5 DEF R, Pass
<1> QED
  BY <1>6, BracesFold DEF Good, Pass

\* A mark that ends a comment comes after one that begins it, or the reader
\* gives up.
LEMMA NoEndLeft ==
  ASSUME NEW q, Started(q), NEW text \in Line, Without(text, "//"), PairEnds(text) = {},
         ~IsOdd(Pass(text, q))
  PROVE  Without(text, "*/")
<1> DEFINE Begun(i) == \E k \in 1 .. Len(text) : k <= i /\ text[k] = "/*"
           None(i) == \A k \in 1 .. Len(text) : k <= i => text[k] # "*/"
           P == {p \in Nat \X Readers : Strict(p[2]) /\ p[2].mode # "line" /\
                   (IsOdd(p[2]) \/ (None(p[1]) /\ (p[2].mode \in {"comment", "quoted"} => Begun(p[1]))))}
<1>1. Calm(q) /\ q \in Readers /\ Strict(q) /\ q.mode = "code"
  BY DEF Started, Strict, Calm
<1>2. Len(text) \in Nat
  BY LineLen
<1>3. <<0, q>> \in P
  <2>1. None(0)
    BY <1>2
  <2> QED
    BY <1>1, <2>1
<1>4. ASSUME NEW i \in 1 .. Len(text), NEW s \in Readers, Calm(s), <<i - 1, s>> \in P
      PROVE  <<i, Passes[<<s, text[i]>>]>> \in P
  <2> DEFINE token == text[i]
             r == Passes[<<s, token>>]
  <2>1. /\ Strict(s) /\ s.mode # "line"
        /\ IsOdd(s) \/ (None(i - 1) /\ (s.mode \in {"comment", "quoted"} => Begun(i - 1)))
    BY <1>4
  <2>2. i \in Nat /\ token \in STRING /\ token # "//"
    BY PlaceIs DEF Without
  <2>3. token = "*/" => ~Begun(i - 1)
    <3> SUFFICES ASSUME token = "*/", Begun(i - 1) PROVE FALSE
      OBVIOUS
    <3>1. PICK k \in 1 .. Len(text) : k <= i - 1 /\ text[k] = "/*"
      OBVIOUS
    <3>2. k < i /\ k \in Positions(text, "/*") /\ i \in Positions(text, "*/")
      BY <1>2, <3>1, PlacesAre DEF Positions
    <3>3. i \in PairEnds(text)
      BY <3>2 DEF PairEnds
    <3> QED
      BY <3>3
  <2>4. None(i - 1) /\ token # "*/" => None(i)
    <3> SUFFICES ASSUME None(i - 1), token # "*/", NEW k \in 1 .. Len(text), k <= i
                 PROVE  text[k] # "*/"
      OBVIOUS
    <3>1. k <= i - 1 \/ k = i
      BY <1>2
    <3> QED
      BY <3>1
  <2>5. Begun(i - 1) \/ token = "/*" => Begun(i)
    <3>1. token = "/*" => Begun(i)
      BY <1>2
    <3>2. \A k \in 1 .. Len(text) : k <= i - 1 => k <= i
      BY <1>2
    <3> QED
      BY <3>1, <3>2
  <2> HIDE DEF token, None, Begun
  <2>6. StrictMoves(s, token, r)
    BY <2>1, <2>2, StrictStep
  <2> HIDE DEF r
  <2>7. Strict(r) /\ r \in Readers /\ r.mode = StrictMode(s.mode, token)
    BY <2>6 DEF StrictMoves, Strict, Calm
  <2>8. r.mode # "line"
    BY <2>1, <2>2, <2>7 DEF StrictMode
  <2>9. IsOdd(r) \/ (None(i) /\ (r.mode \in {"comment", "quoted"} => Begun(i)))
    <3> SUFFICES ASSUME ~IsOdd(r) PROVE None(i) /\ (r.mode \in {"comment", "quoted"} => Begun(i))
      OBVIOUS
    <3>1. ~IsOdd(s)
      BY <2>7 DEF StrictMode, IsOdd
    <3>2. s.mode \in {"code", "string", "comment", "quoted"}
      BY <2>1, <3>1 DEF Strict, Calm, Simple, Readers, ReaderModes, IsOdd
    <3>3. token # "*/"
      <4> SUFFICES ASSUME token = "*/" PROVE FALSE
        OBVIOUS
      <4>1. s.mode \notin {"comment", "quoted"}
        BY <2>1, <2>3, <3>1
      <4>2. r.mode = "odd"
        BY <2>7, <3>2, <4>1 DEF StrictMode, Quote
      <4> QED
        BY <4>2 DEF IsOdd
    <3>4. r.mode \in {"comment", "quoted"} => s.mode \in {"comment", "quoted"} \/ token = "/*"
      BY <2>7, <3>2 DEF StrictMode
    <3> QED
      BY <2>1, <2>4, <2>5, <3>1, <3>3, <3>4
  <2> QED
    BY <2>2, <2>7, <2>8, <2>9 DEF r, token
<1> HIDE DEF P
<1>5. <<Len(text), Pass(text, q)>> \in P
  BY <1>1, <1>3, <1>4, PassInduction
<1>6. None(Len(text))
  BY <1>5 DEF P
<1> QED
  BY <1>2, <1>6 DEF Without

\* Without a warning no mark of a comment is left.
LEMMA NoMarkLeft ==
  ASSUME NEW text \in Line, Without(text, "*/"), ~ComplexComment(text)
  PROVE  Without(text, "/*")
<1>1. Positions(text, "*/") = {}
  BY PlacesAre DEF Positions, Without
<1>2. Count(text, "*/") = 0
  BY <1>1, FS_EmptySet DEF Count
<1>3. IsFiniteSet(Positions(text, "/*"))
  BY PositionsAre
<1>4. Count(text, "/*") \in Nat /\ ~(Count(text, "/*") > 0)
  BY <1>2, <1>3, FS_CardinalityType DEF Count, ComplexComment
<1>5. Count(text, "/*") = 0
  BY <1>4
<1>6. Positions(text, "/*") = {}
  BY <1>3, <1>5, FS_EmptySet DEF Count
<1> QED
  BY <1>6, PlacesAre DEF Positions, Without

\* What is read of a line from which all comments are taken.
LEMMA CleanRead ==
  ASSUME NEW q, Started(q), q.braces = <<>>, NEW text \in Line, Without(text, "//"),
         PairEnds(text) = {}, ~ComplexComment(text),
         NEW t, t = Pass(text, q), t.mode \in {"code", "comment"}
  PROVE  t.mode = "code" /\ Braces(text) = t.braces
<1>1. ~IsOdd(t)
  BY DEF IsOdd
<1>2. Without(text, "*/")
  BY <1>1, NoEndLeft
<1>3. Without(text, "/*")
  BY <1>2, NoMarkLeft
<1>4. Braces(text) = t.braces /\ t.mode \in {"code", "string"}
  BY <1>1, <1>2, <1>3, FlatRead
<1> QED
  BY <1>4

LEMMA WithoutJoined ==
  ASSUME NEW a \in Line, NEW b \in Line, NEW token, Without(a, token), Without(b, token)
  PROVE  Without(a \o b, token)
<1> DEFINE m == Len(a)
           n == Len(b)
           c == a \o b
<1>1. /\ Len(c) = m + n /\ m \in Nat /\ n \in Nat
      /\ \A i \in 1 .. m : c[i] = a[i]
      /\ \A i \in 1 .. n : c[m + i] = b[i]
  BY JoinIs
<1> HIDE DEF c, m, n
<1>2. ASSUME NEW k \in 1 .. Len(c) PROVE c[k] # token
  <2>1. k \in 1 .. m \/ (k - m \in 1 .. n /\ m + (k - m) = k)
    BY <1>1
  <2> QED
    BY <1>1, <2>1 DEF Without, m, n
<1> QED
  BY <1>2 DEF Without, c

LEMMA WithoutBefore ==
  ASSUME NEW line \in Line, NEW i \in 1 .. Len(line), NEW token,
         \A k \in 1 .. Len(line) : k < i => line[k] # token
  PROVE  Before(line, i) \in Line /\ Without(Before(line, i), token)
<1> DEFINE a == Before(line, i)
<1>1. a \in Line /\ Len(a) = i - 1 /\ \A k \in 1 .. i - 1 : a[k] = line[k]
  BY BeforeAt
<1> HIDE DEF a
<1>2. ASSUME NEW k \in 1 .. Len(a) PROVE a[k] # token
  <2>1. k \in 1 .. i - 1 /\ k \in 1 .. Len(line) /\ k < i
    BY <1>1, LineLen
  <2> QED
    BY <1>1, <2>1
<1> QED
  BY <1>1, <1>2 DEF a, Without

LEMMA WithoutAfter ==
  ASSUME NEW line \in Line, NEW i \in 0 .. Len(line), NEW token,
         \A k \in 1 .. Len(line) : i < k => line[k] # token
  PROVE  After(line, i) \in Line /\ Without(After(line, i), token)
<1> DEFINE c == After(line, i)
<1>1. c \in Line /\ Len(c) = Len(line) - i /\ \A k \in 1 .. Len(line) - i : c[k] = line[i + k]
  BY AfterAt
<1> HIDE DEF c
<1>2. ASSUME NEW k \in 1 .. Len(c) PROVE c[k] # token
  <2>1. k \in 1 .. Len(line) - i /\ i + k \in 1 .. Len(line) /\ i < i + k
    BY <1>1, LineLen
  <2> QED
    BY <1>1, <2>1
<1> QED
  BY <1>1, <1>2 DEF c, Without

\* A reader that gave up does not come back.
LEMMA CutOdd ==
  ASSUME NEW q, Calm(q), NEW line \in Line, NEW i \in 1 .. Len(line),
         NEW s, s = Pass(Before(line, i), q), NEW r, r = Passes[<<s, line[i]>>],
         ~IsOdd(Pass(line, q))
  PROVE  ~IsOdd(s) /\ ~IsOdd(r)
<1>1. Calm(s) /\ Calm(r) /\ Pass(line, q) = Pass(After(line, i), r)
  BY PassCut
<1>2. After(line, i) \in Line /\ line[i] \in STRING
  BY TokenCut
<1>3. ~IsOdd(r)
  BY <1>1, <1>2, OddPass
<1>4. IsOdd(s) => IsOdd(r)
  BY <1>1, <1>2, OddStep
<1> QED
  BY <1>3, <1>4

\* Text without marks of comments.
LEMMA PlainRead ==
  ASSUME NEW q, Started(q), NEW text \in Line, Without(text, "//"), Without(text, "/*")
  PROVE  Strict(Pass(text, q)) /\ Pass(text, q).mode \in {"code", "string", "odd"}
<1> DEFINE R == {s \in Readers : Strict(s) /\ s.mode \in {"code", "string", "odd"}}
<1>1. q \in R /\ Calm(q)
  BY DEF Started, Strict, Calm
<1>2. ASSUME NEW i \in 1 .. Len(text), NEW s \in Readers, Calm(s), s \in R
      PROVE  Passes[<<s, text[i]>>] \in R
  <2> DEFINE token == text[i]
             r == Passes[<<s, token>>]
  <2>1. Strict(s) /\ s.mode \in {"code", "string", "odd"}
    BY <1>2
  <2>2. token \in STRING /\ token # "//" /\ token # "/*"
    BY PlaceIs DEF Without
  <2> HIDE DEF token
  <2>3. StrictMoves(s, token, r)
    BY <2>1, <2>2, StrictStep
  <2> HIDE DEF r
  <2>4. Strict(r) /\ r \in Readers /\ r.mode = StrictMode(s.mode, token)
    BY <2>3 DEF StrictMoves, Strict, Calm
  <2>5. r.mode \in {"code", "string", "odd"}
    BY <2>1, <2>2, <2>4 DEF StrictMode
  <2> QED
    BY <2>4, <2>5 DEF r, token
<1> HIDE DEF R
<1>3. Pass(text, q) \in R
  BY <1>1, <1>2, PassStays
<1> QED
  BY <1>3 DEF R

\* Text in a comment that does not end.
LEMMA CommentRead ==
  ASSUME NEW q, Strict(q), q.mode = "comment", NEW text \in Line, Without(text, "*/"),
         NEW r, r = Pass(text, q)
  PROVE  Strict(r) /\ r.mode \in {"comment", "quoted", "odd"} /\ r.braces = q.braces
<1> DEFINE R == {s \in Readers : Strict(s) /\ s.mode \in {"comment", "quoted", "odd"} /\ s.braces = q.braces}
<1>1. q \in R /\ Calm(q)
  BY DEF Strict, Calm
<1>2. ASSUME NEW i \in 1 .. Len(text), NEW s \in Readers, Calm(s), s \in R
      PROVE  Passes[<<s, text[i]>>] \in R
  <2> DEFINE token == text[i]
             t == Passes[<<s, token>>]
  <2>1. Strict(s) /\ s.mode \in {"comment", "quoted", "odd"} /\ s.braces = q.braces
    BY <1>2
  <2>2. token \in STRING /\ token # "*/"
    BY PlaceIs DEF Without
  <2> HIDE DEF token
  <2>3. StrictMoves(s, token, t)
    BY <2>1, <2>2, StrictStep
  <2> HIDE DEF t
  <2>4. Strict(t) /\ t \in Readers /\ t.mode = StrictMode(s.mode, token)
    BY <2>3 DEF StrictMoves, Strict, Calm
  <2>5. t.mode \in {"comment", "quoted", "odd"}
    BY <2>1, <2>2, <2>4 DEF StrictMode
  <2>6. t.braces = q.braces
    BY <2>1, <2>3 DEF StrictMoves
  <2> QED
    BY <2>4, <2>5, <2>6 DEF t, token
<1> HIDE DEF R
<1>3. Pass(text, q) \in R
  BY <1>1, <1>2, PassStays
<1> QED
  BY <1>3 DEF R

LEMMA CommentSteps ==
  ASSUME NEW q, Strict(q), NEW token \in STRING, NEW r, r = Passes[<<q, token>>], ~IsOdd(r)
  PROVE  /\ Strict(r)
         /\ (token = "/*" /\ q.mode \in {"code", "string"} =>
               q.mode = "code" /\ r.mode = "comment" /\ r.braces = q.braces)
         /\ (token = "*/" /\ q.mode \in {"comment", "quoted"} =>
               r.mode = "code" /\ r.braces = q.braces)
<1>1. StrictMoves(q, token, r)
  BY StrictStep
<1>2. token \in {"/*", "*/"} => ~IsBrace(token) /\ token # Quote
  BY DEF IsBrace, Quote
<1>3. r.mode = StrictMode(q.mode, token)
  BY <1>1 DEF StrictMoves
<1>4. token = "/*" /\ q.mode \in {"code", "string"} =>
        q.mode = "code" /\ r.mode = "comment"
  BY <1>2, <1>3 DEF StrictMode, IsOdd
<1>5. token = "*/" /\ q.mode \in {"comment", "quoted"} => r.mode = "code"
  BY <1>2, <1>3 DEF StrictMode, IsOdd
<1> QED
  BY <1>1, <1>2, <1>4, <1>5 DEF StrictMoves

LEMMA SameStarted ==
  ASSUME NEW q, Started(q), NEW r, Strict(r), r.mode = "code", r.braces = q.braces
  PROVE  r = q
<1>1. /\ q \in Readers /\ q.last = "" /\ q.names = TRUE /\ q.mode = "code"
      /\ r \in Readers /\ r.last = "" /\ r.names = TRUE /\ r.mode = "code"
  BY DEF Started, Strict, Calm
<1> QED
  BY <1>1, SameReader

\* The first comment of a line: no mark before it that begins one, none in it
\* that ends one.
LEMMA FirstPair ==
  ASSUME NEW line \in Line, PairEnds(line) # {},
         NEW i, i = Min(Positions(line, "/*")), NEW j, j = Min(PairEnds(line))
  PROVE  /\ i \in 1 .. Len(line) /\ j \in 1 .. Len(line) /\ i < j
         /\ line[i] = "/*" /\ line[j] = "*/"
         /\ \A k \in 1 .. Len(line) : k < i => line[k] # "/*"
         /\ \A k \in 1 .. Len(line) : i < k /\ k < j => line[k] # "*/"
<1> DEFINE S == Positions(line, "/*")
           E == PairEnds(line)
<1>1. S \in SUBSET (1 .. Len(line)) /\ E \in SUBSET (1 .. Len(line)) /\ Len(line) \in Nat
  BY PositionsAre, LineLen DEF PairEnds
<1>2. i \in 1 .. Len(line) /\ j \in 1 .. Len(line) /\ i < j
  BY PairIs
<1>3. \A k \in 1 .. Len(line) : line[k] = "/*" <=> k \in S
  BY PlacesAre DEF Positions
<1>4. ASSUME NEW k \in 1 .. Len(line) PROVE k \in E <=> line[k] = "*/" /\ \E s \in S : s < k
  <2>1. k \in Positions(line, "*/") <=> line[k] = "*/"
    BY PlacesAre DEF Positions
  <2> QED
    BY <2>1 DEF PairEnds
<1>5. S # {}
  BY DEF PairEnds
<1> HIDE DEF S, E
<1>6. i = Min(S) /\ j = Min(E) /\ E # {}
  BY DEF S, E
<1>7. i \in S /\ \A k \in S : i <= k
  <2>1. S \in SUBSET Nat
    BY <1>1
  <2> QED
    BY <1>5, <1>6, <2>1, MinOf
<1>8. j \in E /\ \A k \in E : j <= k
  <2>1. E \in SUBSET Nat
    BY <1>1
  <2> QED
    BY <1>6, <2>1, MinOf
<1>9. ASSUME NEW k \in 1 .. Len(line), k < i PROVE line[k] # "/*"
  <2> SUFFICES ASSUME k \in S PROVE FALSE
    BY <1>3
  <2>1. i <= k
    BY <1>7
  <2> QED
    BY <1>2, <1>9, <2>1
<1>10. ASSUME NEW k \in 1 .. Len(line), i < k, k < j PROVE line[k] # "*/"
  <2> SUFFICES ASSUME line[k] = "*/" PROVE FALSE
    OBVIOUS
  <2>1. k \in E
    BY <1>4, <1>7, <1>10
  <2>2. j <= k
    BY <1>8, <2>1
  <2> QED
    BY <1>2, <1>10, <2>2
<1> QED
  BY <1>2, <1>3, <1>4, <1>7, <1>8, <1>9, <1>10

\* Taking a comment out of a line changes nothing for the reader.
LEMMA WithoutFirstRead ==
  ASSUME NEW q, Started(q), NEW line \in Line, PairEnds(line) # {}, Without(line, "//"),
         ~IsOdd(Pass(line, q))
  PROVE  Pass(WithoutFirst(line), q) = Pass(line, q) /\ Without(WithoutFirst(line), "//")
<1> DEFINE i == Min(Positions(line, "/*"))
           j == Min(PairEnds(line))
           a == Before(line, i)
           rest == After(line, i)
           m == j - i
           mid == Before(rest, m)
           c == After(line, j)
           s == Pass(a, q)
           r == Passes[<<s, line[i]>>]
           u == Pass(mid, r)
           v == Passes[<<u, rest[m]>>]
<1>0. Calm(q) /\ Len(line) \in Nat
  BY LineLen DEF Started, Strict
<1>1. /\ i \in 1 .. Len(line) /\ j \in 1 .. Len(line) /\ i < j
      /\ line[i] = "/*" /\ line[j] = "*/"
      /\ \A k \in 1 .. Len(line) : k < i => line[k] # "/*"
      /\ \A k \in 1 .. Len(line) : i < k /\ k < j => line[k] # "*/"
  BY FirstPair
<1>2. WithoutFirst(line) = a \o c
  BY DEF WithoutFirst
<1> HIDE DEF i, j
<1>3. a \in Line /\ Without(a, "/*") /\ Without(a, "//")
  <2>1. \A k \in 1 .. Len(line) : k < i => line[k] # "//"
    BY DEF Without
  <2>2. a \in Line /\ Without(a, "//")
    BY <1>1, <2>1, WithoutBefore
  <2>3. Without(a, "/*")
    BY <1>1, WithoutBefore
  <2> QED
    BY <2>2, <2>3
<1>4. /\ i \in 0 .. Len(line) /\ j \in 0 .. Len(line) /\ m \in 0 .. Len(line) - i
      /\ m \in 1 .. Len(line) - i /\ i + m = j
  BY <1>0, <1>1
<1>5. c \in Line /\ Without(c, "//")
  <2>1. \A k \in 1 .. Len(line) : j < k => line[k] # "//"
    BY DEF Without
  <2> QED
    BY <1>4, <2>1, WithoutAfter
<1>6. Without(a \o c, "//") /\ a \o c \in Line
  <2> HIDE DEF a, c
  <2> QED
    BY <1>3, <1>5, WithoutJoined, Joined
<1>7. /\ rest \in Line /\ Len(rest) = Len(line) - i
      /\ \A k \in 1 .. Len(line) - i : rest[k] = line[i + k]
      /\ After(rest, m) = c
  BY <1>4, AfterAt, AfterTwice
<1>8. Calm(s) /\ Calm(r) /\ Pass(line, q) = Pass(rest, r) /\ ~IsOdd(s) /\ ~IsOdd(r)
  BY <1>0, <1>1, PassCut, CutOdd
<1>9. Strict(s) /\ s.mode \in {"code", "string", "odd"}
  BY <1>3, PlainRead
<1>10. line[i] \in STRING
  BY <1>1, PlaceIs
<1> HIDE DEF s, rest, m, c
<1>11. Started(s) /\ Strict(r) /\ r.mode = "comment" /\ r.braces = s.braces
  <2>1. s.mode \in {"code", "string"}
    BY <1>8, <1>9 DEF IsOdd
  <2> QED
    BY <1>1, <1>8, <1>9, <1>10, <2>1, CommentSteps DEF Started
<1> HIDE DEF r
<1>12. m \in 1 .. Len(rest) /\ rest[m] = "*/" /\ rest[m] \in STRING
  <2>1. m \in 1 .. Len(rest) /\ rest[m] = "*/"
    BY <1>1, <1>4, <1>7
  <2> QED
    BY <1>7, <2>1, PlaceIs
<1>13. mid \in Line /\ Without(mid, "*/")
  <2>1. ASSUME NEW k \in 1 .. Len(rest), k < m PROVE rest[k] # "*/"
    <3>1. k \in 1 .. Len(line) - i /\ i + k \in 1 .. Len(line) /\ i < i + k /\ i + k < j
      BY <1>0, <1>1, <1>4, <1>7, <2>1
    <3> QED
      BY <1>1, <1>7, <3>1
  <2> QED
    BY <1>7, <1>12, <2>1, WithoutBefore
<1>14. Calm(u) /\ Calm(v) /\ Pass(rest, r) = Pass(c, v) /\ ~IsOdd(u) /\ ~IsOdd(v)
  BY <1>7, <1>8, <1>12, PassCut, CutOdd
<1>15. Strict(u) /\ u.mode \in {"comment", "quoted"} /\ u.braces = r.braces
  <2>1. Strict(u) /\ u.mode \in {"comment", "quoted", "odd"} /\ u.braces = r.braces
    BY <1>11, <1>13, CommentRead
  <2> QED
    BY <1>14, <2>1 DEF IsOdd
<1> HIDE DEF u
<1>16. Strict(v) /\ v.mode = "code" /\ v.braces = u.braces
  BY <1>12, <1>14, <1>15, CommentSteps
<1>17. v = s
  BY <1>11, <1>15, <1>16, SameStarted
<1>18. Pass(line, q) = Pass(c, s)
  BY <1>8, <1>14, <1>17
<1>19. Pass(a \o c, q) = Pass(c, Pass(a, q))
  <2> HIDE DEF a
  <2> QED
    BY <1>0, <1>3, <1>5, PassJoined
<1> QED
  BY <1>2, <1>6, <1>18, <1>19 DEF s

\* RemoveComments: no pair of marks is left, and the line is read as before.
CommentsGone(e, line, q) ==
    /\ e \in Line /\ PairEnds(e) = {} /\ Without(e, "//") /\ Pass(e, q) = Pass(line, q)

LEMMA RemoveCommentsRead ==
  ASSUME NEW q, Started(q)
  PROVE  \A line \in Line : Without(line, "//") /\ ~IsOdd(Pass(line, q)) =>
           CommentsGone(RemoveComments[line], line, q)
<1> DEFINE size == [x \in Line |-> Len(x)]
           P == {x \in Line : Without(x, "//") /\ ~IsOdd(Pass(x, q)) =>
                   CommentsGone(RemoveComments[x], x, q)}
<1>1. size \in [Line -> Nat] /\ \A x \in Line : size[x] = Len(x)
  BY LineLen
<1> HIDE DEF size
<1>2. ASSUME NEW x \in Line, \A y \in Line : size[y] < size[x] => y \in P,
             Without(x, "//"), ~IsOdd(Pass(x, q))
      PROVE  CommentsGone(RemoveComments[x], x, q)
  <2>1. CASE PairEnds(x) = {}
    BY <1>2, <2>1, RemoveCommentsExists DEF CommentsGone
  <2>2. CASE PairEnds(x) # {}
    <3> DEFINE y == WithoutFirst(x)
    <3>1. y \in Line /\ Len(y) < Len(x) /\ RemoveComments[x] = RemoveComments[y]
      BY <2>2, WithoutFirstIs, RemoveCommentsExists
    <3>2. Pass(y, q) = Pass(x, q) /\ Without(y, "//")
      BY <1>2, <2>2, WithoutFirstRead
    <3> HIDE DEF y
    <3>3. y \in P
      BY <1>1, <1>2, <3>1
    <3>4. CommentsGone(RemoveComments[y], y, q)
      BY <1>2, <3>2, <3>3
    <3> QED
      BY <3>1, <3>2, <3>4 DEF CommentsGone
  <2> QED
    BY <2>1, <2>2
<1>3. \A x \in Line : (\A y \in Line : size[y] < size[x] => y \in P) => x \in P
  BY <1>2
<1> HIDE DEF P
<1>4. Line \subseteq P
  BY <1>1, <1>3, Induction
<1> QED
  BY <1>4 DEF P

LEMMA OddNumbers == \A n \in Nat : ((n + 1) % 2 = 1) <=> ~(n % 2 = 1)
OBVIOUS

\* In a string or not: the reader and the number of quotes agree.
LEMMA QuotesCounted ==
  ASSUME NEW q, Started(q), NEW text \in Line, Without(text, "//"),
         NEW t, t = Pass(text, q), ~IsOdd(t)
  PROVE  t.mode \in IF IsCppString(text) THEN {"string", "quoted"} ELSE {"code", "comment"}
<1> DEFINE Q(i) == {k \in 1 .. i : text[k] = Quote}
           InString(s) == s.mode \in {"string", "quoted"}
           P == {p \in Nat \X Readers : Strict(p[2]) /\ p[2].mode # "line" /\
                   (IsOdd(p[2]) \/ (InString(p[2]) <=> Cardinality(Q(p[1])) % 2 = 1))}
<1>1. Calm(q) /\ q \in Readers /\ Strict(q) /\ q.mode = "code"
  BY DEF Started, Strict, Calm
<1>2. \A i \in Nat : IsFiniteSet(Q(i)) /\ Cardinality(Q(i)) \in Nat
  <2> TAKE i \in Nat
  <2>1. IsFiniteSet(1 .. i) /\ Q(i) \subseteq 1 .. i
    BY FS_Interval
  <2> HIDE DEF Q
  <2> QED
    BY <2>1, FS_Subset, FS_CardinalityType
<1>3. Q(0) = {}
  OBVIOUS
<1>4. Cardinality(Q(0)) % 2 = 0
  <2>1. Cardinality(Q(0)) = 0
    BY <1>3, FS_EmptySet
  <2> QED
    BY <2>1
<1>5. <<0, q>> \in P
  <2>1. ~InString(q)
    BY <1>1
  <2> HIDE DEF Q
  <2> QED
    BY <1>1, <1>4, <2>1
<1>6. ASSUME NEW i \in 1 .. Len(text), NEW s \in Readers, Calm(s), <<i - 1, s>> \in P
      PROVE  <<i, Passes[<<s, text[i]>>]>> \in P
  <2> DEFINE token == text[i]
             r == Passes[<<s, token>>]
             n == Cardinality(Q(i - 1))
  <2>1. /\ Strict(s) /\ s.mode # "line"
        /\ IsOdd(s) \/ (InString(s) <=> n % 2 = 1)
    BY <1>6
  <2>2. i \in Nat /\ i - 1 \in Nat /\ token \in STRING /\ token # "//"
    BY PlaceIs DEF Without
  <2>3. IsFiniteSet(Q(i - 1)) /\ n \in Nat
    BY <1>2, <2>2
  <2>4. token # Quote => Q(i) = Q(i - 1)
    BY <2>2
  <2>5. token = Quote => Q(i) = Q(i - 1) \cup {i} /\ i \notin Q(i - 1)
    BY <2>2
  <2> HIDE DEF Q, token
  <2>6. token # Quote => Cardinality(Q(i)) = n
    BY <2>4
  <2>7. token = Quote => Cardinality(Q(i)) = n + 1
    BY <2>3, <2>5, FS_AddElement
  <2> HIDE DEF n
  <2>8. StrictMoves(s, token, r)
    BY <2>1, <2>2, StrictStep
  <2> HIDE DEF r
  <2>9. Strict(r) /\ r \in Readers /\ r.mode = StrictMode(s.mode, token)
    BY <2>8 DEF StrictMoves, Strict, Calm
  <2>10. r.mode # "line"
    BY <2>1, <2>2, <2>9 DEF StrictMode
  <2>11. IsOdd(r) \/ (token = Quote /\ (InString(r) <=> ~InString(s)) /\ ~IsOdd(s))
           \/ (token # Quote /\ (InString(r) <=> InString(s)) /\ ~IsOdd(s))
    <3>1. s.mode \in {"code", "string", "comment", "quoted", "odd"}
      BY <2>1 DEF Strict, Calm, Simple, Readers, ReaderModes
    <3>2. CASE token = Quote
      <4>1. token # "*/"
        BY <3>2 DEF Quote
      <4> QED
        BY <2>9, <3>1, <3>2, <4>1 DEF StrictMode, IsOdd
    <3>3. CASE token # Quote
      BY <2>2, <2>9, <3>1, <3>3 DEF StrictMode, IsOdd
    <3> QED
      BY <3>2, <3>3
  <2> HIDE DEF InString
  <2>12. token = Quote => ((Cardinality(Q(i)) % 2 = 1) <=> ~(n % 2 = 1))
    BY <2>3, <2>7, OddNumbers DEF n
  <2>13. token # Quote => ((Cardinality(Q(i)) % 2 = 1) <=> (n % 2 = 1))
    BY <2>6
  <2>14. IsOdd(r) \/ (InString(r) <=> Cardinality(Q(i)) % 2 = 1)
    BY <2>1, <2>11, <2>12, <2>13
  <2> QED
    BY <2>2, <2>9, <2>10, <2>14 DEF r, token
<1> HIDE DEF P
<1>7. <<Len(text), Pass(text, q)>> \in P
  BY <1>1, <1>5, <1>6, PassInduction
<1>8. Count(text, Quote) = Cardinality(Q(Len(text)))
  BY PlacesAre DEF Count, Positions
<1> HIDE DEF Q
<1>9. /\ Strict(t) /\ t.mode # "line"
      /\ InString(t) <=> Cardinality(Q(Len(text))) % 2 = 1
  BY <1>7 DEF P
<1>10. InString(t) <=> IsCppString(text)
  BY <1>8, <1>9 DEF IsCppString
<1>11. t.mode \in {"code", "string", "comment", "quoted"}
  BY <1>9 DEF Strict, Calm, Simple, Readers, ReaderModes, IsOdd
<1> QED
  BY <1>10, <1>11

\* What CleanseComments cuts off: what comes after the first mark that is not
\* in a string.
Cut(line) ==
    LET marks == Positions(line, "//")
    IN IF marks # {} /\ ~IsCppString(Before(line, Min(marks)))
         THEN Before(line, Min(marks)) ELSE line

LEMMA CutRead ==
  ASSUME NEW q, Started(q), NEW line \in Line, NEW t, t = Pass(line, q), EndsWell(t),
         NEW d, d = Cut(line)
  PROVE  /\ d \in Line /\ Without(d, "//") /\ Pass(d, q).mode \in {"code", "comment"}
         /\ (Pass(d, q).mode = "code" => Pass(d, q).braces = t.braces)
<1> DEFINE marks == Positions(line, "//")
           i == Min(marks)
           a == Before(line, i)
           s == Pass(a, q)
           r == Passes[<<s, line[i]>>]
<1>0. ~IsOdd(t) /\ Calm(q) /\ Len(line) \in Nat
  BY NotWell, LineLen DEF Started, Strict
<1>1. CASE marks = {}
  <2>1. d = line /\ Without(line, "//")
    BY <1>1, PlacesAre DEF Cut, Positions, Without
  <2>2. t.mode \in {"string", "quoted", "code", "comment"}
    BY <1>0, <2>1, QuotesCounted
  <2> QED
    BY <2>1, <2>2 DEF EndsWell
<1>2. CASE marks # {}
  <2>1. marks \in SUBSET (1 .. Len(line))
    BY PositionsAre
  <2>2. i \in marks /\ \A k \in marks : i <= k
    <3>1. marks \in SUBSET Nat
      BY <2>1
    <3> HIDE DEF marks
    <3> QED
      BY <1>2, <3>1, MinOf
  <2>3. d = IF IsCppString(a) THEN line ELSE a
    BY <1>2 DEF Cut
  <2>4. \A k \in 1 .. Len(line) : line[k] = "//" <=> k \in marks
    BY PlacesAre DEF Positions
  <2> HIDE DEF marks, i
  <2>5. i \in 1 .. Len(line) /\ line[i] = "//" /\ line[i] \in STRING
    <3>1. i \in 1 .. Len(line) /\ line[i] = "//"
      BY <2>1, <2>2, <2>4
    <3> QED
      BY <3>1, PlaceIs
  <2>6. \A k \in 1 .. Len(line) : k < i => line[k] # "//"
    <3> SUFFICES ASSUME NEW k \in 1 .. Len(line), k < i, k \in marks PROVE FALSE
      BY <2>4
    <3>1. i <= k
      BY <2>2
    <3> QED
      BY <2>5, <3>1
  <2>7. a \in Line /\ Without(a, "//")
    BY <2>5, <2>6, WithoutBefore
  <2>8. Calm(s) /\ Calm(r) /\ t = Pass(After(line, i), r) /\ ~IsOdd(s) /\ ~IsOdd(r)
    BY <1>0, <2>5, PassCut, CutOdd
  <2>9. s.mode \in IF IsCppString(a) THEN {"string", "quoted"} ELSE {"code", "comment"}
    <3> HIDE DEF a
    <3> QED
      BY <2>7, <2>8, QuotesCounted
  <2>10. Strict(s)
    <3>1. Strict(q)
      BY DEF Started
    <3> DEFINE R == {x \in Readers : Strict(x)}
    <3>2. q \in R
      BY <3>1 DEF Strict, Calm
    <3>3. ASSUME NEW k \in 1 .. Len(a), NEW x \in Readers, Calm(x), x \in R
          PROVE  Passes[<<x, a[k]>>] \in R
      <4>1. Strict(x) /\ a[k] \in STRING
        BY <2>7, <3>3, PlaceIs
      <4>2. Strict(Passes[<<x, a[k]>>])
        BY <4>1, StrictStep DEF StrictMoves
      <4> QED
        BY <4>2 DEF Strict, Calm
    <3> HIDE DEF R
    <3>4. Pass(a, q) \in R
      <4> HIDE DEF a
      <4> QED
        BY <1>0, <2>7, <3>2, <3>3, PassStays DEF a
    <3> QED
      BY <3>4 DEF R
  <2> HIDE DEF s
  <2>11. StrictMoves(s, line[i], r)
    BY <2>5, <2>10, StrictStep
  <2> HIDE DEF r
  <2>12. ~IsCppString(a)
    <3> SUFFICES ASSUME s.mode \in {"string", "quoted"} PROVE FALSE
      BY <2>9
    <3>1. r.mode = "odd"
      BY <2>5, <2>11 DEF StrictMoves, StrictMode, Quote
    <3> QED
      BY <2>8, <3>1 DEF IsOdd
  <2>13. d = a /\ s.mode \in {"code", "comment"}
    BY <2>3, <2>9, <2>12
  <2>14. s.mode = "code" => s.braces = t.braces
    <3> SUFFICES ASSUME s.mode = "code" PROVE s.braces = t.braces
      OBVIOUS
    <3>1. r.mode = "line"
      BY <2>5, <2>11 DEF StrictMoves, StrictMode, Quote
    <3>2. r.braces = s.braces
      BY <2>5, <2>11 DEF StrictMoves, IsBrace
    <3>3. After(line, i) \in Line
      BY <2>5, TokenCut
    <3>4. Pass(After(line, i), r) = r
      BY <2>8, <3>1, <3>3, LinePass
    <3> QED
      BY <2>8, <3>2, <3>4
  <2> QED
    BY <2>7, <2>13, <2>14 DEF s
<1> QED
  BY <1>1, <1>2

\* CleanseComments leaves the braces that are code.
LEMMA CleanseRead ==
  ASSUME NEW q, Started(q), q.braces = <<>>, NEW line \in Line, EndsWell(Pass(line, q)),
         ~ComplexComment(CleanseComments(line))
  PROVE  Braces(CleanseComments(line)) = Pass(line, q).braces
<1> DEFINE t == Pass(line, q)
           d == Cut(line)
           e == RemoveComments[d]
<1>1. CleanseComments(line) = e
  BY DEF CleanseComments, Cut
<1>2. /\ d \in Line /\ Without(d, "//") /\ Pass(d, q).mode \in {"code", "comment"}
      /\ (Pass(d, q).mode = "code" => Pass(d, q).braces = t.braces)
  BY CutRead
<1> HIDE DEF d
<1>3. ~IsOdd(Pass(d, q))
  BY <1>2 DEF IsOdd
<1>4. CommentsGone(e, d, q)
  BY <1>2, <1>3, RemoveCommentsRead
<1> HIDE DEF e
<1>5. e \in Line /\ PairEnds(e) = {} /\ Without(e, "//") /\ Pass(e, q) = Pass(d, q)
  BY <1>4 DEF CommentsGone
<1>6. Pass(e, q).mode = "code" /\ Braces(e) = Pass(e, q).braces
  BY <1>1, <1>2, <1>5, CleanRead
<1> QED
  BY <1>1, <1>2, <1>5, <1>6

\* What is left of a line without raw strings has just its braces that are code.
LEMMA ElidedRead ==
  ASSUME NEW q, InCodeNow(q), q.braces = <<>>, NEW line \in Line, EndsWell(Pass(line, q)),
         NEW e, e = CleanseComments(CollapseStrings(line)), ~ComplexComment(e)
  PROVE  Braces(e) = Pass(line, q).braces
<1> DEFINE w == Named(q)
           c == CollapseStrings(line)
<1>1. Started(w) /\ w.braces = <<>>
  BY NamedIs DEF InCodeNow, IsNamed, Started, Strict
<1>2. EndsWell(Pass(c, w)) /\ Pass(c, w).braces = Pass(line, q).braces
  BY CollapseStringsRead
<1>3. c \in Line
  BY CollapseStringsIs
<1> HIDE DEF w, c
<1> QED
  BY <1>1, <1>2, <1>3, CleanseRead DEF c

-----------------------------------------------------------------------------
(* A line                                                                    *)

LEMMA ReaderIs ==
  ASSUME NEW mode \in ReaderModes
  PROVE  /\ Reader(mode) \in Readers /\ Reader(mode).mode = mode
         /\ Reader(mode).last = "" /\ Reader(mode).braces = <<>>
<1>1. <<>> \in Line
  BY DEF Line
<1> QED
  BY <1>1 DEF Reader, Readers

LEMMA ReadTokensFold ==
  ASSUME NEW q \in Readers, NEW text \in Line
  PROVE  ReadTokens(q, text) = ReadOn(text, q)
<1> DEFINE n == Len(text)
           Solves(f) == f = [i \in 0 .. n |-> IF i = 0 THEN q ELSE ReadToken(f[i-1], text[i])]
           g == CHOOSE h : Solves(h)
<1>1. Machine(Reads, Readers) /\ n \in Nat
  BY ReadIs, LineLen
<1>2. PICK f \in [0 .. n -> Readers] :
        Tracks(f, Reads, text, q) /\ Folded(Reads, text, q) = f[n]
  BY <1>1, FoldSteps
<1>3. ReadTokens(q, text) = g[n]
  BY DEF ReadTokens, g, n
<1> HIDE DEF n
<1>4. f[0] = q /\ \A i \in 1 .. n : f[i] = Reads[<<f[i-1], text[i]>>]
  BY <1>2 DEF Tracks, n
<1>5. ASSUME NEW i \in 1 .. n PROVE f[i] = ReadToken(f[i-1], text[i])
  <2>1. i - 1 \in 0 .. n /\ text[i] \in STRING
    BY <1>1, PlaceIs DEF n
  <2>2. f[i-1] \in Readers
    BY <1>2, <2>1
  <2> QED
    BY <1>4, <2>1, <2>2, ReadIs
<1>6. Solves(g)
  <2>1. \A i \in 0 .. n : i = 0 \/ i \in 1 .. n
    BY <1>1
  <2>2. \A i \in 0 .. n : f[i] = IF i = 0 THEN q ELSE ReadToken(f[i-1], text[i])
    BY <1>4, <1>5, <2>1
  <2>3. Solves(f)
    BY <1>2, <2>2
  <2> HIDE DEF Solves
  <2> QED
    BY <2>3
<1> HIDE DEF g
<1>7. \A i \in 0 .. n : g[i] = IF i = 0 THEN q ELSE ReadToken(g[i-1], text[i])
  BY <1>6
<1> DEFINE P == {i \in 0 .. n : f[i] = g[i]}
<1>8. 0 \in P
  BY <1>1, <1>4, <1>7
<1>9. ASSUME NEW i \in 1 .. n, i - 1 \in P PROVE i \in P
  <2>1. i \in 0 .. n /\ i # 0 /\ f[i-1] = g[i-1]
    BY <1>1, <1>9
  <2>2. g[i] = ReadToken(g[i-1], text[i])
    BY <1>7, <2>1
  <2> QED
    BY <1>5, <2>1, <2>2
<1> HIDE DEF P
<1>10. 0 .. n \subseteq P
  BY <1>1, <1>8, <1>9, CountInduction
<1>11. n \in P
  BY <1>1, <1>10
<1> QED
  BY <1>2, <1>3, <1>11 DEF P, n, ReadOn

LEMMA ReadLineIs ==
  ASSUME NEW mode \in ReaderModes, NEW text \in Line
  PROVE  ReadLine(mode, text) = ReadOn(text, Reader(mode)) /\ ReadLine(mode, text) \in Readers
BY ReaderIs, ReadTokensFold, ReadType DEF ReadLine

\* What the passes make of a line that is none of a comment's.
LineRight(line, mode, r) ==
    LET e == CleanseComments(CollapseStrings(r.line))
    IN /\ NextMode(mode, line) \in {"code", "raw"}
       /\ (r.open <=> NextMode(mode, line) = "raw")
       /\ (~ComplexComment(e) => Braces(e) = ReadLine(mode, line).braces)

LEMMA LineReads ==
  ASSUME NEW line \in Line, NEW mode \in {"code", "raw"}, ~OpensComment(line),
         NextMode(mode, line) # "odd", NEW open, open <=> mode = "raw"
  PROVE  LineRight(line, mode, CleanseRawLine(line, open))
<1> DEFINE q == Reader(mode)
           t == ReadOn(line, q)
           r == CleanseRawLine(line, open)
           c == At(q, "code")
           e == CleanseComments(CollapseStrings(r.line))
           next == NextMode(mode, line)
<1>1. mode \in ReaderModes
  BY DEF ReaderModes
<1>2. q \in Readers /\ q.mode = mode /\ q.last = "" /\ q.braces = <<>>
  BY <1>1, ReaderIs
<1>3. ReadLine(mode, line) = t /\ t \in Readers
  BY <1>1, ReadLineIs
<1> HIDE DEF q
<1>4. OnLine(t)
  BY <1>2, StaysOnLine DEF OnLine
<1> HIDE DEF t
<1>5. ~OddLine(mode, line)
  BY DEF NextMode
<1>6. t.mode \notin {"string", "comment", "quoted"}
  BY <1>3, <1>5 DEF OddLine
<1>7. t.mode = "raw" => OneOpener(line)
  BY <1>3, <1>5 DEF OddLine, OneOpener
<1>8. next = IF t.mode \in {"line", "after"} THEN "code" ELSE t.mode
  BY <1>3, <1>5, <1>6 DEF NextMode
<1>9. t.mode \in {"code", "line", "raw"}
  <2>1. t.mode # "odd"
    BY <1>8
  <2>2. t.mode \in ReaderModes
    BY <1>3 DEF Readers
  <2> QED
    BY <1>4, <1>6, <2>1, <2>2 DEF ReaderModes, OnLine
<1>10. next \in {"code", "raw"} /\ (next = "raw" <=> IsRaw(t))
  BY <1>8, <1>9 DEF IsRaw
<1>11. RawRight(r, t, q)
  <2>1. Fresh(q) /\ (open <=> IsRaw(q))
    BY <1>2 DEF Fresh, IsRaw
  <2>2. t = ReadOn(line, q) /\ ~IsOdd(t) /\ (IsRaw(t) => OneOpener(line))
    BY <1>7, <1>9 DEF t, IsOdd, IsRaw
  <2> QED
    BY <2>1, <2>2, RawLineRead
<1> HIDE DEF r
<1>12. r.line \in Line /\ RawOpeners(r.line) = {} /\ (r.open <=> IsRaw(t)) /\ ReadOn(r.line, c) = Settled(t)
  BY <1>11 DEF RawRight
<1>13. c \in Readers /\ c.mode = "code" /\ c.last = "" /\ c.braces = <<>>
  <2>1. "code" \in ReaderModes
    BY DEF ReaderModes
  <2> QED
    BY <1>2, <2>1, AtType
<1>14. Settled(t) \in Readers /\ Settled(t).braces = t.braces /\ Settled(t).mode \in {"code", "line"}
  <2>1. "code" \in ReaderModes
    BY DEF ReaderModes
  <2>2. At(t, "code") \in Readers /\ At(t, "code").braces = t.braces /\ At(t, "code").mode = "code"
    BY <1>3, <2>1, AtType
  <2> QED
    BY <1>3, <1>9, <2>2 DEF Settled, IsRaw
<1>15. Pass(r.line, c) = Forget(Settled(t))
  <2> HIDE DEF c
  <2>1. Simple(c)
    BY <1>13 DEF Simple
  <2>2. Forget(c) = c
    BY <1>13, ForgetIs, SameReader
  <2> QED
    BY <1>12, <1>13, <2>1, <2>2, NoRawRead
<1>16. Pass(r.line, c).braces = t.braces /\ EndsWell(Pass(r.line, c))
  BY <1>14, <1>15, ForgetIs DEF EndsWell
<1>17. ~ComplexComment(e) => Braces(e) = t.braces
  <2> HIDE DEF c
  <2>1. InCodeNow(c)
    BY <1>13 DEF InCodeNow, Calm, Simple
  <2> QED
    BY <1>12, <1>13, <1>16, <2>1, ElidedRead
<1> QED
  BY <1>3, <1>10, <1>12, <1>17 DEF LineRight, r

-----------------------------------------------------------------------------
(* Comments of several lines                                                 *)

\* Outside of code there are no braces.
LEMMA NoBraces ==
  ASSUME NEW q \in Readers, q.mode # "code", NEW token \in STRING
  PROVE  /\ Reads[<<q, token>>] \in Readers
         /\ Reads[<<q, token>>].braces = q.braces
         /\ Reads[<<q, token>>].mode = ModeAfter(q, token)
<1>1. ReadToken(q, token) \in Readers /\ Reads[<<q, token>>] = ReadToken(q, token)
  BY ReadAt
<1> QED
  BY <1>1 DEF ReadToken

\* A line that begins in a comment: it goes on, or it ends where the line ends.
LEMMA BlockRead ==
  ASSUME NEW line \in Line, NEW t, t = ReadLine("block", line), t.mode # "odd"
  PROVE  /\ t.braces = <<>> /\ t.mode \in {"block", "after"}
         /\ (t.mode = "after" <=> ClosesComment(line))
<1> DEFINE q == Reader("block")
           n == Len(line)
           Going(i, s) == s.mode = "block" /\ \A k \in 1 .. n : k <= i => line[k] # "*/"
           Gone(i, s) == s.mode = "after" /\ i # 0 /\ line[i] = "*/"
           P == {p \in (0 .. n) \X Readers : p[2].braces = <<>> /\
                   (p[2].mode = "odd" \/ Going(p[1], p[2]) \/ Gone(p[1], p[2]))}
<1>1. q \in Readers /\ q.mode = "block" /\ q.braces = <<>> /\ t = ReadOn(line, q)
  <2>1. "block" \in ReaderModes
    BY DEF ReaderModes
  <2> QED
    BY <2>1, ReaderIs, ReadLineIs
<1> HIDE DEF q
<1>2. n \in Nat
  BY LineLen
<1>3. <<0, q>> \in P
  BY <1>1, <1>2
<1>4. ASSUME NEW i \in 1 .. n, NEW s \in Readers, <<i - 1, s>> \in P
      PROVE  <<i, Reads[<<s, line[i]>>]>> \in P
  <2> DEFINE token == line[i]
             r == Reads[<<s, token>>]
  <2>1. s.braces = <<>> /\ (s.mode = "odd" \/ Going(i - 1, s) \/ Gone(i - 1, s))
    BY <1>4
  <2>2. s.mode \in {"block", "after", "odd"}
    BY <2>1
  <2>3. token \in STRING /\ i \in 0 .. n /\ i # 0
    BY <1>2, PlaceIs
  <2>4. r \in Readers /\ r.braces = <<>> /\ r.mode = ModeAfter(s, token)
    BY <2>1, <2>2, <2>3, NoBraces
  <2>5. s.mode = "block" /\ token # "*/" /\ Going(i - 1, s) => Going(i, r)
    <3> SUFFICES ASSUME s.mode = "block", token # "*/", Going(i - 1, s) PROVE Going(i, r)
      OBVIOUS
    <3> HIDE DEF token, r
    <3>1. r.mode = "block"
      BY <2>4 DEF ModeAfter
    <3>2. ASSUME NEW k \in 1 .. n, k <= i PROVE line[k] # "*/"
      <4>1. k <= i - 1 \/ k = i
        BY <1>2, <3>2
      <4> QED
        BY <4>1 DEF token
    <3> QED
      BY <3>1, <3>2
  <2>6. s.mode = "block" /\ token = "*/" => Gone(i, r)
    <3> SUFFICES ASSUME s.mode = "block", token = "*/" PROVE Gone(i, r)
      OBVIOUS
    <3> HIDE DEF r
    <3>1. r.mode = "after"
      BY <2>4 DEF ModeAfter, Quote
    <3> QED
      BY <2>3, <3>1
  <2>7. s.mode \in {"after", "odd"} => r.mode = "odd"
    <3> HIDE DEF r, token
    <3> QED
      BY <2>4 DEF ModeAfter
  <2> QED
    <3> HIDE DEF r, token
    <3>1. r.mode = "odd" \/ Going(i, r) \/ Gone(i, r)
      BY <2>1, <2>2, <2>5, <2>6, <2>7
    <3> QED
      BY <2>3, <2>4, <3>1 DEF r, token
<1> HIDE DEF P
<1>5. <<n, Folded(Reads, line, q)>> \in P
  BY <1>1, <1>3, <1>4, ReadIs, FoldInduction
<1>6. t.braces = <<>> /\ (Going(n, t) \/ Gone(n, t))
  BY <1>1, <1>5 DEF P, ReadOn
<1>7. ClosesComment(line) <=> n # 0 /\ line[n] = "*/"
  <2>1. line # <<>> <=> n # 0
    BY EmptySeq DEF Line
  <2> QED
    BY <2>1 DEF ClosesComment, Last
<1>8. Going(n, t) => t.mode = "block" /\ ~ClosesComment(line)
  <2> SUFFICES ASSUME Going(n, t), n # 0 PROVE line[n] # "*/"
    BY <1>7
  <2> QED
    BY <1>2
<1>9. Gone(n, t) => t.mode = "after" /\ ClosesComment(line)
  BY <1>7
<1> QED
  BY <1>6, <1>8, <1>9

\* Where a comment of several lines begins.
LEMMA OpensAt ==
  ASSUME NEW line \in Line, OpensComment(line)
  PROVE  /\ IndentLevel(line) + 1 \in 1 .. Len(line)
         /\ line[IndentLevel(line) + 1] = "/*"
         /\ \A k \in 1 .. Len(line) : line[k] # "*/"
<1> DEFINE n == IndentLevel(line)
           rest == Strip(line)
           mark == <<"/*">>
<1>1. IsPrefix(mark, rest) /\ Positions(line, "*/") = {}
  BY DEF OpensComment, StartsWith
<1>2. \A k \in 1 .. Len(line) : line[k] # "*/"
  BY <1>1, PlacesAre DEF Positions
<1>3. n \in 0 .. Len(line) /\ Len(line) \in Nat
  BY IndentLevelIs, LineLen
<1>4. /\ rest \in Line /\ Len(rest) = Len(line) - n
      /\ \A k \in 1 .. Len(line) - n : rest[k] = line[n + k]
  BY <1>3, AfterAt DEF Strip
<1>5. Len(mark) = 1 /\ mark[1] = "/*"
  OBVIOUS
<1> HIDE DEF n, rest, mark
<1>6. 1 <= Len(rest) /\ SubSeq(rest, 1, 1)[1] = "/*"
  BY <1>1, <1>4, <1>5 DEF IsPrefix, mark
<1>7. 1 \in 0 .. Len(rest) /\ 1 \in 1 .. 1 /\ 1 \in 1 .. Len(line) - n
  BY <1>3, <1>4, <1>6
<1>8. rest[1] = "/*"
  BY <1>4, <1>6, <1>7, SplitAt
<1>9. line[n + 1] = "/*" /\ n + 1 \in 1 .. Len(line)
  BY <1>3, <1>4, <1>7, <1>8
<1> QED
  BY <1>2, <1>9 DEF n

\* What is in such a comment is not code.
LEMMA OpenCommentRead ==
  ASSUME NEW line \in Line, OpensComment(line), NEW t, t = ReadLine("code", line), t.mode # "odd"
  PROVE  t.braces = <<>> /\ t.mode \in {"comment", "quoted"}
<1> DEFINE q == Reader("code")
           n == Len(line)
           h == IndentLevel(line) + 1
           In(i, s) == IF i < h THEN s.mode = "code" ELSE s.mode \in {"comment", "quoted", "odd"}
           P == {p \in (0 .. n) \X Readers : p[2].braces = <<>> /\ In(p[1], p[2])}
<1>1. q \in Readers /\ q.mode = "code" /\ q.braces = <<>> /\ t = ReadOn(line, q)
  <2>1. "code" \in ReaderModes
    BY DEF ReaderModes
  <2> QED
    BY <2>1, ReaderIs, ReadLineIs
<1> HIDE DEF q
<1>2. n \in Nat /\ h \in 1 .. n /\ line[h] = "/*" /\ \A k \in 1 .. n : line[k] # "*/"
  BY LineLen, OpensAt
<1>3. \A k \in 1 .. n : k < h => line[k] = Tab
  <2>1. IndentLevel(line) \in Nat
    BY IndentLevelIs
  <2>2. \A k \in 1 .. n : k < h => k \in 1 .. IndentLevel(line)
    BY <1>2, <2>1
  <2> QED
    BY <2>2, TabsAre
<1> HIDE DEF h
<1>4. <<0, q>> \in P
  BY <1>1, <1>2
<1>5. ASSUME NEW i \in 1 .. n, NEW s \in Readers, <<i - 1, s>> \in P
      PROVE  <<i, Reads[<<s, line[i]>>]>> \in P
  <2> DEFINE token == line[i]
             r == Reads[<<s, token>>]
  <2>1. s.braces = <<>> /\ In(i - 1, s)
    BY <1>5
  <2>2. token \in STRING /\ i \in 0 .. n /\ token # "*/"
    BY <1>2, PlaceIs
  <2>3. r \in Readers /\ r = ReadToken(s, token)
    BY <2>2, ReadAt
  <2>4. i < h => token = Tab
    BY <1>3
  <2>5. i = h => token = "/*"
    BY <1>2
  <2> HIDE DEF token, r
  <2>6. r.mode = ModeAfter(s, token)
    BY <2>3 DEF ReadToken
  <2>7. ~IsBrace(token) \/ s.mode # "code" => r.braces = <<>>
    BY <2>1, <2>3 DEF ReadToken
  <2>8. CASE i < h
    <3>1. s.mode = "code" /\ token = Tab
      <4>1. i - 1 < h
        BY <1>2, <2>2, <2>8
      <4> QED
        BY <2>1, <2>4, <2>8, <4>1
    <3>2. token # "(" /\ token # Quote /\ token # "//" /\ token # "/*" /\ ~IsBrace(token)
      BY <3>1 DEF Tab, Quote, IsBrace
    <3>3. r.mode = "code"
      BY <2>2, <2>6, <3>1, <3>2, InCode
    <3> QED
      BY <2>2, <2>3, <2>7, <2>8, <3>2, <3>3 DEF r, token
  <2>9. CASE i = h
    <3>1. s.mode = "code" /\ token = "/*"
      <4>1. i - 1 < h
        BY <1>2, <2>2, <2>9
      <4> QED
        BY <2>1, <2>5, <2>9, <4>1
    <3>2. token # "(" /\ token # Quote /\ token # "//" /\ ~IsBrace(token)
      BY <3>1 DEF Quote, IsBrace
    <3>3. r.mode = "comment"
      BY <2>6, <3>1, <3>2, InCode
    <3>4. ~(i < h) /\ r.braces = <<>>
      BY <1>2, <2>7, <2>9, <3>2
    <3> QED
      BY <2>2, <2>3, <3>3, <3>4 DEF r, token
  <2>10. CASE h < i
    <3>1. ~(i - 1 < h) /\ ~(i < h)
      BY <1>2, <2>2, <2>10
    <3>2. s.mode \in {"comment", "quoted", "odd"}
      BY <2>1, <3>1
    <3>3. r.mode \in {"comment", "quoted", "odd"}
      BY <2>2, <2>6, <3>2 DEF ModeAfter
    <3>4. r.braces = <<>>
      BY <2>7, <3>2
    <3> QED
      BY <2>2, <2>3, <3>1, <3>3, <3>4 DEF r, token
  <2>11. i < h \/ i = h \/ h < i
    BY <1>2, <2>2
  <2> QED
    BY <2>8, <2>9, <2>10, <2>11
<1> HIDE DEF P
<1>6. <<n, Folded(Reads, line, q)>> \in P
  BY <1>1, <1>4, <1>5, ReadIs, FoldInduction
<1>7. t.braces = <<>> /\ In(n, t)
  BY <1>1, <1>6 DEF P, ReadOn
<1>8. ~(n < h)
  BY <1>2
<1> QED
  BY <1>7, <1>8

\* What is put in the place of such lines.
CommentPair == <<"/*", "*/">>

LEMMA PairRead ==
  /\ CommentPair \in Line /\ ~OpensComment(CommentPair)
  /\ ReadLine("code", CommentPair).mode = "code" /\ ReadLine("code", CommentPair).braces = <<>>
<1> DEFINE q == Reader("code")
           a == <<"/*">>
           b == <<"*/">>
           r == ReadToken(q, "/*")
           s == ReadToken(r, "*/")
<1>1. "/*" \in STRING /\ "*/" \in STRING
  BY TokensAssumption
<1>2. a \in Line /\ b \in Line /\ CommentPair = a \o b
  BY <1>1, One DEF CommentPair, Line
<1>3. CommentPair \in Line /\ Len(CommentPair) = 2
  BY <1>1, Two DEF CommentPair, Line
<1>4. ~OpensComment(CommentPair)
  <2>1. 2 \in DOMAIN CommentPair /\ CommentPair[2] = "*/"
    BY DEF CommentPair
  <2> QED
    BY <2>1 DEF OpensComment, Positions
<1>5. "code" \in ReaderModes
  BY DEF ReaderModes
<1>6. q \in Readers /\ q.mode = "code" /\ q.last = "" /\ q.braces = <<>>
  BY <1>5, ReaderIs
<1> HIDE DEF q
<1>7. r \in Readers /\ r.mode = "comment" /\ r.last = "" /\ r.braces = <<>>
  <2>1. r \in Readers
    BY <1>1, <1>6, ReadAt
  <2>2. ModeAfter(q, "/*") = "comment"
    BY <1>6, InCode DEF Quote
  <2> QED
    BY <1>6, <2>1, <2>2 DEF ReadToken, LastAfter, IsBrace
<1> HIDE DEF r
<1>8. s.mode = "code" /\ s.braces = <<>>
  <2>1. ModeAfter(r, "*/") = "code"
    BY <1>7 DEF ModeAfter, Quote
  <2> QED
    BY <1>7, <2>1 DEF ReadToken
<1> HIDE DEF s
<1>9. ReadOn(CommentPair, q) = ReadOn(b, ReadOn(a, q))
  <2> HIDE DEF a, b
  <2> QED
    BY <1>2, <1>6, ReadJoined
<1>10. ReadOn(a, q) = r /\ ReadOn(b, r) = s
  BY <1>1, <1>6, <1>7, ReadOne DEF r, s
<1>11. ReadLine("code", CommentPair) = s
  BY <1>3, <1>5, <1>9, <1>10, ReadLineIs DEF q
<1> QED
  BY <1>3, <1>4, <1>8, <1>11

\* Nothing is open after it and no brace is left of it.
PairRight(r) ==
    LET e == CleanseComments(CollapseStrings(r.line))
    IN ~r.open /\ (~ComplexComment(e) => Braces(e) = <<>>)

LEMMA PairReads ==
  ASSUME NEW open, ~open
  PROVE  PairRight(CleanseRawLine(CommentPair, open))
<1> DEFINE r == CleanseRawLine(CommentPair, open)
<1>1. NextMode("code", CommentPair) = "code"
  BY PairRead DEF NextMode, OddLine
<1>2. LineRight(CommentPair, "code", r)
  <2> DEFINE mode == "code"
  <2>1. mode \in {"code", "raw"} /\ mode # "raw"
    OBVIOUS
  <2>2. NextMode(mode, CommentPair) # "odd"
    BY <1>1
  <2> HIDE DEF mode
  <2>3. LineRight(CommentPair, mode, r)
    BY <2>1, <2>2, PairRead, LineReads
  <2> QED
    BY <2>3 DEF mode
<1> HIDE DEF r
<1>3. ~r.open
  BY <1>1, <1>2 DEF LineRight
<1>4. LET e == CleanseComments(CollapseStrings(r.line))
      IN ~ComplexComment(e) => Braces(e) = <<>>
  BY <1>2, PairRead DEF LineRight
<1> QED
  BY <1>3, <1>4 DEF PairRight, r

-----------------------------------------------------------------------------
(* A file                                                                    *)

LEMMA NextModeType ==
  ASSUME NEW line \in Line, NEW mode \in ReaderModes
  PROVE  NextMode(mode, line) \in ReaderModes
<1>1. ReadLine(mode, line).mode \in ReaderModes
  BY ReadLineIs DEF Readers
<1> QED
  BY <1>1 DEF NextMode, ReaderModes

LEMMA ModesAre ==
  ASSUME NEW lines \in Seq(Line)
  PROVE  /\ Modes(lines)[0] = "code"
         /\ \A i \in 1 .. Len(lines) :
              Modes(lines)[i] = NextMode(Modes(lines)[i-1], lines[i])
<1> DEFINE n == Len(lines)
           N == 0 .. n
           Solves(f) == f = [i \in 0 .. n |-> IF i = 0 THEN "code" ELSE NextMode(f[i-1], lines[i])]
           step == [p \in N \X ReaderModes |->
                      IF p[1] = 0 THEN "code" ELSE NextMode(p[2], lines[p[1]])]
           g == CHOOSE h : Solves(h)
<1>1. n \in Nat /\ \A i \in 1 .. n : lines[i] \in Line
  OBVIOUS
<1>2. \A i \in N : i = 0 \/ i \in 1 .. n
  BY <1>1
<1>3. "code" \in ReaderModes
  BY DEF ReaderModes
<1>4. step \in [N \X ReaderModes -> ReaderModes]
  BY <1>1, <1>2, <1>3, NextModeType
<1>5. \A i \in N, s \in ReaderModes : i # 0 => step[<<i, s>>] = NextMode(s, lines[i])
  OBVIOUS
<1>6. g = Modes(lines)
  BY DEF Modes
<1> HIDE DEF step, n, N
<1>7. PICK f \in [0 .. n -> ReaderModes] : Steps(f, n, "code", step)
  BY <1>1, <1>3, <1>4, Counting DEF N
<1>8. \A i \in 1 .. n : i \in N /\ i \in 0 .. n /\ i - 1 \in 0 .. n /\ i # 0
  BY <1>1 DEF N
<1>9. \A i \in 0 .. n : f[i] = IF i = 0 THEN "code" ELSE NextMode(f[i-1], lines[i])
  <2>1. ASSUME NEW i \in 1 .. n PROVE f[i] = NextMode(f[i-1], lines[i])
    <3>1. f[i] = step[<<i, f[i-1]>>] /\ f[i-1] \in ReaderModes
      BY <1>7, <1>8 DEF Steps
    <3> QED
      BY <1>5, <1>8, <3>1
  <2>2. 0 \in 0 .. n
    BY <1>1
  <2>3. f[0] = "code"
    BY <1>7, <2>2 DEF Steps
  <2> QED
    BY <1>2, <2>1, <2>3 DEF N
<1>10. Solves(g)
  <2>1. Solves(f)
    BY <1>7, <1>9
  <2> HIDE DEF Solves
  <2> QED
    BY <2>1
<1> HIDE DEF g
<1>11. \A i \in 0 .. n : g[i] = IF i = 0 THEN "code" ELSE NextMode(g[i-1], lines[i])
  BY <1>10
<1>12. 0 \in 0 .. n
  BY <1>1
<1>13. g[0] = "code" /\ \A i \in 1 .. n : g[i] = NextMode(g[i-1], lines[i])
  BY <1>8, <1>11, <1>12
<1> QED
  BY <1>6, <1>13 DEF n

\* The last line of the comment of line i, if last is that of the line before.
EndAfter(lines, i, last) ==
    IF last >= i THEN last
    ELSE IF OpensComment(lines[i]) /\ CommentEnds(lines, i) # {}
      THEN Min(CommentEnds(lines, i))
      ELSE 0

LEMMA EndsAre ==
  ASSUME NEW lines \in Seq(Line), NEW i \in 1 .. Len(lines), CommentEnds(lines, i) # {},
         NEW end, end = Min(CommentEnds(lines, i))
  PROVE  /\ end \in i .. Len(lines) /\ ClosesComment(lines[end])
         /\ \A k \in 1 .. Len(lines) : i <= k /\ k < end => ~ClosesComment(lines[k])
<1> DEFINE S == CommentEnds(lines, i)
<1>1. S \in SUBSET (i .. Len(lines)) /\ Len(lines) \in Nat
      /\ \A k \in i .. Len(lines) : k \in S <=> ClosesComment(lines[k])
  BY DEF CommentEnds
<1>2. end = Min(S) /\ S # {}
  OBVIOUS
<1> HIDE DEF S
<1>3. end \in S /\ \A k \in S : end <= k
  <2>1. S \in SUBSET Nat
    BY <1>1
  <2> QED
    BY <1>2, <2>1, MinOf
<1>4. ASSUME NEW k \in 1 .. Len(lines), i <= k, k < end PROVE ~ClosesComment(lines[k])
  <2>1. k \in i .. Len(lines)
    BY <1>1, <1>4
  <2>2. k \in S => end <= k
    BY <1>3
  <2>3. end \in Nat
    BY <1>1, <1>3
  <2> QED
    BY <1>1, <1>4, <2>1, <2>2, <2>3
<1> QED
  BY <1>1, <1>3, <1>4

LEMMA EndAfterType ==
  ASSUME NEW lines \in Seq(Line), NEW i \in 1 .. Len(lines), NEW last \in Nat
  PROVE  EndAfter(lines, i, last) \in Nat
<1>1. CommentEnds(lines, i) # {} => Min(CommentEnds(lines, i)) \in Nat
  <2> SUFFICES ASSUME CommentEnds(lines, i) # {} PROVE Min(CommentEnds(lines, i)) \in Nat
    OBVIOUS
  <2>1. Min(CommentEnds(lines, i)) \in i .. Len(lines)
    BY EndsAre
  <2> QED
    BY <2>1
<1> QED
  BY <1>1 DEF EndAfter

CommentsRun(lines, end) ==
    /\ end[0] = 0
    /\ \A i \in 1 .. Len(lines) : end[i] = EndAfter(lines, i, end[i-1]) /\ end[i] \in Nat

LEMMA CommentsAre ==
  ASSUME NEW lines \in Seq(Line)
  PROVE  \E end : /\ CommentsRun(lines, end)
                  /\ CommentOf(lines) = [i \in 1 .. Len(lines) |-> end[i]]
<1> DEFINE n == Len(lines)
           N == 0 .. n
           Solves(f) == f = [i \in 0 .. n |-> IF i = 0 THEN 0 ELSE EndAfter(lines, i, f[i-1])]
           step == [p \in N \X Nat |-> IF p[1] = 0 THEN 0 ELSE EndAfter(lines, p[1], p[2])]
           g == CHOOSE h : Solves(h)
<1>1. n \in Nat /\ DOMAIN lines = 1 .. n
  OBVIOUS
<1>2. \A i \in N : i = 0 \/ i \in 1 .. n
  BY <1>1
<1>3. step \in [N \X Nat -> Nat]
  BY <1>2, EndAfterType
<1>4. \A i \in N, s \in Nat : i # 0 => step[<<i, s>>] = EndAfter(lines, i, s)
  OBVIOUS
<1>5. CommentOf(lines) = [i \in 1 .. n |-> g[i]]
  BY <1>1 DEF CommentOf, EndAfter
<1> HIDE DEF step, n, N
<1>6. PICK f \in [0 .. n -> Nat] : Steps(f, n, 0, step)
  BY <1>1, <1>3, Counting DEF N
<1>7. \A i \in 1 .. n : i \in N /\ i \in 0 .. n /\ i - 1 \in 0 .. n /\ i # 0
  BY <1>1 DEF N
<1>8. \A i \in 0 .. n : f[i] = IF i = 0 THEN 0 ELSE EndAfter(lines, i, f[i-1])
  <2>1. ASSUME NEW i \in 1 .. n PROVE f[i] = EndAfter(lines, i, f[i-1])
    <3>1. f[i] = step[<<i, f[i-1]>>] /\ f[i-1] \in Nat
      BY <1>6, <1>7 DEF Steps
    <3> QED
      BY <1>4, <1>7, <3>1
  <2>2. 0 \in 0 .. n
    BY <1>1
  <2>3. f[0] = 0
    BY <1>6, <2>2 DEF Steps
  <2> QED
    BY <1>2, <2>1, <2>3 DEF N
<1>9. Solves(g)
  <2>1. Solves(f)
    BY <1>6, <1>8
  <2> HIDE DEF Solves
  <2> QED
    BY <2>1
<1> HIDE DEF g
<1>10. \A i \in 0 .. n : g[i] = IF i = 0 THEN 0 ELSE EndAfter(lines, i, g[i-1])
  BY <1>9
<1>11. 0 \in 0 .. n
  BY <1>1
<1>12. g[0] = 0 /\ \A i \in 1 .. n : g[i] = EndAfter(lines, i, g[i-1])
  BY <1>7, <1>10, <1>11
<1> DEFINE P == {i \in 0 .. n : g[i] \in Nat}
<1>13. 0 \in P
  BY <1>11, <1>12
<1>14. ASSUME NEW i \in 1 .. n, i - 1 \in P PROVE i \in P
  <2>1. EndAfter(lines, i, g[i-1]) \in Nat
    BY <1>14, EndAfterType DEF n
  <2> QED
    BY <1>7, <1>12, <2>1
<1> HIDE DEF P
<1>15. 0 .. n \subseteq P
  BY <1>1, <1>13, <1>14, CountInduction
<1>16. \A i \in 1 .. n : g[i] \in Nat
  BY <1>7, <1>15 DEF P
<1>17. CommentsRun(lines, g)
  BY <1>12, <1>16 DEF CommentsRun, n
<1> QED
  BY <1>5, <1>17 DEF n

LEMMA RawOpenType ==
  ASSUME NEW line \in Line, NEW open
  PROVE  CleanseRawLine(line, open).open \in BOOLEAN
<1> DEFINE begun == IF open THEN CloseRaw(line) ELSE [line |-> line, open |-> FALSE]
<1>1. begun \in RawResult
  BY CloseRawIs DEF RawResult
<1>2. begun.line \in Line /\ begun.open \in BOOLEAN
  BY <1>1 DEF RawResult
<1>3. OpenRaw[begun.line] \in RawResult
  BY <1>2, OpenRawExists
<1> HIDE DEF begun
<1>4. CleanseRawLine(line, open) = IF begun.open THEN begun ELSE OpenRaw[begun.line]
  BY DEF CleanseRawLine, begun
<1> QED
  BY <1>2, <1>3, <1>4 DEF RawResult

\* Which lines of a file begin in a raw string.
RawsRun(lines, open) ==
    /\ open[0] = FALSE
    /\ \A i \in 1 .. Len(lines) : open[i] = CleanseRawLine(lines[i], open[i-1]).open

LEMMA RawsAre ==
  ASSUME NEW lines \in Seq(Line)
  PROVE  \E open : /\ RawsRun(lines, open)
                   /\ CleanseRawStrings(lines) =
                        [i \in 1 .. Len(lines) |-> CleanseRawLine(lines[i], open[i-1]).line]
<1> DEFINE n == Len(lines)
           N == 0 .. n
           Solves(f) == f = [i \in 0 .. n |-> i # 0 /\ CleanseRawLine(lines[i], f[i-1]).open]
           step == [p \in N \X BOOLEAN |-> IF p[1] = 0 THEN FALSE ELSE CleanseRawLine(lines[p[1]], p[2]).open]
           g == CHOOSE h : Solves(h)
<1>1. n \in Nat /\ DOMAIN lines = 1 .. n /\ \A i \in 1 .. n : lines[i] \in Line
  OBVIOUS
<1>2. \A i \in N : i = 0 \/ i \in 1 .. n
  BY <1>1
<1>3. step \in [N \X BOOLEAN -> BOOLEAN]
  <2>1. \A i \in 1 .. n, s \in BOOLEAN : CleanseRawLine(lines[i], s).open \in BOOLEAN
    BY <1>1, RawOpenType
  <2> QED
    BY <1>2, <2>1
<1>4. \A i \in N, s \in BOOLEAN : i # 0 => step[<<i, s>>] = CleanseRawLine(lines[i], s).open
  OBVIOUS
<1>5. CleanseRawStrings(lines) = [i \in 1 .. n |-> CleanseRawLine(lines[i], g[i-1]).line]
  BY <1>1 DEF CleanseRawStrings
<1> HIDE DEF step, n, N
<1>6. PICK f \in [0 .. n -> BOOLEAN] : Steps(f, n, FALSE, step)
  BY <1>1, <1>3, Counting DEF N
<1>7. \A i \in 1 .. n : i \in N /\ i \in 0 .. n /\ i - 1 \in 0 .. n /\ i # 0
  BY <1>1 DEF N
<1>8. \A i \in 0 .. n : f[i] = (i # 0 /\ CleanseRawLine(lines[i], f[i-1]).open)
  <2>1. ASSUME NEW i \in 1 .. n PROVE f[i] = CleanseRawLine(lines[i], f[i-1]).open
    <3>1. f[i] = step[<<i, f[i-1]>>] /\ f[i-1] \in BOOLEAN
      BY <1>6, <1>7 DEF Steps
    <3> QED
      BY <1>4, <1>7, <3>1
  <2>2. 0 \in 0 .. n
    BY <1>1
  <2>3. f[0] = FALSE
    BY <1>6, <2>2 DEF Steps
  <2>4. \A i \in 1 .. n : CleanseRawLine(lines[i], f[i-1]).open \in BOOLEAN
    BY <1>1, RawOpenType
  <2> QED
    BY <1>2, <1>7, <2>1, <2>3, <2>4 DEF N
<1>9. Solves(g)
  <2>1. Solves(f)
    BY <1>6, <1>8
  <2> HIDE DEF Solves
  <2> QED
    BY <2>1
<1> HIDE DEF g
<1>10. \A i \in 0 .. n : g[i] = (i # 0 /\ CleanseRawLine(lines[i], g[i-1]).open)
  BY <1>9
<1>11. 0 \in 0 .. n
  BY <1>1
<1>12. g[0] = FALSE
  BY <1>10, <1>11
<1>13. ASSUME NEW i \in 1 .. n PROVE g[i] = CleanseRawLine(lines[i], g[i-1]).open
  <2>1. CleanseRawLine(lines[i], g[i-1]).open \in BOOLEAN
    BY <1>1, RawOpenType
  <2>2. g[i] = (i # 0 /\ CleanseRawLine(lines[i], g[i-1]).open)
    BY <1>7, <1>10
  <2> QED
    BY <1>7, <2>1, <2>2
<1>14. RawsRun(lines, g)
  BY <1>12, <1>13 DEF RawsRun, n
<1> QED
  BY <1>5, <1>14 DEF n

\* The three that go over the lines of a file: the reader, and the passes over
\* comments and raw strings.
BareAt(lines, end, i) == IF end[i] # 0 THEN CommentPair ELSE lines[i]
FileRun(lines, mode, end, open) ==
    /\ mode[0] = "code"
    /\ \A i \in 1 .. Len(lines) : mode[i] = NextMode(mode[i-1], lines[i])
    /\ CommentsRun(lines, end)
    /\ open[0] = FALSE
    /\ \A i \in 1 .. Len(lines) : open[i] = CleanseRawLine(BareAt(lines, end, i), open[i-1]).open

\* What they agree on before line i + 1.
Agree(lines, mode, end, open, i) ==
    /\ mode[i] \in {"code", "raw", "block"} /\ (open[i] <=> mode[i] = "raw")
    /\ (mode[i] = "block" <=> end[i] > i)
    /\ (end[i] > i => /\ end[i] \in 1 .. Len(lines) /\ ClosesComment(lines[end[i]])
                      /\ \A k \in 1 .. Len(lines) : i < k /\ k < end[i] => ~ClosesComment(lines[k]))

\* What is left of line i has just the braces that are code.
RightAt(lines, mode, end, open, i) ==
    LET e == CleanseComments(CollapseStrings(
               CleanseRawLine(BareAt(lines, end, i), open[i-1]).line))
    IN ~ComplexComment(e) => Braces(e) = ReadLine(mode[i-1], lines[i]).braces

LEMMA RunAt ==
  ASSUME NEW lines \in Seq(Line), NEW mode, NEW end, NEW open, FileRun(lines, mode, end, open),
         NEW i \in 1 .. Len(lines)
  PROVE  /\ mode[i] = NextMode(mode[i-1], lines[i]) /\ lines[i] \in Line
         /\ end[i] = EndAfter(lines, i, end[i-1]) /\ end[i] \in Nat /\ end[i-1] \in Nat
         /\ open[i] = CleanseRawLine(BareAt(lines, end, i), open[i-1]).open
         /\ i - 1 \in Nat /\ Len(lines) \in Nat
<1>1. i = 1 \/ i - 1 \in 1 .. Len(lines)
  OBVIOUS
<1>2. end[0] = 0 /\ \A k \in 1 .. Len(lines) : end[k] \in Nat
  BY DEF FileRun, CommentsRun
<1>3. end[i-1] \in Nat
  BY <1>1, <1>2
<1> QED
  BY <1>3 DEF FileRun, CommentsRun

\* A line within a comment.
LEMMA WithinComment ==
  ASSUME NEW lines \in Seq(Line), NEW mode, NEW end, NEW open, FileRun(lines, mode, end, open),
         NEW i \in 1 .. Len(lines), Agree(lines, mode, end, open, i - 1), mode[i] # "odd",
         mode[i-1] = "block"
  PROVE  Agree(lines, mode, end, open, i) /\ RightAt(lines, mode, end, open, i)
<1> DEFINE line == lines[i]
           last == end[i-1]
           t == ReadLine("block", line)
<1>1. /\ mode[i] = NextMode("block", line) /\ line \in Line
      /\ end[i] = EndAfter(lines, i, last) /\ last \in Nat
      /\ open[i] = CleanseRawLine(BareAt(lines, end, i), open[i-1]).open
      /\ i \in Nat /\ Len(lines) \in Nat
  BY RunAt
<1>2. /\ ~open[i-1] /\ last > i - 1 /\ last \in 1 .. Len(lines) /\ ClosesComment(lines[last])
      /\ \A k \in 1 .. Len(lines) : i - 1 < k /\ k < last => ~ClosesComment(lines[k])
  BY DEF Agree
<1>3. last >= i /\ last # 0
  BY <1>1, <1>2
<1>4. end[i] = last
  BY <1>1, <1>3 DEF EndAfter
<1>5. t.mode # "odd" /\ mode[i] = IF t.mode = "after" THEN "code" ELSE t.mode
  <2>1. t.mode # "odd"
    BY <1>1 DEF NextMode
  <2>2. t.mode \in {"block", "after"}
    BY <1>1, <2>1, BlockRead
  <2> QED
    BY <1>1, <2>1, <2>2 DEF NextMode
<1>6. t.braces = <<>> /\ t.mode \in {"block", "after"} /\ (t.mode = "after" <=> ClosesComment(line))
  BY <1>1, <1>5, BlockRead
<1>7. ClosesComment(line) <=> i = last
  <2>1. i # last => i - 1 < i /\ i < last
    BY <1>1, <1>2, <1>3
  <2> QED
    BY <1>2, <2>1
<1> HIDE DEF t, last, line
<1>8. mode[i] \in {"code", "block"} /\ (mode[i] = "block" <=> last > i)
  <2>1. last > i <=> i # last
    BY <1>1, <1>3
  <2> QED
    BY <1>5, <1>6, <1>7, <2>1
<1>9. BareAt(lines, end, i) = CommentPair
  BY <1>3, <1>4 DEF BareAt
<1>10. PairRight(CleanseRawLine(CommentPair, open[i-1]))
  BY <1>2, PairReads
<1>11. ~open[i]
  BY <1>1, <1>9, <1>10 DEF PairRight
<1>12. \A k \in 1 .. Len(lines) : i < k /\ k < last => ~ClosesComment(lines[k])
  <2>1. \A k \in 1 .. Len(lines) : i < k => i - 1 < k
    BY <1>1
  <2> QED
    BY <1>2, <2>1 DEF last
<1>13. Agree(lines, mode, end, open, i)
  BY <1>2, <1>4, <1>8, <1>11, <1>12 DEF Agree, last
<1>14. RightAt(lines, mode, end, open, i)
  BY <1>6, <1>9, <1>10 DEF RightAt, PairRight, t, line
<1> QED
  BY <1>13, <1>14

\* A line where a comment of several lines begins, which has an end.
LEMMA BeginsComment ==
  ASSUME NEW lines \in Seq(Line), NEW mode, NEW end, NEW open, FileRun(lines, mode, end, open),
         NEW i \in 1 .. Len(lines), Agree(lines, mode, end, open, i - 1), mode[i] # "odd",
         mode[i-1] # "block", OpensComment(lines[i]), end[i] # 0
  PROVE  Agree(lines, mode, end, open, i) /\ RightAt(lines, mode, end, open, i)
<1> DEFINE line == lines[i]
           t == ReadLine("code", line)
           before == mode[i-1]
<1>1. /\ mode[i] = NextMode(before, line) /\ line \in Line
      /\ end[i] = EndAfter(lines, i, end[i-1]) /\ end[i] \in Nat /\ end[i-1] \in Nat
      /\ open[i] = CleanseRawLine(BareAt(lines, end, i), open[i-1]).open
      /\ i \in Nat /\ Len(lines) \in Nat
  BY RunAt
<1>2. /\ before \in {"code", "raw"} /\ (open[i-1] <=> before = "raw")
      /\ ~(end[i-1] > i - 1)
  BY DEF Agree
<1>3. OpensComment(line)
  OBVIOUS
<1>4. before = "code" /\ ~open[i-1]
  <2>1. before # "raw"
    BY <1>1, <1>3 DEF NextMode, OddLine
  <2> QED
    BY <1>2, <2>1
<1>5. ~(end[i-1] >= i)
  BY <1>1, <1>2
<1>6. CommentEnds(lines, i) # {} /\ end[i] = Min(CommentEnds(lines, i))
  BY <1>1, <1>5 DEF EndAfter
<1>7. /\ end[i] \in i .. Len(lines) /\ ClosesComment(lines[end[i]])
      /\ \A k \in 1 .. Len(lines) : i <= k /\ k < end[i] => ~ClosesComment(lines[k])
  BY <1>6, EndsAre
<1>8. ~ClosesComment(line)
  <2> SUFFICES ASSUME ClosesComment(line) PROVE FALSE
    OBVIOUS
  <2> HIDE DEF line
  <2>1. line # <<>> /\ line[Len(line)] = "*/"
    BY DEF ClosesComment, Last
  <2>2. Len(line) \in 1 .. Len(line)
    BY <1>1, <2>1, EmptySeq, LineLen DEF Line
  <2> QED
    BY <1>1, <1>3, <2>1, <2>2, OpensAt
<1>9. end[i] > i /\ end[i] \in 1 .. Len(lines)
  <2>1. end[i] # i
    BY <1>7, <1>8
  <2> QED
    BY <1>1, <1>7, <2>1
<1>10. t.mode # "odd"
  BY <1>1, <1>4 DEF NextMode
<1>11. t.braces = <<>> /\ t.mode \in {"comment", "quoted"}
  BY <1>1, <1>3, <1>10, OpenCommentRead
<1>12. mode[i] = "block"
  BY <1>1, <1>4, <1>11 DEF NextMode
<1>13. BareAt(lines, end, i) = CommentPair
  BY DEF BareAt
<1>14. PairRight(CleanseRawLine(CommentPair, open[i-1]))
  BY <1>4, PairReads
<1>15. ~open[i]
  BY <1>1, <1>13, <1>14 DEF PairRight
<1>16. \A k \in 1 .. Len(lines) : i < k /\ k < end[i] => ~ClosesComment(lines[k])
  <2>1. \A k \in 1 .. Len(lines) : i < k => i <= k
    BY <1>1
  <2> QED
    BY <1>7, <2>1
<1>17. Agree(lines, mode, end, open, i)
  BY <1>7, <1>9, <1>12, <1>15, <1>16 DEF Agree
<1>18. RightAt(lines, mode, end, open, i)
  BY <1>4, <1>11, <1>13, <1>14 DEF RightAt, PairRight
<1> QED
  BY <1>17, <1>18

\* Any other line.
LEMMA OutOfComment ==
  ASSUME NEW lines \in Seq(Line), NEW mode, NEW end, NEW open, FileRun(lines, mode, end, open),
         NEW i \in 1 .. Len(lines), Agree(lines, mode, end, open, i - 1), mode[i] # "odd",
         mode[i-1] # "block", ~OpensComment(lines[i])
  PROVE  Agree(lines, mode, end, open, i) /\ RightAt(lines, mode, end, open, i)
<1> DEFINE line == lines[i]
           before == mode[i-1]
           r == CleanseRawLine(line, open[i-1])
<1>1. /\ mode[i] = NextMode(before, line) /\ line \in Line
      /\ end[i] = EndAfter(lines, i, end[i-1]) /\ end[i] \in Nat /\ end[i-1] \in Nat
      /\ open[i] = CleanseRawLine(BareAt(lines, end, i), open[i-1]).open
      /\ i \in Nat /\ Len(lines) \in Nat
  BY RunAt
<1>2. /\ before \in {"code", "raw"} /\ (open[i-1] <=> before = "raw")
      /\ ~(end[i-1] > i - 1)
  BY DEF Agree
<1>3. ~(end[i-1] >= i)
  BY <1>1, <1>2
<1>4. end[i] = 0
  BY <1>1, <1>3 DEF EndAfter
<1>5. BareAt(lines, end, i) = line
  BY <1>4 DEF BareAt
<1>6. LineRight(line, before, r)
  <2> DEFINE o == open[i-1]
  <2>1. o <=> before = "raw"
    BY <1>2
  <2>2. ~OpensComment(line) /\ NextMode(before, line) # "odd"
    BY <1>1
  <2> HIDE DEF o, line, before
  <2>3. LineRight(line, before, CleanseRawLine(line, o))
    BY <1>1, <1>2, <2>1, <2>2, LineReads
  <2> QED
    BY <2>3 DEF o, line, before
<1>7. /\ mode[i] \in {"code", "raw"} /\ (open[i] <=> mode[i] = "raw")
  BY <1>1, <1>5, <1>6 DEF LineRight
<1>8. ~(end[i] > i)
  BY <1>1, <1>4
<1>9. Agree(lines, mode, end, open, i)
  BY <1>7, <1>8 DEF Agree
<1>10. RightAt(lines, mode, end, open, i)
  BY <1>5, <1>6 DEF RightAt, LineRight
<1> QED
  BY <1>9, <1>10

\* Once the reader gave up it does so to the end of the file.
LEMMA OddLines ==
  ASSUME NEW lines \in Seq(Line), NEW mode, NEW end, NEW open, FileRun(lines, mode, end, open),
         mode[Len(lines)] = "code", NEW i \in 1 .. Len(lines)
  PROVE  mode[i] # "odd"
<1> SUFFICES ASSUME mode[i] = "odd" PROVE FALSE
  OBVIOUS
<1> DEFINE n == Len(lines)
           P == {k \in 0 .. n : i <= k => mode[k] = "odd"}
<1>1. n \in Nat /\ i \in Nat /\ 1 <= i
  OBVIOUS
<1>2. 0 \in P
  BY <1>1
<1>3. ASSUME NEW k \in 1 .. n, k - 1 \in P PROVE k \in P
  <2> SUFFICES ASSUME i <= k PROVE mode[k] = "odd"
    BY <1>1
  <2>1. CASE i = k
    BY <2>1
  <2>2. CASE i # k
    <3>1. i <= k - 1
      BY <1>1, <2>2
    <3> DEFINE before == mode[k-1]
    <3>2. before = "odd"
      BY <1>3, <3>1
    <3>3. mode[k] = NextMode(before, lines[k]) /\ lines[k] \in Line
      BY RunAt
    <3>4. "odd" \in ReaderModes
      BY DEF ReaderModes
    <3>5. Reader("odd") \in Readers /\ Reader("odd").mode = "odd"
      BY <3>4, ReaderIs
    <3>6. ReadLine("odd", lines[k]) = ReadOn(lines[k], Reader("odd"))
      BY <3>3, <3>4, ReadLineIs
    <3>7. ReadLine("odd", lines[k]).mode = "odd"
      BY <3>3, <3>5, <3>6, OddStays
    <3> QED
      BY <3>2, <3>3, <3>7 DEF NextMode
  <2> QED
    BY <2>1, <2>2
<1> HIDE DEF P, n
<1>4. 0 .. n \subseteq P
  BY <1>1, <1>2, <1>3, CountInduction
<1>5. n \in 0 .. n /\ i <= n
  BY <1>1 DEF n
<1> QED
  BY <1>4, <1>5 DEF P, n

LEMMA FileRead ==
  ASSUME NEW lines \in Seq(Line), NEW mode, NEW end, NEW open, FileRun(lines, mode, end, open),
         mode[Len(lines)] = "code",
         \A i \in 1 .. Len(lines) : OpensComment(lines[i]) => end[i] # 0
  PROVE  \A i \in 1 .. Len(lines) : RightAt(lines, mode, end, open, i)
<1> DEFINE n == Len(lines)
           P == {k \in 0 .. n : Agree(lines, mode, end, open, k)
                                  /\ (k # 0 => RightAt(lines, mode, end, open, k))}
<1>1. n \in Nat
  OBVIOUS
<1>2. Agree(lines, mode, end, open, 0)
  <2>1. mode[0] = "code" /\ end[0] = 0 /\ open[0] = FALSE
    BY DEF FileRun, CommentsRun
  <2>2. ~(end[0] > 0)
    BY <2>1
  <2> QED
    BY <2>1, <2>2 DEF Agree
<1>3. 0 \in P
  BY <1>1, <1>2
<1>4. ASSUME NEW k \in 1 .. n, k - 1 \in P PROVE k \in P
  <2>1. Agree(lines, mode, end, open, k - 1) /\ k \in 1 .. Len(lines) /\ k \in 0 .. n
    BY <1>1, <1>4
  <2>2. mode[k] # "odd"
    BY OddLines
  <2> HIDE DEF P, n
  <2>3. Agree(lines, mode, end, open, k) /\ RightAt(lines, mode, end, open, k)
    <3>1. CASE mode[k-1] = "block"
      BY <2>1, <2>2, <3>1, WithinComment
    <3>2. CASE mode[k-1] # "block" /\ OpensComment(lines[k])
      BY <2>1, <2>2, <3>2, BeginsComment
    <3>3. CASE mode[k-1] # "block" /\ ~OpensComment(lines[k])
      BY <2>1, <2>2, <3>3, OutOfComment
    <3> QED
      BY <3>1, <3>2, <3>3
  <2> QED
    BY <2>1, <2>3 DEF P
<1> HIDE DEF P
<1>5. 0 .. n \subseteq P
  BY <1>1, <1>3, <1>4, CountInduction
<1>6. ASSUME NEW i \in 1 .. n PROVE RightAt(lines, mode, end, open, i)
  <2>1. i \in 0 .. n /\ i # 0
    BY <1>1
  <2> QED
    BY <1>5, <2>1 DEF P
<1> QED
  BY <1>6

\* A file that the reader understands and the program does not warn of: what
\* is left of every line has just the braces that are code.
Unwarned(lines, clean) ==
    /\ Unterminated(lines) = {}
    /\ \A i \in 1 .. Len(lines) : ~ComplexComment(clean.elided[i])

LEMMA BracesLeft ==
  ASSUME NEW lines \in Seq(Line), Plain(lines),
         NEW clean, clean = CleansedLines(RemoveMultiLineComments(lines)), Unwarned(lines, clean)
  PROVE  \A i \in 1 .. Len(lines) : Braces(clean.elided[i]) = CodeBraces(lines, i)
<1> DEFINE n == Len(lines)
           mode == Modes(lines)
           bare == RemoveMultiLineComments(lines)
           unraw == CleanseRawStrings(bare)
<1>1. n \in Nat /\ DOMAIN lines = 1 .. n
  OBVIOUS
<1>2. mode[0] = "code" /\ \A i \in 1 .. n : mode[i] = NextMode(mode[i-1], lines[i])
  BY ModesAre
<1>3. mode[n] = "code" /\ \A i \in 1 .. n : CodeBraces(lines, i) = ReadLine(mode[i-1], lines[i]).braces
  BY DEF Plain, CodeBraces
<1>4. PICK end : CommentsRun(lines, end) /\ CommentOf(lines) = [i \in 1 .. n |-> end[i]]
  BY CommentsAre
<1>5. \A i \in 1 .. n : CommentOf(lines)[i] = end[i]
  BY <1>4
<1>6. bare \in Seq(Line) /\ Len(bare) = n /\ \A i \in 1 .. n : bare[i] = BareAt(lines, end, i)
  <2>1. bare \in Seq(Line) /\ Len(bare) = n
    BY RemoveMultiLineCommentsAre
  <2>2. bare = [i \in 1 .. n |-> IF CommentOf(lines)[i] # 0 THEN CommentPair ELSE lines[i]]
    BY <1>1 DEF RemoveMultiLineComments, CommentPair
  <2> HIDE DEF bare
  <2>3. \A i \in 1 .. n : bare[i] = BareAt(lines, end, i)
    BY <1>5, <2>2 DEF BareAt
  <2> QED
    BY <2>1, <2>3
<1>7. \A i \in 1 .. n : OpensComment(lines[i]) => end[i] # 0
  BY <1>1, <1>5 DEF Unwarned, Unterminated
<1>8. clean.elided = [i \in DOMAIN unraw |-> CleanseComments(CollapseStrings(unraw[i]))]
  BY DEF CleansedLines
<1> HIDE DEF bare, mode, n
<1>9. PICK open : /\ RawsRun(bare, open)
                  /\ unraw = [i \in 1 .. n |-> CleanseRawLine(bare[i], open[i-1]).line]
  BY <1>6, RawsAre
<1> HIDE DEF unraw
<1>10. \A i \in 1 .. n : clean.elided[i] = CleanseComments(CollapseStrings(
                           CleanseRawLine(BareAt(lines, end, i), open[i-1]).line))
  BY <1>6, <1>8, <1>9
<1>11. FileRun(lines, mode, end, open)
  BY <1>2, <1>4, <1>6, <1>9 DEF FileRun, RawsRun, n
<1>12. \A i \in 1 .. n : RightAt(lines, mode, end, open, i)
  BY <1>3, <1>7, <1>11, FileRead DEF n
<1>13. ASSUME NEW i \in 1 .. n PROVE Braces(clean.elided[i]) = CodeBraces(lines, i)
  <2>1. ~ComplexComment(clean.elided[i])
    BY DEF Unwarned, n
  <2> QED
    BY <1>3, <1>10, <1>12, <2>1 DEF RightAt
<1> QED
  BY <1>13 DEF n

=============================================================================
