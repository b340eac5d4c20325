----------------------------- MODULE UnitProofs -----------------------------
(* Invariants of Unit for every size, precision, threshold, learning rate,   *)
(* falloff of the links and set of patterns.                                 *)
EXTENDS Unit, TLAPS

USE GeometryAssumption

-----------------------------------------------------------------------------
(* Truncated products of numbers of [0, 1] *)

LEMMA MulMono ==
  ASSUME NEW a \in Int, NEW b \in Int, a <= b, NEW c \in Nat
  PROVE  a * c <= b * c /\ c * a <= c * b /\ a * c \in Int /\ b * c \in Int
<1>1. (b - a) * c >= 0
  BY SMT
<1>2. (b - a) * c = b * c - a * c
  BY SMT
<1>3. a * c \in Int /\ b * c \in Int /\ c * a = a * c /\ c * b = b * c
  BY SMT
<1> QED
  BY <1>1, <1>2, <1>3, SMT

LEMMA MulNat ==
  ASSUME NEW a \in Nat, NEW b \in Nat
  PROVE  a * b \in Nat
BY SMT

LEMMA DivBound ==
  ASSUME NEW n \in Nat, NEW m \in Nat \ {0}
  PROVE  /\ n \div m \in Nat
         /\ m * (n \div m) <= n
         /\ n < m * (n \div m) + m
BY SMT

(* A quotient is at most k if the dividend is at most k times the divisor. *)
LEMMA DivAtMost ==
  ASSUME NEW n \in Nat, NEW m \in Nat \ {0}, NEW k \in Nat, n <= k * m
  PROVE  n \div m <= k
<1> DEFINE q == n \div m
<1>1. q \in Nat /\ m * q <= n
  BY DivBound
<1> HIDE DEF q
<1>2. SUFFICES ASSUME q >= k + 1 PROVE FALSE
  BY <1>1 DEF q
<1>3. m * (k + 1) <= m * q
  BY <1>1, <1>2, MulMono
<1>4. m * (k + 1) = k * m + m /\ k * m \in Int /\ m * q \in Int
  BY <1>1, SMT
<1> QED
  BY <1>1, <1>3, <1>4, SMT

LEMMA DivMono ==
  ASSUME NEW a \in Nat, NEW b \in Nat, a <= b, NEW m \in Nat \ {0}
  PROVE  a \div m <= b \div m
<1> DEFINE q == b \div m
<1>1. q \in Nat /\ b < m * q + m
  BY DivBound
<1>2. a \div m \in Nat /\ m * (a \div m) <= a
  BY DivBound
<1> DEFINE p == a \div m
<1> HIDE DEF q, p
<1>3. SUFFICES ASSUME p >= q + 1 PROVE FALSE
  BY <1>1, <1>2 DEF p, q
<1>4. m * (q + 1) <= m * p
  BY <1>1, <1>2, <1>3, MulMono DEF p
<1>5. m * (q + 1) = m * q + m /\ m * q \in Int /\ m * p \in Int
  BY <1>1, <1>2, SMT DEF p
<1> QED
  BY <1>1, <1>2, <1>4, <1>5, SMT DEF p

(* The product of a number and a share is at most the number. *)
LEMMA ShareAtMost ==
  ASSUME NEW n \in Nat, NEW s \in 0 .. ONE, ONE \in Nat \ {0}
  PROVE  n * s <= n * ONE /\ n * s \in Nat
<1>1. s \in Nat /\ s <= ONE
  OBVIOUS
<1> QED
  BY <1>1, MulMono, MulNat

LEMMA Numbers ==
  /\ ONE \in Nat \ {0} /\ threshold \in Nat \ {0} /\ threshold < ONE
  /\ ONE - threshold \in Nat \ {0}
  /\ linklimit \in Nat \ {0} /\ rate \in Nat /\ rate <= linklimit /\ rate <= ONE
BY UnitAssumption

LEMMA LevelType == \A l \in Level : l \in Nat /\ l <= ONE /\ ONE - l \in Level
BY Numbers DEF Level

(* A depolarisation that matches after scaling is above the threshold, and   *)
(* what it makes the slot respond is at most the scale.                      *)
LEMMA ScaleType ==
  ASSUME NEW t \in Level, NEW f \in Level, t * f >= threshold * ONE
  PROVE  /\ t - threshold \in Nat
         /\ (t - threshold) * f \in Nat
         /\ ((t - threshold) * f) \div (ONE - threshold) \in 0 .. f
<1>1. t \in Nat /\ t <= ONE /\ f \in Nat /\ f <= ONE
  BY LevelType
<1>2. t * f <= t * ONE /\ t * f \in Nat /\ t * ONE \in Nat /\ threshold * ONE \in Nat
  BY <1>1, MulMono, MulNat, Numbers
<1>3. t >= threshold
  <2> SUFFICES ASSUME t + 1 <= threshold PROVE FALSE
    BY <1>1, Numbers
  <2>1. (t + 1) * ONE <= threshold * ONE
    BY <1>1, MulMono, Numbers
  <2>2. (t + 1) * ONE = t * ONE + ONE
    BY <1>1, Numbers, SMT
  <2> QED
    BY <1>2, <2>1, <2>2, Numbers
<1>4. t - threshold \in Nat /\ t - threshold <= ONE - threshold
  BY <1>1, <1>3, Numbers
<1>5. (t - threshold) * f <= (ONE - threshold) * f /\ (t - threshold) * f \in Nat
  BY <1>1, <1>4, MulMono, MulNat, Numbers
<1>6. (ONE - threshold) * f = f * (ONE - threshold)
  BY <1>1, Numbers, SMT
<1>7. ((t - threshold) * f) \div (ONE - threshold) <= f
  BY <1>1, <1>5, <1>6, DivAtMost, Numbers
<1>8. ((t - threshold) * f) \div (ONE - threshold) \in Nat
  BY <1>5, DivBound, Numbers
<1> QED
  BY <1>1, <1>4, <1>5, <1>7, <1>8

(* What a match leaves is at most what there was. *)
LEMMA LeftType ==
  ASSUME factor \in Level, NEW out \in Level
  PROVE  Left(out) \in 0 .. factor
<1>1. factor \in Nat /\ ONE - out \in 0 .. ONE
  BY LevelType DEF Level
<1>2. factor * (ONE - out) <= factor * ONE /\ factor * (ONE - out) \in Nat
  BY <1>1, ShareAtMost, Numbers
<1>3. (factor * (ONE - out)) \div ONE \in Nat /\ (factor * (ONE - out)) \div ONE <= factor
  BY <1>1, <1>2, DivBound, DivAtMost, Numbers
<1> QED
  BY <1>1, <1>3 DEF Left

LEMMA DepolType ==
  ASSUME TypeOK, NEW i \in Inputs, NEW j \in Outputs
  PROVE  /\ Depol(i, j) \in Nat
         /\ linklimit * Depol(i, j) <= strength[<<i, j>>] * ONE
<1> DEFINE s == strength[<<i, j>>]
<1>1. inputs[i] \in 0 .. ONE /\ s \in Nat
  BY LevelType DEF TypeOK, Pairs, Level
<1> HIDE DEF s
<1>2. inputs[i] * s = s * inputs[i] /\ s * inputs[i] <= s * ONE /\ s * inputs[i] \in Nat
  <2>1. inputs[i] * s = s * inputs[i]
    BY <1>1, Numbers, SMT
  <2> QED
    BY <1>1, <2>1, ShareAtMost, Numbers
<1>3. /\ (s * inputs[i]) \div linklimit \in Nat
      /\ linklimit * ((s * inputs[i]) \div linklimit) <= s * inputs[i]
  BY <1>2, DivBound, Numbers
<1>4. linklimit * ((s * inputs[i]) \div linklimit) \in Nat /\ s * ONE \in Nat
  BY <1>1, <1>3, MulNat, Numbers
<1>5. Depol(i, j) = (s * inputs[i]) \div linklimit
  BY <1>2 DEF Depol, s
<1> QED
  BY <1>2, <1>3, <1>4, <1>5 DEF s

LEMMA DepolNat ==
  ASSUME TypeOK, NEW i \in Inputs, NEW j \in Outputs
  PROVE  Depol(i, j) \in Nat
BY DepolType

(* Learning leaves a strength in [0, 1] with no clamp: what is taken off is  *)
(* at most the strength, since the rate is at most the limit of a link, and  *)
(* what is added at most what is missing.                                    *)
LEMMA LearnedType ==
  ASSUME TypeOK, NEW i \in Inputs, NEW j \in Outputs
  PROVE  Learned(i, j) \in Level
<1> DEFINE s == strength[<<i, j>>]
           d == Depol(i, j)
           out == newoutput
<1>1. /\ inputs[i] \in 0 .. ONE /\ s \in 0 .. ONE /\ s \in Nat /\ out \in 0 .. ONE /\ out \in Nat
      /\ ONE - s \in Nat /\ rate \in 0 .. ONE
  BY LevelType, Numbers DEF TypeOK, Pairs, Level
<1>2. d \in Nat /\ linklimit * d <= s * ONE
  BY DepolType
<1> HIDE DEF s, d, out
<1>3. (d * out * rate) \div (ONE * ONE) \in 0 .. s
  <2>1. rate * d <= s * ONE /\ rate * d \in Nat /\ s * ONE \in Nat
    <3>1. rate * d <= linklimit * d /\ rate * d \in Nat /\ linklimit * d \in Nat /\ s * ONE \in Nat
      BY <1>1, <1>2, MulMono, MulNat, Numbers
    <3> QED
      BY <1>2, <3>1
  <2>2. (rate * d) * out <= (s * ONE) * out /\ (rate * d) * out \in Nat /\ (s * ONE) * out \in Nat
    BY <1>1, <2>1, MulMono, MulNat
  <2>3. (s * ONE) * out <= (s * ONE) * ONE
    BY <1>1, <2>1, ShareAtMost, Numbers
  <2>4. d * out * rate = (rate * d) * out
    BY <1>1, <1>2, Numbers, SMT
  <2>5. (s * ONE) * ONE = s * (ONE * ONE) /\ ONE * ONE \in Nat \ {0} /\ s * (ONE * ONE) \in Nat
    BY <1>1, Numbers, SMT
  <2>6. d * out * rate \in Nat /\ d * out * rate <= s * (ONE * ONE)
    BY <2>2, <2>3, <2>4, <2>5
  <2> QED
    BY <1>1, <2>5, <2>6, DivAtMost, DivBound
<1>4. (inputs[i] * (ONE - s) * out * rate) \div (ONE * ONE * ONE) \in 0 .. ONE - s
  <2> DEFINE c == ONE - s
  <2>0. c \in Nat
    BY <1>1
  <2> HIDE DEF c
  <2>1. /\ inputs[i] * c = c * inputs[i]
        /\ c * inputs[i] <= c * ONE /\ c * inputs[i] \in Nat /\ c * ONE \in Nat
    <3>1. inputs[i] * c = c * inputs[i]
      BY <1>1, <2>0, Numbers, SMT
    <3> QED
      BY <1>1, <2>0, <3>1, ShareAtMost, MulNat, Numbers
  <2> DEFINE a == inputs[i] * c
             m == c * ONE
  <2>2. a \in Nat /\ m \in Nat /\ a <= m
    BY <2>1
  <2> HIDE DEF a, m
  <2>3. a * out <= m * out /\ m * out <= m * ONE /\ a * out \in Nat /\ m * ONE \in Nat /\ m * out \in Nat
    BY <1>1, <2>2, MulMono, MulNat, ShareAtMost, Numbers
  <2> DEFINE b == a * out
             n == m * ONE
  <2>4. b \in Nat /\ n \in Nat /\ b <= n
    BY <2>3
  <2> HIDE DEF b, n
  <2>5. /\ b * rate <= n * rate /\ n * rate <= n * ONE
        /\ b * rate \in Nat /\ n * ONE \in Nat /\ n * rate \in Nat
    BY <1>1, <2>4, MulMono, MulNat, ShareAtMost, Numbers
  <2>6. n * ONE = c * (ONE * ONE * ONE) /\ ONE * ONE * ONE \in Nat \ {0}
    <3>1. c * ONE * ONE * ONE = c * (ONE * ONE * ONE)
      BY <2>0, Numbers, SMT
    <3>2. ONE * ONE \in Nat \ {0}
      BY Numbers, SMT
    <3>3. (ONE * ONE) * ONE \in Nat \ {0}
      BY <3>2, Numbers, SMT
    <3> QED
      BY <3>1, <3>3 DEF n, m
  <2>7. b * rate \in Nat /\ b * rate <= c * (ONE * ONE * ONE)
    BY <2>5, <2>6
  <2>8. (b * rate) \div (ONE * ONE * ONE) \in 0 .. c
    <3> DEFINE cube == ONE * ONE * ONE
    <3>1. cube \in Nat \ {0} /\ b * rate \in Nat /\ b * rate <= c * cube
      BY <2>6, <2>7
    <3> HIDE DEF cube
    <3>2. (b * rate) \div cube <= c /\ (b * rate) \div cube \in Nat
      BY <2>0, <3>1, DivAtMost, DivBound
    <3> QED
      BY <2>0, <3>2 DEF cube
  <2> QED
    BY <2>8 DEF a, b, c
<1>5. Learned(i, j) = IF depolsum >= threshold
                      THEN s - (d * out * rate) \div (ONE * ONE)
                      ELSE s + (inputs[i] * (ONE - s) * out * rate) \div (ONE * ONE * ONE)
  BY DEF Learned, s, d, out
<1>6. \A q \in 0 .. s : s - q \in Level
  BY <1>1, Numbers DEF Level
<1>7. \A q \in 0 .. ONE - s : s + q \in Level
  BY <1>1, Numbers DEF Level
<1> QED
  BY <1>3, <1>4, <1>5, <1>6, <1>7

\* A link of a silent input, or one of a slot that does not respond, stays as it is.
LEMMA LearnedLocal ==
  ASSUME TypeOK, NEW i \in Inputs, NEW j \in Outputs, inputs[i] = 0 \/ newoutput = 0
  PROVE  Learned(i, j) = strength[<<i, j>>]
<1> DEFINE s == strength[<<i, j>>]
<1>1. s \in Int /\ ONE - s \in Int /\ newoutput \in Int /\ inputs[i] \in Int /\ rate \in Int
  BY LevelType, Numbers DEF TypeOK, Pairs, Level
<1>2. Depol(i, j) \in Int
  <2>1. Depol(i, j) \in Nat
    BY DepolNat
  <2> QED
    BY <2>1
<1>3. ONE * ONE \in Nat \ {0} /\ ONE * ONE * ONE \in Nat \ {0}
  <2>1. ONE * ONE \in Nat \ {0}
    BY Numbers, SMT
  <2> QED
    BY <2>1, Numbers, SMT
<1>4. \A m \in Nat \ {0} : 0 \div m = 0
  BY SMT
<1> HIDE DEF s
<1>5. inputs[i] = 0 => Depol(i, j) = 0
  <2>1. inputs[i] = 0 => inputs[i] * s = 0
    BY <1>1, SMT
  <2> QED
    BY <1>4, <2>1, Numbers DEF Depol, s
<1>6. Depol(i, j) * newoutput * rate = 0
  <2> DEFINE d == Depol(i, j)
  <2>1. d \in Int /\ (d = 0 \/ newoutput = 0)
    BY <1>2, <1>5
  <2> HIDE DEF d
  <2>2. d * newoutput = 0
    BY <1>1, <2>1, SMT
  <2>3. 0 * rate = 0
    BY <1>1, SMT
  <2> QED
    BY <2>2, <2>3 DEF d
<1>7. inputs[i] * (ONE - s) * newoutput * rate = 0
  <2> DEFINE c == inputs[i] * (ONE - s)
  <2>1. c \in Int /\ (inputs[i] = 0 => c = 0)
    BY <1>1, SMT
  <2> HIDE DEF c
  <2>2. c * newoutput = 0
    BY <1>1, <2>1, SMT
  <2>3. 0 * rate = 0
    BY <1>1, SMT
  <2> QED
    BY <2>2, <2>3 DEF c
<1>8. s - 0 = s /\ s + 0 = s
  BY <1>1
<1> QED
  BY <1>3, <1>4, <1>6, <1>7, <1>8 DEF Learned, s

-----------------------------------------------------------------------------
(* Type correctness *)

LEMMA NoSlotOut == NoSlot \notin Outputs
BY DEF NoSlot, Outputs

\* What the locals hold at each stage.
Staged ==
  /\ stage = "rest" => todo = {}
  /\ stage = "sum" => todo = Outputs
  /\ stage # "learn" => slot = NoSlot
  /\ stage = "learn" => slot \in todo

LEMMA TypeInit == Init => TypeOK /\ Staged
<1> SUFFICES ASSUME Init PROVE TypeOK /\ Staged
  OBVIOUS
<1>1. 0 \in Level /\ ONE \in Level
  BY Numbers DEF Level
<1>2. strength \in [Pairs -> Level]
  <2>1. ASSUME NEW p \in Pairs
        PROVE  Falloff(Distance2(p[1], p[2])) \in Level
    <3>1. p[1] \in Inputs /\ p[2] \in Outputs
      BY DEF Pairs
    <3> QED
      BY <3>1, UnitAssumption DEF Level
  <2> QED
    BY <2>1 DEF Init
<1>3. inputs \in [Inputs -> Level] /\ outputs \in [Outputs -> Level] /\ total \in [Outputs -> Level]
  BY <1>1 DEF Init
<1>4. was \in [outputs : [Outputs -> Level], strength : [Pairs -> Level]]
  BY <1>2, <1>3 DEF Init, Now
<1>5. total \in [Outputs -> Nat]
  BY DEF Init
<1>6. /\ stage = "rest" /\ tosum = {} /\ factor \in Level /\ todo = {}
      /\ slot = NoSlot /\ newoutput \in Level /\ tolearn = {} /\ depolsum \in Nat
  BY <1>1 DEF Init
<1> QED
  BY <1>2, <1>3, <1>4, <1>5, <1>6 DEF TypeOK, Staged

LEMMA MatchType ==
  ASSUME TypeOK, stage = "match", NEW j \in Outputs, Matches(j)
  PROVE  Response(j) \in 0 .. factor /\ Response(j) \in Level /\ Left(Response(j)) \in 0 .. factor
<1>1. total[j] \in Level /\ factor \in Level /\ total[j] * factor >= threshold * ONE
  BY DEF TypeOK, Matches
<1>2. Response(j) \in 0 .. factor
  BY <1>1, ScaleType DEF Response
<1>3. Response(j) \in Level
  BY <1>1, <1>2, Numbers DEF Level
<1> QED
  BY <1>1, <1>2, <1>3, LeftType

LEMMA RespondType ==
  ASSUME TypeOK, NEW j \in Outputs, NEW out \in Level, Respond(j, out)
  PROVE  outputs' \in [Outputs -> Level] /\ todo' \subseteq Outputs
BY DEF TypeOK, Respond

LEMMA TypeNext == TypeOK /\ Staged /\ [Next]_vars => (TypeOK /\ Staged)'
<1> SUFFICES ASSUME TypeOK, Staged, [Next]_vars
             PROVE  TypeOK' /\ Staged'
  OBVIOUS
<1>1. CASE UNCHANGED vars
  BY <1>1 DEF vars, unitvars, learnvars, TypeOK, Staged
<1>2. Now \in [outputs : [Outputs -> Level], strength : [Pairs -> Level]]
  BY DEF TypeOK, Now
<1>3. CASE Write
  <2>1. inputs' \in [Inputs -> Level]
    BY <1>3, UnitAssumption DEF Write, Level
  <2> QED
    BY <1>2, <1>3, <2>1 DEF Write, unitvars, learnvars, TypeOK, Staged
<1>4. CASE Begin
  <2>1. total' \in [Outputs -> Nat] /\ factor' \in Level
    BY <1>4, Numbers DEF Begin, Level
  <2> QED
    BY <1>2, <1>4, <2>1 DEF Begin, unitvars, learnvars, TypeOK, Staged
<1>5. CASE Depolarise
  <2> PICK p \in tosum : /\ total' = [total EXCEPT ![p[2]] = @ + Depol(p[1], p[2])]
                         /\ tosum' = tosum \ {p}
    BY <1>5 DEF Depolarise
  <2>1. p[1] \in Inputs /\ p[2] \in Outputs
    BY DEF TypeOK, Pairs
  <2>2. Depol(p[1], p[2]) \in Nat
    BY <2>1, DepolNat
  <2>3. total' \in [Outputs -> Nat]
    <3>1. total \in [Outputs -> Nat]
      BY DEF TypeOK
    <3> QED
      BY <2>1, <2>2, <3>1
  <2> QED
    BY <1>5, <2>3 DEF Depolarise, unitvars, learnvars, TypeOK, Staged
<1>6. CASE Restrict
  <2>1. \A n \in Nat : AtMostOne(n) \in Level
    BY Numbers DEF AtMostOne, Level
  <2>2. total' \in [Outputs -> Level]
    BY <1>6, <2>1 DEF Restrict, TypeOK
  <2>3. total' \in [Outputs -> Nat]
    BY <2>2, LevelType
  <2> QED
    BY <1>6, <2>2, <2>3 DEF Restrict, unitvars, learnvars, TypeOK, Staged
<1>7. ASSUME NEW j \in Outputs, Mismatch(j)
      PROVE  TypeOK' /\ Staged'
  <2>1. 0 \in Level
    BY Numbers DEF Level
  <2>2. outputs' \in [Outputs -> Level] /\ todo' \subseteq Outputs
    BY <1>7, <2>1, RespondType DEF Mismatch
  <2> QED
    BY <1>7, <2>2 DEF Mismatch, learnvars, TypeOK, Staged
<1>8. ASSUME NEW j \in Outputs, Renew(j)
      PROVE  TypeOK' /\ Staged'
  <2>1. Response(j) \in Level /\ Left(Response(j)) \in Level
    BY <1>8, MatchType, LevelType, Numbers DEF Renew, Level, TypeOK
  <2>2. outputs' \in [Outputs -> Level] /\ todo' \subseteq Outputs
    BY <1>8, <2>1, RespondType DEF Renew
  <2> QED
    BY <1>8, <2>1, <2>2 DEF Renew, learnvars, TypeOK, Staged
<1>9. ASSUME NEW j \in Outputs, Match(j)
      PROVE  TypeOK' /\ Staged'
  <2>1. Response(j) \in Level /\ Left(Response(j)) \in Level
    BY <1>9, MatchType, LevelType, Numbers DEF Match, Level, TypeOK
  <2> QED
    BY <1>9, <2>1 DEF Match, Best, unitvars, TypeOK, Staged
<1>10. CASE Learn
  <2> PICK i \in tolearn :
        /\ strength' = [strength EXCEPT ![<<i, slot>>] = Learned(i, slot)]
        /\ depolsum' = depolsum + Depol(i, slot)
        /\ tolearn' = tolearn \ {i}
    BY <1>10 DEF Learn
  <2>1. i \in Inputs /\ slot \in Outputs
    BY <1>10 DEF Learn, TypeOK, Staged
  <2>2. Learned(i, slot) \in Level /\ Depol(i, slot) \in Nat
    BY <2>1, LearnedType, DepolNat
  <2>3. strength' \in [Pairs -> Level]
    <3> DEFINE l == Learned(i, slot)
    <3>1. strength \in [Pairs -> Level] /\ l \in Level
      BY <2>2 DEF TypeOK
    <3>2. strength' = [strength EXCEPT ![<<i, slot>>] = l]
      OBVIOUS
    <3> HIDE DEF l
    <3> QED
      BY <3>1, <3>2
  <2>4. depolsum' \in Nat
    <3> DEFINE d == Depol(i, slot)
    <3>1. depolsum \in Nat /\ d \in Nat /\ depolsum' = depolsum + d
      BY <2>2 DEF TypeOK
    <3> HIDE DEF d
    <3> QED
      BY <3>1
  <2> QED
    BY <1>10, <2>3, <2>4 DEF Learn, TypeOK, Staged
<1>11. CASE Activate
  <2>1. slot \in Outputs /\ 0 \in Level
    BY <1>11, Numbers DEF Activate, TypeOK, Staged, Level
  <2>2. outputs' \in [Outputs -> Level] /\ todo' \subseteq Outputs
    BY <1>11, <2>1, RespondType DEF Activate, TypeOK
  <2> QED
    BY <1>11, <2>1, <2>2 DEF Activate, TypeOK, Staged
<1>12. CASE End
  BY <1>12 DEF End, unitvars, learnvars, TypeOK, Staged
<1> QED
  BY <1>1, <1>3, <1>4, <1>5, <1>6, <1>7, <1>8, <1>9, <1>10, <1>11, <1>12 DEF Next, Compete

\* Strengths, outputs and factors stay in [0, 1], for every size of unit and
\* every rate that is at most the limit of a link.
THEOREM TypeCorrect == Spec => [](TypeOK /\ Staged)
BY TypeInit, TypeNext, PTL DEF Spec
-----------------------------------------------------------------------------
(* The order of the slots *)

(* The higher the depolarisation and the scale, the higher the response. *)
LEMMA ScaleMono ==
  ASSUME NEW t \in Level, NEW u \in Level, t <= u,
         NEW f \in Level, NEW g \in Level, f <= g,
         t * f >= threshold * ONE
  PROVE  /\ u * g >= threshold * ONE
         /\ ((t - threshold) * f) \div (ONE - threshold) <= ((u - threshold) * g) \div (ONE - threshold)
<1>1. t \in Nat /\ u \in Nat /\ f \in Nat /\ g \in Nat
  BY LevelType
<1>2. t * f <= u * f /\ u * f <= u * g /\ t * f \in Int /\ u * f \in Int /\ u * g \in Int
  BY <1>1, MulMono
<1>3. u * g >= threshold * ONE
  <2>1. threshold * ONE \in Nat
    BY MulNat, Numbers
  <2> QED
    BY <1>2, <2>1
<1> DEFINE a == t - threshold
           b == u - threshold
<1>4. a \in Nat /\ b \in Nat /\ a <= b
  <2>1. a \in Nat
    BY ScaleType
  <2> QED
    BY <1>1, <2>1, Numbers
<1> HIDE DEF a, b
<1>5. a * f <= b * f /\ b * f <= b * g /\ a * f \in Nat /\ b * f \in Nat /\ b * g \in Nat
  BY <1>1, <1>4, MulMono, MulNat
<1>6. a * f <= b * g
  BY <1>5
<1>7. (a * f) \div (ONE - threshold) <= (b * g) \div (ONE - threshold)
  BY <1>5, <1>6, DivMono, Numbers
<1> QED
  BY <1>3, <1>7 DEF a, b

LEMMA Louder ==
  ASSUME TypeOK, stage # "sum", NEW i \in Outputs, NEW j \in Outputs,
         total[i] <= total[j], Matches(i)
  PROVE  Matches(j) /\ Response(i) <= Response(j)
<1>1. total[i] \in Level /\ total[j] \in Level /\ factor \in Level /\ factor <= factor
  BY Numbers DEF TypeOK, Level
<1>2. total[i] * factor >= threshold * ONE
  BY DEF Matches
<1> QED
  BY <1>1, <1>2, ScaleMono DEF Matches, Response

LEMMA Fainter ==
  ASSUME TypeOK, stage # "sum", NEW i \in Outputs,
         total' = total, factor' \in 0 .. factor, Matches(i)'
  PROVE  Matches(i) /\ Response(i)' <= Response(i)
<1>1. total[i] \in Level /\ factor \in Level /\ factor' \in Level /\ factor' <= factor
  BY Numbers DEF TypeOK, Level
<1>2. total[i] <= total[i]
  BY <1>1, Numbers DEF Level
<1>3. total[i] * factor' >= threshold * ONE
  BY DEF Matches
<1>4. /\ total[i] * factor >= threshold * ONE
      /\ ((total[i] - threshold) * factor') \div (ONE - threshold)
           <= ((total[i] - threshold) * factor) \div (ONE - threshold)
  BY <1>1, <1>2, <1>3, ScaleMono
<1> QED
  BY <1>4 DEF Matches, Response

LEMMA SameScale ==
  ASSUME total' = total, factor' = factor, NEW i
  PROVE  (Matches(i)' <=> Matches(i)) /\ Response(i)' = Response(i)
BY DEF Matches, Response

\* The slots that are done in this pass.
Done == Outputs \ todo

\* The slots that are done had the highest depolarisations and responded in
\* their order; each one at least as it would now, with less of the factor left.
Ordered ==
  /\ \A i \in Done, j \in todo : total[j] <= total[i]
  /\ \A i, j \in Done : total[j] < total[i] => outputs[j] <= outputs[i]
  /\ \A i \in Done : Matches(i) => Response(i) <= outputs[i]
  /\ stage = "learn" =>
       /\ \A k \in todo : total[k] <= total[slot]
       /\ \A i \in Done : newoutput <= outputs[i]
       /\ \A k \in todo : Matches(k) => Response(k) <= newoutput

LEMMA OrderedInit == Init => Ordered
<1> SUFFICES ASSUME Init PROVE Ordered
  OBVIOUS
<1>1. ASSUME NEW i \in Outputs, Matches(i) PROVE FALSE
  <2>1. total[i] * factor >= threshold * ONE /\ total[i] = 0 /\ factor = ONE
    BY <1>1 DEF Init, Matches
  <2>2. 0 * ONE = 0 /\ threshold * ONE \in Nat \ {0}
    BY Numbers, SMT
  <2> QED
    BY <2>1, <2>2
<1>2. todo = {} /\ stage = "rest" /\ total = [j \in Outputs |-> 0]
  BY DEF Init
<1>3. \A i, j \in Outputs : ~(total[j] < total[i])
  BY <1>2
<1> QED
  BY <1>1, <1>2, <1>3 DEF Ordered, Done

\* A step that leaves the slots as they are.
LEMMA OrderedSame ==
  ASSUME Ordered, UNCHANGED <<outputs, total, factor, todo>>,
         stage' = "learn" => stage = "learn" /\ UNCHANGED <<slot, newoutput>>
  PROVE  Ordered'
<1>1. \A i : (Matches(i)' <=> Matches(i)) /\ Response(i)' = Response(i)
  BY SameScale
<1> QED
  BY <1>1 DEF Ordered, Done

\* The best of the slots to do responds no higher than those done before it.
LEMMA OrderedRespond ==
  ASSUME TypeOK, Ordered, NEW j \in todo, NEW out \in Level,
         Respond(j, out), total' = total, stage' = "match",
         \A k \in todo : total[k] <= total[j],
         \A i \in Done : out <= outputs[i],
         \A i \in Done \cup {j} : Matches(i)' => Response(i)' <= outputs'[i]
  PROVE  Ordered'
<1>1. j \in Outputs /\ outputs' = [outputs EXCEPT ![j] = out] /\ todo' = todo \ {j}
  BY DEF TypeOK, Respond
<1>2. Done' = Done \cup {j} /\ j \notin Done
  BY <1>1 DEF Done
<1>3. outputs'[j] = out /\ \A i \in Done : outputs'[i] = outputs[i]
  BY <1>1, <1>2 DEF TypeOK, Done
<1>4. \A i \in Outputs : total[i] \in Nat
  BY DEF TypeOK
<1>5. ASSUME NEW i \in Done', NEW k \in todo'
      PROVE  total'[k] <= total'[i]
  BY <1>1, <1>2 DEF Ordered
<1>6. ASSUME NEW i \in Done', NEW k \in Done', total'[k] < total'[i]
      PROVE  outputs'[k] <= outputs'[i]
  <2>1. CASE k = j
    <3>1. i # j
      BY <1>1, <1>4, <1>6, <2>1
    <3> QED
      BY <1>2, <1>3, <2>1, <3>1
  <2>2. CASE k # j /\ i = j
    <3>1. total[j] <= total[k]
      BY <1>2, <2>2 DEF Ordered
    <3> QED
      BY <1>1, <1>2, <1>4, <1>6, <2>2, <3>1 DEF Done
  <2>3. CASE k # j /\ i # j
    BY <1>2, <1>3, <1>6, <2>3 DEF Ordered
  <2> QED
    BY <2>1, <2>2, <2>3
<1> QED
  BY <1>2, <1>5, <1>6 DEF Ordered

LEMMA OrderedNext == TypeOK /\ Staged /\ TypeOK' /\ Ordered /\ [Next]_vars => Ordered'
<1> SUFFICES ASSUME TypeOK, Staged, TypeOK', Ordered, [Next]_vars
             PROVE  Ordered'
  OBVIOUS
<1>1. CASE UNCHANGED vars
  BY <1>1, OrderedSame DEF vars, unitvars, learnvars
<1>2. CASE Write \/ End
  BY <1>2, OrderedSame DEF Write, End, unitvars, learnvars
<1>3. CASE Learn
  BY <1>3, OrderedSame DEF Learn
<1>4. CASE Begin \/ Depolarise \/ Restrict
  <2>1. todo' = Outputs /\ stage' # "learn"
    BY <1>4 DEF Begin, Depolarise, Restrict, Staged
  <2> QED
    BY <2>1 DEF Ordered, Done
<1>5. ASSUME NEW j \in Outputs, Mismatch(j)
      PROVE  Ordered'
  <2>1. /\ j \in todo /\ \A k \in todo : total[k] <= total[j]
        /\ Respond(j, 0) /\ total' = total /\ factor' = factor /\ stage' = "match"
        /\ ~Matches(j)
    BY <1>5 DEF Mismatch, Best
  <2>2. 0 \in Level /\ \A i \in Done : 0 <= outputs[i]
    BY Numbers, LevelType DEF TypeOK, Level, Done
  <2>3. \A i \in Done : outputs'[i] = outputs[i]
    BY <2>1 DEF Respond, TypeOK, Done
  <2>4. \A i \in Done \cup {j} : Matches(i)' => Response(i)' <= outputs'[i]
    BY <2>1, <2>3, SameScale DEF Ordered
  <2> QED
    BY <2>1, <2>2, <2>4, OrderedRespond
<1>6. ASSUME NEW j \in Outputs, stage = "match", Best(j), Matches(j)
      PROVE  \A i \in Done : Response(j) <= outputs[i]
  <2> TAKE i \in Done
  <2>1. total[j] <= total[i] /\ i \in Outputs
    BY <1>6 DEF Ordered, Best, Done
  <2>2. Matches(i) /\ Response(j) <= Response(i)
    BY <1>6, <2>1, Louder
  <2>3. Response(i) <= outputs[i]
    BY <2>2 DEF Ordered
  <2>4. Response(i) \in Nat /\ Response(j) \in Nat /\ outputs[i] \in Nat
    BY <1>6, <2>1, <2>2, MatchType, LevelType DEF TypeOK
  <2> QED
    BY <2>2, <2>3, <2>4
<1>7. ASSUME NEW i \in Outputs, stage = "match", total' = total, factor' \in 0 .. factor, Matches(i)'
      PROVE  /\ Matches(i) /\ Response(i)' \in Nat /\ Response(i) \in Nat
             /\ Response(i)' <= Response(i)
  <2>1. Matches(i) /\ Response(i)' <= Response(i)
    BY <1>7, Fainter
  <2>2. Response(i) \in Nat
    BY <1>7, <2>1, MatchType, LevelType
  <2>3. Response(i)' \in Nat
    <3>1. total[i] \in Level /\ factor' \in Level
      BY <1>7, Numbers DEF TypeOK, Level
    <3>2. total[i] * factor' >= threshold * ONE
      BY <1>7 DEF Matches
    <3>3. ((total[i] - threshold) * factor') \div (ONE - threshold) \in 0 .. factor'
      BY <3>1, <3>2, ScaleType
    <3>4. Response(i)' \in 0 .. factor'
      BY <1>7, <3>3 DEF Response
    <3> QED
      BY <3>4
  <2> QED
    BY <2>1, <2>2, <2>3
<1>8. ASSUME NEW j \in Outputs, Renew(j)
      PROVE  Ordered'
  <2>1. /\ stage = "match" /\ Best(j) /\ Matches(j) /\ factor' = Left(Response(j))
        /\ j \in todo /\ \A k \in todo : total[k] <= total[j]
        /\ Respond(j, Response(j)) /\ total' = total /\ stage' = "match"
    BY <1>8 DEF Renew, Best
  <2>2. Response(j) \in Level /\ factor' \in 0 .. factor
    BY <2>1, MatchType
  <2>3. outputs'[j] = Response(j) /\ \A i \in Done : outputs'[i] = outputs[i]
    BY <2>1 DEF Respond, TypeOK, Done
  <2>4. ASSUME NEW i \in Done \cup {j}, Matches(i)'
        PROVE  Response(i)' <= outputs'[i]
    <3>1. /\ i \in Outputs /\ Matches(i) /\ Response(i)' \in Nat /\ Response(i) \in Nat
          /\ Response(i)' <= Response(i)
      BY <1>7, <2>1, <2>2, <2>4 DEF Done
    <3>2. outputs'[i] \in Nat
      BY <3>1, LevelType DEF TypeOK
    <3>3. Response(i) <= outputs'[i]
      <4>1. CASE i = j
        BY <2>3, <3>1, <4>1
      <4>2. CASE i \in Done
        BY <2>3, <3>1, <4>2 DEF Ordered
      <4> QED
        BY <2>4, <4>1, <4>2
    <3> QED
      BY <3>1, <3>2, <3>3
  <2> QED
    BY <1>6, <2>1, <2>2, <2>4, OrderedRespond
<1>9. ASSUME NEW j \in Outputs, Match(j)
      PROVE  Ordered'
  <2>1. /\ stage = "match" /\ Best(j) /\ Matches(j) /\ factor' = Left(Response(j))
        /\ j \in todo /\ \A k \in todo : total[k] <= total[j]
        /\ UNCHANGED <<outputs, total, todo>> /\ slot' = j /\ newoutput' = Response(j)
    BY <1>9 DEF Match, Best, unitvars
  <2>2. factor' \in 0 .. factor /\ Response(j) \in Nat
    BY <2>1, MatchType, LevelType
  <2>3. ASSUME NEW i \in Done, Matches(i)'
        PROVE  Response(i)' <= outputs[i]
    <3>1. /\ i \in Outputs /\ Matches(i) /\ Response(i)' \in Nat /\ Response(i) \in Nat
          /\ Response(i)' <= Response(i)
      BY <1>7, <2>1, <2>2, <2>3 DEF Done
    <3>2. Response(i) <= outputs[i] /\ outputs[i] \in Nat
      BY <3>1, LevelType DEF Ordered, TypeOK
    <3> QED
      BY <3>1, <3>2
  <2>4. ASSUME NEW k \in todo, Matches(k)'
        PROVE  Response(k)' <= Response(j)
    <3>1. /\ k \in Outputs /\ Matches(k) /\ Response(k)' \in Nat /\ Response(k) \in Nat
          /\ Response(k)' <= Response(k)
      BY <1>7, <2>1, <2>2, <2>4 DEF TypeOK
    <3>2. Response(k) <= Response(j)
      BY <2>1, <3>1, Louder
    <3> QED
      BY <2>2, <3>1, <3>2
  <2>5. Done' = Done /\ \A i \in Done : newoutput' <= outputs'[i]
    BY <1>6, <2>1 DEF Done
  <2> QED
    BY <2>1, <2>3, <2>4, <2>5 DEF Ordered
<1>10. CASE Activate
  <2>1. /\ slot \in todo /\ newoutput \in Level /\ stage = "learn"
        /\ Respond(slot, newoutput) /\ UNCHANGED <<total, factor>> /\ stage' = "match"
    BY <1>10 DEF Activate, Staged, TypeOK
  <2>2. \A k \in todo : total[k] <= total[slot]
    BY <2>1 DEF Ordered
  <2>3. outputs'[slot] = newoutput /\ \A i \in Done : outputs'[i] = outputs[i]
    BY <2>1 DEF Respond, TypeOK, Done
  <2>4. \A i \in Done \cup {slot} : Matches(i)' => Response(i)' <= outputs'[i]
    <3>1. \A i : (Matches(i)' <=> Matches(i)) /\ Response(i)' = Response(i)
      BY <2>1, SameScale
    <3> QED
      BY <2>1, <2>3, <3>1 DEF Ordered
  <2>5. \A i \in Done : newoutput <= outputs[i]
    BY <2>1 DEF Ordered
  <2> QED
    BY <2>1, <2>2, <2>4, <2>5, OrderedRespond
<1> QED
  BY <1>1, <1>2, <1>3, <1>4, <1>5, <1>8, <1>9, <1>10 DEF Next, Compete

\* Of two slots of a pass the one with the better match has the higher output,
\* for any number of slots and any precision.
THEOREM BestIsLoudest == Spec => []BestMatchLoudest
<1>1. Ordered => BestMatchLoudest
  BY DEF Ordered, BestMatchLoudest, Done
<1>2. TypeOK /\ Staged /\ Ordered /\ [Next]_vars => (TypeOK /\ Staged /\ Ordered)'
  BY TypeNext, OrderedNext
<1> QED
  BY <1>1, <1>2, TypeInit, OrderedInit, PTL DEF Spec
-----------------------------------------------------------------------------
(* The winner *)

(* A slot that responds at all takes something of the factor, and one that   *)
(* responds fully takes all of it.                                           *)
LEMMA LeftLess ==
  ASSUME factor \in Level, NEW out \in Level
  PROVE  /\ out > 0 => Left(out) < ONE
         /\ out = ONE => Left(out) = 0
<1>1. factor \in Nat /\ factor <= ONE /\ out \in Nat /\ out <= ONE /\ ONE - out \in Nat
  BY LevelType DEF Level
<1>2. ASSUME out > 0 PROVE Left(out) < ONE
  <2>1. ONE - 1 \in Nat /\ ONE - out <= ONE - 1
    BY <1>1, <1>2, Numbers
  <2>2. /\ factor * (ONE - out) <= ONE * (ONE - out) /\ factor * (ONE - out) \in Nat
        /\ ONE * (ONE - out) <= ONE * (ONE - 1) /\ ONE * (ONE - out) \in Nat
        /\ ONE * (ONE - 1) \in Nat
    BY <1>1, <2>1, MulMono, MulNat, Numbers
  <2>3. ONE * (ONE - 1) = (ONE - 1) * ONE
    BY Numbers, SMT
  <2>4. factor * (ONE - out) <= (ONE - 1) * ONE
    BY <2>2, <2>3
  <2>5. (factor * (ONE - out)) \div ONE <= ONE - 1 /\ (factor * (ONE - out)) \div ONE \in Nat
    BY <2>1, <2>2, <2>4, DivAtMost, DivBound, Numbers
  <2> DEFINE l == (factor * (ONE - out)) \div ONE
  <2>6. l <= ONE - 1 /\ l \in Nat
    BY <2>5
  <2> HIDE DEF l
  <2>7. l < ONE
    BY <2>6, Numbers
  <2> QED
    BY <2>7 DEF Left, l
<1>3. ASSUME out = ONE PROVE Left(out) = 0
  <2>1. ONE - out = 0
    BY <1>3, Numbers
  <2>2. factor * 0 = 0 /\ 0 \div ONE = 0
    BY <1>1, Numbers, SMT
  <2> QED
    BY <2>1, <2>2 DEF Left
<1> QED
  BY <1>2, <1>3

\* What the outputs of the slots that are done say of the factor that is left.
Won ==
  /\ \A i \in Done : /\ outputs[i] > 0 => factor < ONE
                     /\ outputs[i] = ONE => factor = 0
  /\ \A i, j \in Done : i # j /\ outputs[i] = ONE => outputs[j] = 0
  /\ stage = "learn" =>
       /\ newoutput > 0 => factor < ONE
       /\ newoutput = ONE => factor = 0
       /\ \A i \in Done : outputs[i] # ONE /\ (newoutput = ONE => outputs[i] = 0)

LEMMA WonInit == Init => Won
<1> SUFFICES ASSUME Init PROVE Won
  OBVIOUS
<1>1. stage = "rest" /\ \A i \in Outputs : outputs[i] = 0
  BY DEF Init
<1>2. ~(0 > 0) /\ 0 # ONE
  BY Numbers
<1> QED
  BY <1>1, <1>2 DEF Won, Done

\* A slot that matches finds no full response before it, and responds fully
\* only if there was no response at all.
LEMMA MatchWon ==
  ASSUME TypeOK, Won, NEW j \in Outputs, stage = "match", Matches(j)
  PROVE  /\ \A i \in Done : outputs[i] # ONE /\ (Response(j) = ONE => outputs[i] = 0)
         /\ Response(j) > 0 => Left(Response(j)) < ONE
         /\ Response(j) = ONE => Left(Response(j)) = 0
<1>1. Response(j) \in 0 .. factor /\ Response(j) \in Level /\ factor \in Level
  BY MatchType DEF TypeOK
<1>2. factor # 0
  <2> SUFFICES ASSUME factor = 0 PROVE FALSE
    OBVIOUS
  <2>1. total[j] \in Nat /\ total[j] * 0 >= threshold * ONE
    BY DEF Matches, TypeOK
  <2>2. total[j] * 0 = 0 /\ threshold * ONE \in Nat \ {0}
    BY <2>1, Numbers, SMT
  <2> QED
    BY <2>1, <2>2
<1>3. Response(j) = ONE => ~(factor < ONE)
  BY <1>1, Numbers DEF Level
<1>4. ASSUME NEW i \in Done, Response(j) = ONE PROVE outputs[i] = 0
  <2>1. outputs[i] \in Nat
    BY LevelType DEF TypeOK, Done
  <2> QED
    BY <1>3, <1>4, <2>1 DEF Won
<1>5. \A i \in Done : outputs[i] # ONE
  BY <1>2 DEF Won
<1> QED
  BY <1>1, <1>4, <1>5, LeftLess

LEMMA WonSame ==
  ASSUME Won, UNCHANGED <<outputs, factor, todo>>,
         stage' = "learn" => stage = "learn" /\ UNCHANGED newoutput
  PROVE  Won'
BY DEF Won, Done

LEMMA WonRespond ==
  ASSUME TypeOK, TypeOK', Won, NEW j \in todo, NEW out \in Level, Respond(j, out), stage' = "match",
         factor' \in 0 .. factor,
         out > 0 => factor' < ONE,
         out = ONE => factor' = 0,
         \A i \in Done : (outputs[i] = ONE => out = 0) /\ (out = ONE => outputs[i] = 0)
  PROVE  Won'
<1>1. j \in Outputs /\ outputs' = [outputs EXCEPT ![j] = out] /\ todo' = todo \ {j}
  BY DEF TypeOK, Respond
<1>2. Done' = Done \cup {j} /\ j \notin Done
  BY <1>1 DEF Done
<1>3. outputs'[j] = out /\ \A i \in Done : outputs'[i] = outputs[i]
  BY <1>1, <1>2 DEF TypeOK, Done
<1>4. factor \in Nat /\ factor' \in Nat /\ factor' <= factor
  BY LevelType DEF TypeOK
<1>5. (factor < ONE => factor' < ONE) /\ (factor = 0 => factor' = 0)
  BY <1>4, Numbers
<1>6. \A i \in Done' : /\ outputs'[i] > 0 => factor' < ONE
                       /\ outputs'[i] = ONE => factor' = 0
  BY <1>2, <1>3, <1>5 DEF Won
<1>7. \A i, k \in Done' : i # k /\ outputs'[i] = ONE => outputs'[k] = 0
  BY <1>2, <1>3 DEF Won
<1> QED
  BY <1>6, <1>7 DEF Won

LEMMA WonNext == TypeOK /\ Staged /\ TypeOK' /\ Won /\ [Next]_vars => Won'
<1> SUFFICES ASSUME TypeOK, Staged, TypeOK', Won, [Next]_vars
             PROVE  Won'
  OBVIOUS
<1>1. CASE UNCHANGED vars
  BY <1>1, WonSame DEF vars, unitvars, learnvars
<1>2. CASE Write \/ End \/ Learn
  BY <1>2, WonSame DEF Write, End, Learn, unitvars, learnvars
<1>3. CASE Begin \/ Depolarise \/ Restrict
  <2>1. todo' = Outputs /\ stage' # "learn"
    BY <1>3 DEF Begin, Depolarise, Restrict, Staged
  <2> QED
    BY <2>1 DEF Won, Done
<1>4. ASSUME NEW j \in Outputs, Mismatch(j)
      PROVE  Won'
  <2>1. j \in todo /\ Respond(j, 0) /\ stage' = "match" /\ factor' = factor
    BY <1>4 DEF Mismatch, Best
  <2>2. 0 \in Level /\ 0 # ONE /\ ~(0 > 0) /\ factor' \in 0 .. factor
    BY <2>1, Numbers DEF TypeOK, Level
  <2> QED
    BY <2>1, <2>2, WonRespond
<1>5. ASSUME NEW j \in Outputs, Renew(j)
      PROVE  Won'
  <2>1. /\ j \in todo /\ Respond(j, Response(j)) /\ stage' = "match"
        /\ stage = "match" /\ Matches(j) /\ factor' = Left(Response(j))
    BY <1>5 DEF Renew, Best
  <2>2. Response(j) \in Level /\ factor' \in 0 .. factor
    BY <2>1, MatchType
  <2>3. /\ \A i \in Done : outputs[i] # ONE /\ (Response(j) = ONE => outputs[i] = 0)
        /\ Response(j) > 0 => factor' < ONE
        /\ Response(j) = ONE => factor' = 0
    BY <2>1, MatchWon
  <2> QED
    BY <2>1, <2>2, <2>3, WonRespond
<1>6. ASSUME NEW j \in Outputs, Match(j)
      PROVE  Won'
  <2>1. /\ stage = "match" /\ Matches(j) /\ factor' = Left(Response(j)) /\ newoutput' = Response(j)
        /\ UNCHANGED <<outputs, todo>>
    BY <1>6 DEF Match, unitvars
  <2>2. /\ \A i \in Done : outputs[i] # ONE /\ (Response(j) = ONE => outputs[i] = 0)
        /\ Response(j) > 0 => factor' < ONE
        /\ Response(j) = ONE => factor' = 0
    BY <2>1, MatchWon
  <2>3. (factor < ONE => factor' < ONE) /\ (factor = 0 => factor' = 0)
    <3>1. factor' \in 0 .. factor /\ factor \in Nat
      BY <2>1, MatchType, LevelType DEF TypeOK
    <3> QED
      BY <3>1, Numbers
  <2> QED
    BY <2>1, <2>2, <2>3 DEF Won, Done
<1>7. CASE Activate
  <2>1. /\ slot \in todo /\ newoutput \in Level /\ stage = "learn"
        /\ Respond(slot, newoutput) /\ factor' = factor /\ stage' = "match"
    BY <1>7 DEF Activate, Staged, TypeOK
  <2>2. factor' \in 0 .. factor
    BY <2>1, Numbers DEF TypeOK, Level
  <2> QED
    BY <2>1, <2>2, WonRespond DEF Won
<1> QED
  BY <1>1, <1>2, <1>3, <1>4, <1>5, <1>6, <1>7 DEF Next, Compete

\* A slot that responds fully silences all the others.
THEOREM WinnerSilencesAll == Spec => []WinnerTakesAll
<1>1. Staged /\ Won => WinnerTakesAll
  BY DEF Staged, Won, WinnerTakesAll, Done
<1>2. TypeOK /\ Staged /\ Won /\ [Next]_vars => (TypeOK /\ Staged /\ Won)'
  BY TypeNext, WonNext
<1> QED
  BY <1>1, <1>2, TypeInit, WonInit, PTL DEF Spec
-----------------------------------------------------------------------------
(* What a pass learns *)

\* A link that changed in this pass is one of an input that is not silent, to
\* a slot that was silent and has responded, or learns and is about to.
Local ==
  /\ \A p \in Pairs : strength[p] # was.strength[p] =>
       /\ inputs[p[1]] > 0 /\ was.outputs[p[2]] = 0
       /\ \/ p[2] \in Done /\ outputs[p[2]] > 0
          \/ p[2] = slot /\ newoutput > 0
  /\ \A j \in todo : outputs[j] = was.outputs[j]
  /\ stage = "learn" => outputs[slot] = 0

LEMMA LocalInit == Init => Local
<1> SUFFICES ASSUME Init PROVE Local
  OBVIOUS
<1>1. todo = {} /\ stage = "rest" /\ was.strength = strength
  BY DEF Init, Now
<1> QED
  BY <1>1 DEF Local

\* Nothing has changed where a pass begins.
LEMMA LocalNow ==
  ASSUME was' = Now, UNCHANGED unitvars, stage' # "learn"
  PROVE  Local'
<1>1. was'.strength = strength /\ was'.outputs = outputs
  BY DEF Now
<1>2. strength' = strength /\ outputs' = outputs
  BY DEF unitvars
<1> QED
  BY <1>1, <1>2 DEF Local

LEMMA LocalSame ==
  ASSUME Local, UNCHANGED <<inputs, outputs, strength, todo, slot, newoutput, was>>,
         stage' = "learn" => stage = "learn"
  PROVE  Local'
BY DEF Local, Done

\* The slot that responds is no longer to do; if it learned, it responds with
\* what it learned with.
LEMMA LocalRespond ==
  ASSUME TypeOK, Staged, Local, NEW j \in todo, NEW out \in Level, Respond(j, out), stage' = "match",
         UNCHANGED <<inputs, strength, was>>,
         slot \in Outputs => slot = j /\ out = newoutput
  PROVE  Local'
<1>1. j \in Outputs /\ outputs' = [outputs EXCEPT ![j] = out] /\ todo' = todo \ {j}
  BY DEF TypeOK, Respond
<1>2. Done' = Done \cup {j} /\ j \notin Done
  BY <1>1 DEF Done
<1>3. outputs'[j] = out /\ \A k \in Outputs \ {j} : outputs'[k] = outputs[k]
  BY <1>1 DEF TypeOK
<1>4. ASSUME NEW p \in Pairs, strength'[p] # was'.strength[p]
      PROVE  inputs'[p[1]] > 0 /\ was'.outputs[p[2]] = 0 /\ p[2] \in Done' /\ outputs'[p[2]] > 0
  <2>1. p[2] \in Outputs
    BY DEF Pairs
  <2>2. /\ inputs[p[1]] > 0 /\ was.outputs[p[2]] = 0
        /\ \/ p[2] \in Done /\ outputs[p[2]] > 0
           \/ p[2] = slot /\ newoutput > 0
    BY <1>4 DEF Local
  <2>3. CASE p[2] = j
    BY <1>2, <1>3, <2>1, <2>2, <2>3
  <2>4. CASE p[2] # j
    BY <1>2, <1>3, <2>1, <2>2, <2>4
  <2> QED
    BY <2>3, <2>4
<1>5. \A k \in todo' : outputs'[k] = was'.outputs[k]
  BY <1>1, <1>3 DEF Local, TypeOK
<1> QED
  BY <1>4, <1>5 DEF Local

LEMMA LocalLearn == TypeOK /\ Staged /\ Local /\ Learn => Local'
<1> SUFFICES ASSUME TypeOK, Staged, Local, Learn PROVE Local'
  OBVIOUS
<1>1. PICK i \in tolearn : strength' = [strength EXCEPT ![<<i, slot>>] = Learned(i, slot)]
  BY DEF Learn
<1>2. /\ i \in Inputs /\ slot \in Outputs /\ slot \in todo /\ stage = "learn"
      /\ UNCHANGED <<inputs, outputs, stage, todo, slot, newoutput, was>>
  BY DEF Learn, Staged, TypeOK
<1>3. was.outputs[slot] = 0
  BY <1>2 DEF Local
<1> DEFINE l == Learned(i, slot)
<1>4. l # strength[<<i, slot>>] => inputs[i] > 0 /\ newoutput > 0
  <2>1. inputs[i] \in Nat /\ newoutput \in Nat
    BY <1>2, LevelType DEF TypeOK
  <2>2. inputs[i] = 0 \/ newoutput = 0 => l = strength[<<i, slot>>]
    BY <1>2, LearnedLocal
  <2> QED
    BY <2>1, <2>2
<1>5. strength' = [strength EXCEPT ![<<i, slot>>] = l]
  BY <1>1
<1> HIDE DEF l
<1>6. ASSUME NEW p \in Pairs, strength'[p] # was'.strength[p]
      PROVE  /\ inputs'[p[1]] > 0 /\ was'.outputs[p[2]] = 0
             /\ \/ p[2] \in Done' /\ outputs'[p[2]] > 0
                \/ p[2] = slot' /\ newoutput' > 0
  <2>1. CASE strength[p] # was.strength[p]
    BY <1>2, <2>1 DEF Local, Done
  <2>2. CASE strength[p] = was.strength[p]
    <3>1. strength'[p] # strength[p]
      BY <1>2, <1>6, <2>2
    <3>2. p = <<i, slot>>
      BY <1>5, <3>1 DEF TypeOK
    <3>3. strength'[p] = l
      BY <1>5, <3>2 DEF TypeOK
    <3>4. inputs[i] > 0 /\ newoutput > 0
      BY <1>4, <3>1, <3>2, <3>3
    <3> QED
      BY <1>2, <1>3, <3>2, <3>4
  <2> QED
    BY <2>1, <2>2
<1> QED
  BY <1>2, <1>6 DEF Local

LEMMA LocalNext == TypeOK /\ Staged /\ Local /\ [Next]_vars => Local'
<1> SUFFICES ASSUME TypeOK, Staged, Local, [Next]_vars
             PROVE  Local'
  OBVIOUS
<1>1. CASE UNCHANGED vars
  BY <1>1, LocalSame DEF vars, unitvars, learnvars
<1>2. CASE Depolarise \/ Restrict \/ End
  BY <1>2, LocalSame DEF Depolarise, Restrict, End, unitvars, learnvars
<1>3. CASE Write \/ Begin
  <2>1. was' = Now /\ UNCHANGED unitvars /\ stage' # "learn"
    BY <1>3 DEF Write, Begin
  <2> QED
    BY <2>1, LocalNow
<1>4. CASE Learn
  BY <1>4, LocalLearn
<1>5. ASSUME NEW j \in Outputs, Mismatch(j)
      PROVE  Local'
  <2>1. /\ j \in todo /\ Respond(j, 0) /\ stage' = "match" /\ slot \notin Outputs
        /\ UNCHANGED <<inputs, strength, was>>
    BY <1>5, NoSlotOut DEF Mismatch, Best, Staged
  <2>2. 0 \in Level
    BY Numbers DEF Level
  <2> QED
    BY <2>1, <2>2, LocalRespond
<1>6. ASSUME NEW j \in Outputs, Renew(j)
      PROVE  Local'
  <2>1. /\ j \in todo /\ Respond(j, Response(j)) /\ stage' = "match" /\ slot \notin Outputs
        /\ UNCHANGED <<inputs, strength, was>>
    BY <1>6, NoSlotOut DEF Renew, Best, Staged
  <2>2. Response(j) \in Level
    BY <1>6, MatchType DEF Renew
  <2> QED
    BY <2>1, <2>2, LocalRespond
<1>7. ASSUME NEW j \in Outputs, Match(j)
      PROVE  Local'
  <2>1. /\ slot = NoSlot /\ slot' = j /\ outputs[j] = 0
        /\ UNCHANGED <<inputs, outputs, strength, todo, was>>
    BY <1>7 DEF Match, Staged, unitvars
  <2>2. \A p \in Pairs : p[2] # NoSlot
    BY NoSlotOut DEF Pairs
  <2> QED
    BY <2>1, <2>2 DEF Local, Done
<1>8. CASE Activate
  <2>1. /\ slot \in todo /\ Respond(slot, newoutput) /\ stage' = "match"
        /\ newoutput \in Level /\ UNCHANGED <<inputs, strength, was>>
    BY <1>8 DEF Activate, Staged, TypeOK
  <2> QED
    BY <2>1, LocalRespond
<1> QED
  BY <1>1, <1>2, <1>3, <1>4, <1>5, <1>6, <1>7, <1>8 DEF Next, Compete

\* A pass changes no link of a silent input, of a slot that was active before
\* it or of one that it does not activate.
THEOREM LearnsLocally == Spec => []LearningIsLocal
<1>1. Local => LearningIsLocal
  BY DEF Local, LearningIsLocal
<1>2. TypeOK /\ Staged /\ Local /\ [Next]_vars => (TypeOK /\ Staged /\ Local)'
  BY TypeNext, LocalNext
<1> QED
  BY <1>1, <1>2, TypeInit, LocalInit, PTL DEF Spec
=============================================================================
