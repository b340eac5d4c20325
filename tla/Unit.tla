-------------------------------- MODULE Unit --------------------------------
(* Region::processUnit (fabric/src/region.cpp) on one unit: how its slots    *)
(* compete for the inputs and how the links learn.  Region shows who may     *)
(* interleave with it; here the inputs are written between passes.  Its two  *)
(* sums are made by loops and so are loops of steps here.                    *)
(* The floats of [0, 1] are multiples of 1 / ONE, products are truncated.    *)
EXTENDS RegionGeometry

CONSTANTS ONE,         \* 1.0
          threshold,   \* minimum match before activation (0.2)
          rate,        \* kLearnRate (0.01)
          linklimit,   \* 0.2 * insize, in multiples of 1 / ONE
          Falloff(_),  \* initial strength of a link by its squared length
          Patterns     \* the inputs a write may leave

\* The square of the distance of input i from the one slot j starts on.
Distance2(i, j) == LET dx == (i % uwidth) - (j % uwidth)
                       dy == (i \div uwidth) - (j \div uwidth)
                   IN  dx * dx + dy * dy

ASSUME UnitAssumption ==
  /\ ONE \in Nat \ {0} /\ threshold \in 1 .. ONE - 1 /\ linklimit \in Nat \ {0}
  /\ rate \in 0 .. linklimit /\ rate <= ONE
  /\ \A i \in Inputs, j \in Outputs : Falloff(Distance2(i, j)) \in 0 .. ONE
  /\ Patterns \subseteq [Inputs -> 0 .. ONE]

VARIABLES
  inputs, outputs, strength,                 \* the unit
  stage, total, tosum, factor, todo,         \* locals of processUnit: sums, links to add, slots to do
  slot, newoutput, tolearn, depolsum,        \* its locals while a slot learns
  was                                        \* history: the unit before this pass, or a later write

unitvars  == <<outputs, strength>>
learnvars == <<slot, newoutput, tolearn, depolsum>>
vars == <<inputs, unitvars, stage, total, tosum, factor, todo, learnvars, was>>

Level  == 0 .. ONE
Pairs  == Inputs \X Outputs
NoSlot == -1
Now    == [outputs |-> outputs, strength |-> strength]

Init ==
  /\ inputs = [i \in Inputs |-> 0]
  /\ outputs = [j \in Outputs |-> 0]
  /\ strength = [p \in Pairs |-> Falloff(Distance2(p[1], p[2]))]
  /\ stage = "rest" /\ total = [j \in Outputs |-> 0] /\ tosum = {}
  /\ factor = ONE /\ todo = {}
  /\ slot = NoSlot /\ newoutput = 0 /\ tolearn = {} /\ depolsum = 0
  /\ was = Now

Write ==
  /\ stage = "rest"
  /\ inputs' \in Patterns
  /\ was' = Now
  /\ UNCHANGED <<unitvars, stage, total, tosum, factor, todo, learnvars>>

-----------------------------------------------------------------------------
(* The depolarisations *)

\* The locals of processUnit are set up.
Begin ==
  /\ stage = "rest"
  /\ stage' = "sum" /\ tosum' = Pairs /\ todo' = Outputs
  /\ total' = [j \in Outputs |-> 0] /\ factor' = ONE
  /\ was' = Now
  /\ UNCHANGED <<inputs, unitvars, learnvars>>

\* What a link carries.  Only the links of a slot that has learned change in a
\* pass, and theirs is not used again: the product is still the one saved.
Depol(i, j) == (inputs[i] * strength[<<i, j>>]) \div linklimit

Depolarise ==
  /\ stage = "sum"
  /\ \E p \in tosum :
       /\ Upcoming(p, tosum)
       /\ total' = [total EXCEPT ![p[2]] = @ + Depol(p[1], p[2])]
       /\ tosum' = tosum \ {p}
  /\ UNCHANGED <<inputs, unitvars, stage, factor, todo, learnvars, was>>

\* Mutant: the sum is not restricted.
AtMostOne_Unrestricted(n) == n
AtMostOne(n) == IF n > ONE THEN ONE ELSE n

Restrict ==
  /\ stage = "sum" /\ tosum = {}
  /\ stage' = "match"
  /\ total' = [j \in Outputs |-> AtMostOne(total[j])]
  /\ UNCHANGED <<inputs, unitvars, tosum, factor, todo, learnvars, was>>

-----------------------------------------------------------------------------
(* The competition of the slots *)

\* Mutant: not sorted.
Best_Unsorted(j) == j \in todo
\* The slots come in the order of their depolarisation, highest first; ties
\* come in any order.
Best(j) == j \in todo /\ \A k \in todo : total[k] <= total[j]

Matches(j)  == total[j] * factor >= threshold * ONE
Response(j) == ((total[j] - threshold) * factor) \div (ONE - threshold)

Respond(j, out) ==
  /\ outputs' = [outputs EXCEPT ![j] = out]
  /\ todo' = todo \ {j}

Mismatch(j) ==
  /\ stage = "match" /\ Best(j) /\ ~Matches(j)
  /\ Respond(j, 0)
  /\ UNCHANGED <<inputs, strength, stage, total, tosum, factor, learnvars, was>>

\* Mutant: a match takes nothing from the rest.
Left_NoFactor(out) == factor
\* What a match leaves to the rest.
Left(out) == (factor * (ONE - out)) \div ONE

\* A slot that is active already is renewed.
Renew(j) ==
  /\ stage = "match" /\ Best(j) /\ Matches(j) /\ outputs[j] > 0
  /\ factor' = Left(Response(j))
  /\ Respond(j, Response(j))
  /\ UNCHANGED <<inputs, strength, stage, total, tosum, learnvars, was>>

\* One that was silent learns before it responds.
Match(j) ==
  /\ stage = "match" /\ Best(j) /\ Matches(j) /\ outputs[j] = 0
  /\ stage' = "learn"
  /\ factor' = Left(Response(j))
  /\ slot' = j /\ newoutput' = Response(j) /\ tolearn' = Inputs /\ depolsum' = 0
  /\ UNCHANGED <<inputs, unitvars, total, tosum, todo, was>>

-----------------------------------------------------------------------------
(* Learning *)

\* Mutant: the decay forgets the depolarisation.
Learned_Decays(i, j) ==
  LET s == strength[<<i, j>>]
  IN  IF depolsum >= threshold
      THEN s - (s * newoutput * rate) \div (ONE * ONE)
      ELSE s + (inputs[i] * (ONE - s) * newoutput * rate) \div (ONE * ONE * ONE)

\* The links that come when the threshold is reached are weakened, those
\* before strengthened.
Learned(i, j) ==
  LET s == strength[<<i, j>>]
  IN  IF depolsum >= threshold
      THEN s - (Depol(i, j) * newoutput * rate) \div (ONE * ONE)
      ELSE s + (inputs[i] * (ONE - s) * newoutput * rate) \div (ONE * ONE * ONE)

\* The links of the slot come in the order of their depolarisation, too.
Learn ==
  /\ stage = "learn"
  /\ \E i \in tolearn :
       /\ \A k \in tolearn : Depol(k, slot) <= Depol(i, slot)
       /\ strength' = [strength EXCEPT ![<<i, slot>>] = Learned(i, slot)]
       /\ depolsum' = depolsum + Depol(i, slot)
       /\ tolearn' = tolearn \ {i}
  /\ UNCHANGED <<inputs, outputs, stage, total, tosum, factor, todo, slot, newoutput, was>>

Activate ==
  /\ stage = "learn" /\ tolearn = {}
  /\ Respond(slot, newoutput)
  /\ stage' = "match" /\ slot' = NoSlot /\ newoutput' = 0 /\ depolsum' = 0
  /\ UNCHANGED <<inputs, strength, total, tosum, factor, tolearn, was>>

End ==
  /\ stage = "match" /\ todo = {}
  /\ stage' = "rest"
  /\ UNCHANGED <<inputs, unitvars, total, tosum, factor, todo, learnvars, was>>

Compete(j) == Mismatch(j) \/ Renew(j) \/ Match(j)
Next == \/ Write \/ Begin \/ Depolarise \/ Restrict \/ \E j \in Outputs : Compete(j)
        \/ Learn \/ Activate \/ End
Spec == Init /\ [][Next]_vars

-----------------------------------------------------------------------------
(* Properties *)

\* Type invariant: strengths, outputs and the factor stay within [0, 1],
\* though learning adds and subtracts without a clamp (region.cpp:226-246).
TypeOK ==
  /\ inputs \in [Inputs -> Level] /\ outputs \in [Outputs -> Level]
  /\ strength \in [Pairs -> Level]
  /\ stage \in {"rest", "sum", "match", "learn"}
  /\ total \in [Outputs -> Nat] /\ (stage # "sum" => total \in [Outputs -> Level])
  /\ tosum \subseteq Pairs /\ factor \in Level /\ todo \subseteq Outputs
  /\ slot \in Outputs \cup {NoSlot} /\ newoutput \in Level
  /\ tolearn \subseteq Inputs /\ depolsum \in Nat
  /\ was \in [outputs : [Outputs -> Level], strength : [Pairs -> Level]]

\* Of two slots of a pass the one with the better match has the higher output,
\* so the active slots are the best matches with no gap between them, although
\* each response is scaled by what the earlier ones left (region.cpp:225-227).
BestMatchLoudest ==
  \A i \in Outputs \ todo, j \in Outputs :
    /\ j \in todo => total[j] <= total[i]
    /\ j \notin todo /\ total[j] < total[i] => outputs[j] <= outputs[i]

\* A slot that responds fully silences all others, even those with the same
\* depolarisation (region.cpp:225-227).
WinnerTakesAll ==
  stage = "rest" => \A i, j \in Outputs : i # j /\ outputs[i] = ONE => outputs[j] = 0

\* A pass leaves alone every link of an input that is silent in it, of a slot
\* that was active before it and of one it does not activate, though links
\* are changed before the output is stored (region.cpp:230-264).
LearningIsLocal ==
  \A p \in Pairs : strength[p] # was.strength[p] =>
    /\ inputs[p[1]] > 0
    /\ was.outputs[p[2]] = 0
    /\ outputs[p[2]] > 0 \/ slot = p[2]
=============================================================================
