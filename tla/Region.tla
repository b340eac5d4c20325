------------------------------- MODULE Region -------------------------------
(* fabric/src/region.cpp as the threads of fabric/src/fabric.cpp run it.     *)
(*   - the RPC thread, one call at a time: Region::write scatters a frame    *)
(*     over the units, Region::reform gathers an image from them;            *)
(*   - the process thread runs Region::process for ever; each pass hands the *)
(*     unit columns to a team of OpenMP workers, ends when all are done      *)
(*     (the barrier of "omp parallel for") and starts the next.              *)
(* Nothing is locked, so every read or write of a shared float is a step.    *)
(* Floats are kept as what they derive from: an input as the frame and pixel *)
(* it was copied from, an output as the pass that stored it and whether it   *)
(* exceeds 0.0001, a link as the pass that last learned it.                  *)
EXTENDS RegionGeometry

CONSTANTS Workers,     \* the OpenMP team
          Calls,       \* what clients ask of the RPC thread
          MaxFrame,    \* bound: frames written
          MaxPass      \* bound: passes are told apart up to this number

ASSUME RegionAssumption == /\ Calls \subseteq {"write", "reform"}
                           /\ MaxFrame \in Nat
                           /\ MaxPass \in Nat \ {0}

VARIABLES
  inputs, outputs, links,            \* the units
  call, frame, todo,                 \* RPC thread: call, last frame begun, cells to write
  rtodo, tested, image, rbase,       \* RPC thread in reform
  pass, unclaimed,                   \* process thread: pass number, columns not handed out
  at, reads, seen, slots, slot, tolearn,  \* workers: locals of processUnit
  base, basis                        \* history: frames complete at its start, frames it read

rpcvars    == <<call, frame, todo, rtodo, tested, image, rbase>>
workervars == <<at, reads, seen, slots, slot, tolearn, base>>
unitvars   == <<inputs, outputs, links>>
vars == <<unitvars, rpcvars, pass, unclaimed, workervars, basis>>

Nowhere == <<>>                      \* a worker outside processUnit
NoSlot  == -1
NoPixel == -1

Frames  == 0 .. MaxFrame
Passes  == 0 .. MaxPass
Pairs   == Inputs \X Outputs
Output  == [pass : Passes, active : BOOLEAN]
Term    == [slot : Outputs, tested : Output, added : Output]

\* Frames whose write has returned.
Complete == IF call = "write" THEN frame - 1 ELSE frame

Init ==
  /\ inputs = [u \in Units |-> [k \in Inputs |-> [frame |-> 0, pixel |-> NoPixel]]]
  /\ outputs = [u \in Units |-> [j \in Outputs |-> [pass |-> 0, active |-> FALSE]]]
  /\ links = [u \in Units |-> [p \in Pairs |-> 0]]
  /\ call = "idle" /\ frame = 0 /\ todo = {}
  /\ rtodo = {} /\ tested = {} /\ image = [i \in Pixels |-> {}] /\ rbase = 0
  /\ pass = 0 /\ unclaimed = {}
  /\ at = [w \in Workers |-> Nowhere]
  /\ reads = [w \in Workers |-> {}]
  /\ seen = [w \in Workers |-> [p \in Pairs |-> 0]]
  /\ slots = [w \in Workers |-> {}]
  /\ slot = [w \in Workers |-> NoSlot]
  /\ tolearn = [w \in Workers |-> {}]
  /\ base = [w \in Workers |-> 0]
  /\ basis = [u \in Units |-> {0}]

-----------------------------------------------------------------------------
(* RPC thread, Region::write *)

StartWrite ==
  /\ call = "idle" /\ "write" \in Calls /\ frame < MaxFrame
  /\ call' = "write" /\ frame' = frame + 1 /\ todo' = Cells
  /\ UNCHANGED <<unitvars, rtodo, tested, image, rbase, pass, unclaimed, workervars, basis>>

WriteCell ==
  \E c \in todo :
    /\ Upcoming(c, todo)
    /\ inputs' = [inputs EXCEPT ![WriteUnit(c)][WriteInput(c)] =
                                [frame |-> frame, pixel |-> WritePixel(c)]]
    /\ todo' = todo \ {c}
    /\ UNCHANGED <<outputs, links, call, frame, rtodo, tested, image, rbase,
                   pass, unclaimed, workervars, basis>>

\* Mutant: write returns while cells are still to be copied.
EndWrite_Early ==
  /\ call = "write"
  /\ call' = "idle"
  /\ UNCHANGED <<unitvars, frame, todo, rtodo, tested, image, rbase, pass, unclaimed,
                 workervars, basis>>

EndWrite ==
  /\ call = "write" /\ todo = {}
  /\ call' = "idle"
  /\ UNCHANGED <<unitvars, frame, todo, rtodo, tested, image, rbase, pass, unclaimed,
                 workervars, basis>>

(* RPC thread, Region::reform: for each pixel i and slot j the output is     *)
(* tested, and if it is active counted and then read a second time.  The     *)
(* pixel keeps what each of its terms was when tested and when added; one    *)
(* that adds none divides by zero.                                           *)

StartReform ==
  /\ call = "idle" /\ "reform" \in Calls
  /\ call' = "reform" /\ rtodo' = Pixels \X Outputs /\ rbase' = pass
  /\ UNCHANGED <<unitvars, frame, todo, tested, image, pass, unclaimed, workervars, basis>>

ReformTest ==
  /\ tested = {}
  /\ \E r \in rtodo :
       LET o == outputs[ReformUnit(r[1])][r[2]] IN
       /\ Upcoming(r, rtodo)
       /\ IF o.active THEN tested' = {o} /\ UNCHANGED rtodo
                      ELSE rtodo' = rtodo \ {r} /\ UNCHANGED tested
  /\ UNCHANGED <<unitvars, call, frame, todo, image, rbase, pass, unclaimed, workervars, basis>>

ReformAdd ==
  /\ \E r \in rtodo, o \in tested :
       LET t == [slot |-> r[2], tested |-> o, added |-> outputs[ReformUnit(r[1])][r[2]]] IN
       /\ Upcoming(r, rtodo)
       /\ image' = [image EXCEPT ![r[1]] = @ \cup {t}]
       /\ rtodo' = rtodo \ {r}
  /\ tested' = {}
  /\ UNCHANGED <<unitvars, call, frame, todo, rbase, pass, unclaimed, workervars, basis>>

EndReform ==
  /\ call = "reform" /\ rtodo = {}
  /\ call' = "idle" /\ image' = [i \in Pixels |-> {}] /\ rbase' = 0
  /\ UNCHANGED <<unitvars, frame, todo, rtodo, tested, pass, unclaimed, workervars, basis>>

-----------------------------------------------------------------------------
(* Process thread: the next Region::process starts when the team has joined. *)

\* Mutant: "omp parallel for nowait".
Joined_NoWait == unclaimed = {}
Joined == unclaimed = {} /\ \A w \in Workers : at[w] = Nowhere

\* Mutant: a pass is run only while a frame arrives.
NextPass_WriterDriven ==
  /\ Joined /\ call = "write"
  /\ pass' = IF pass < MaxPass THEN pass + 1 ELSE pass
  /\ unclaimed' = Columns
  /\ UNCHANGED <<unitvars, rpcvars, workervars, basis>>

NextPass ==
  /\ Joined
  /\ pass' = IF pass < MaxPass THEN pass + 1 ELSE pass
  /\ unclaimed' = Columns
  /\ UNCHANGED <<unitvars, rpcvars, workervars, basis>>

\* Mutant: the loop over the slots begins at 1.
Enter_SkipsFirst(w, u) ==
  /\ at' = [at EXCEPT ![w] = u]
  /\ reads' = [reads EXCEPT ![w] = Pairs]
  /\ slots' = [slots EXCEPT ![w] = Outputs \ {0}]
  /\ base' = [base EXCEPT ![w] = Complete]

\* Entering processUnit for unit u: the tables of its first loops are empty.
Enter(w, u) ==
  /\ at' = [at EXCEPT ![w] = u]
  /\ reads' = [reads EXCEPT ![w] = Pairs]
  /\ slots' = [slots EXCEPT ![w] = Outputs]
  /\ base' = [base EXCEPT ![w] = Complete]

Claim(w) ==
  /\ at[w] = Nowhere
  /\ \E x \in unclaimed : Enter(w, <<x, 0>>) /\ unclaimed' = unclaimed \ {x}
  /\ UNCHANGED <<unitvars, rpcvars, pass, seen, slot, tolearn, basis>>

-----------------------------------------------------------------------------
(* Workers, Region::processUnit *)

\* Mutant: links of slots that are still active are not collected.
Collect_SkipsActive(w) ==
  /\ \E p \in reads[w] :
       /\ Upcoming(p, reads[w])
       /\ seen' = IF outputs[at[w]][p[2]].active THEN seen
                  ELSE [seen EXCEPT ![w][p] = inputs[at[w]][p[1]].frame]
       /\ reads' = [reads EXCEPT ![w] = @ \ {p}]
  /\ UNCHANGED <<unitvars, rpcvars, pass, unclaimed, at, slots, slot, tolearn, base, basis>>

\* Depolarise one link: reads the input once per link.
Collect(w) ==
  /\ \E p \in reads[w] :
       /\ Upcoming(p, reads[w])
       /\ seen' = [seen EXCEPT ![w][p] = inputs[at[w]][p[1]].frame]
       /\ reads' = [reads EXCEPT ![w] = @ \ {p}]
  /\ UNCHANGED <<unitvars, rpcvars, pass, unclaimed, at, slots, slot, tolearn, base, basis>>

Store(w, j, active) ==
  /\ outputs' = [outputs EXCEPT ![at[w]][j] = [pass |-> pass, active |-> active]]
  /\ slots' = [slots EXCEPT ![w] = @ \ {j}]

\* Inputs are 0 until the first frame, so a slot that saw nothing else has
\* depolarisation 0 and cannot match.
MayMatch(w, j) == \E i \in Inputs : seen[w][<<i, j>>] # 0

Between(w) == at[w] # Nowhere /\ reads[w] = {} /\ slot[w] = NoSlot

\* The slots come in the order of their depolarisation, whatever that is.
Mismatch(w) ==
  /\ Between(w)
  /\ \E j \in slots[w] : Store(w, j, FALSE)
  /\ UNCHANGED <<inputs, links, rpcvars, pass, unclaimed, at, reads, seen, slot, tolearn,
                 base, basis>>

\* Still active from the pass before: the output is renewed and nothing is
\* learned.  A match may leave an output that is not above 0.0001.
Renew(w) ==
  /\ Between(w)
  /\ \E j \in slots[w], a \in BOOLEAN :
       /\ MayMatch(w, j) /\ outputs[at[w]][j].active
       /\ Store(w, j, a)
  /\ UNCHANGED <<inputs, links, rpcvars, pass, unclaimed, at, reads, seen, slot, tolearn,
                 base, basis>>

\* Mutant: an active slot learns again.
Match_Relearns(w) ==
  /\ Between(w)
  /\ \E j \in slots[w] : MayMatch(w, j) /\ slot' = [slot EXCEPT ![w] = j]
  /\ tolearn' = [tolearn EXCEPT ![w] = Inputs]
  /\ UNCHANGED <<unitvars, rpcvars, pass, unclaimed, at, reads, seen, slots, base, basis>>

\* Mutant: the slot is published when it matches and again once it has learned.
Match_PublishesFirst(w) ==
  /\ Between(w)
  /\ \E j \in slots[w] :
       /\ MayMatch(w, j) /\ ~outputs[at[w]][j].active
       /\ slot' = [slot EXCEPT ![w] = j]
       /\ outputs' = [outputs EXCEPT ![at[w]][j] = [pass |-> pass, active |-> TRUE]]
  /\ tolearn' = [tolearn EXCEPT ![w] = Inputs]
  /\ UNCHANGED <<inputs, links, rpcvars, pass, unclaimed, at, reads, seen, slots, base, basis>>

Match(w) ==
  /\ Between(w)
  /\ \E j \in slots[w] :
       /\ MayMatch(w, j) /\ ~outputs[at[w]][j].active
       /\ slot' = [slot EXCEPT ![w] = j]
  /\ tolearn' = [tolearn EXCEPT ![w] = Inputs]
  /\ UNCHANGED <<unitvars, rpcvars, pass, unclaimed, at, reads, seen, slots, base, basis>>

\* Weaken or strengthen one link of the slot, in the order of their
\* depolarisation.  (Strengthening reads the input again.)
Learn(w) ==
  /\ \E i \in tolearn[w] :
       /\ links' = [links EXCEPT ![at[w]][<<i, slot[w]>>] = pass]
       /\ tolearn' = [tolearn EXCEPT ![w] = @ \ {i}]
  /\ UNCHANGED <<inputs, outputs, rpcvars, pass, unclaimed, at, reads, seen, slots, slot,
                 base, basis>>

Activate(w) ==
  /\ slot[w] # NoSlot /\ tolearn[w] = {}
  /\ \E a \in BOOLEAN : Store(w, slot[w], a)
  /\ slot' = [slot EXCEPT ![w] = NoSlot]
  /\ UNCHANGED <<inputs, links, rpcvars, pass, unclaimed, at, reads, seen, tolearn, base, basis>>

\* Return from processUnit; the worker goes on down its column.
Leave(w) ==
  /\ Between(w) /\ slots[w] = {}
  /\ basis' = [basis EXCEPT ![at[w]] = {seen[w][p] : p \in Pairs}]
  /\ seen' = [seen EXCEPT ![w] = [p \in Pairs |-> 0]]
  /\ LET x == at[w][1]
         y == at[w][2]
     IN  IF y + 1 < unitsy
         THEN Enter(w, <<x, y + 1>>)
         ELSE /\ at' = [at EXCEPT ![w] = Nowhere]
              /\ base' = [base EXCEPT ![w] = 0]
              /\ UNCHANGED <<reads, slots>>
  /\ UNCHANGED <<unitvars, rpcvars, pass, unclaimed, slot, tolearn>>

-----------------------------------------------------------------------------
Rpc     == \/ StartWrite \/ StartReform
           \/ WriteCell \/ EndWrite \/ ReformTest \/ ReformAdd \/ EndReform
Work(w) == \/ Claim(w) \/ Collect(w) \/ Mismatch(w) \/ Renew(w) \/ Match(w)
           \/ Learn(w) \/ Activate(w) \/ Leave(w)
Next    == Rpc \/ NextPass \/ \E w \in Workers : Work(w)
Spec    == Init /\ [][Next]_vars

\* The server's threads run: a call that was begun goes on, passes follow each
\* other, no worker stops in the middle.  Nobody need call write or reform.
Fairness == /\ WF_vars(WriteCell \/ EndWrite \/ ReformTest \/ ReformAdd \/ EndReform)
            /\ WF_vars(NextPass)
            /\ \A w \in Workers : WF_vars(Work(w))
FairSpec == Spec /\ Fairness
-----------------------------------------------------------------------------
(* Properties *)

\* Type invariant.
TypeOK ==
  /\ inputs \in [Units -> [Inputs -> [frame : Frames, pixel : Pixels \cup {NoPixel}]]]
  /\ outputs \in [Units -> [Outputs -> Output]]
  /\ links \in [Units -> [Pairs -> Passes]]
  /\ call \in {"idle", "write", "reform"} /\ todo \subseteq Cells
  /\ frame \in Frames /\ Complete \in Frames
  /\ rtodo \subseteq Pixels \X Outputs /\ tested \subseteq Output
  /\ image \in [Pixels -> SUBSET Term] /\ rbase \in Passes
  /\ pass \in Passes /\ unclaimed \subseteq Columns
  /\ at \in [Workers -> Units \cup {Nowhere}]
  /\ reads \in [Workers -> SUBSET Pairs]
  /\ seen \in [Workers -> [Pairs -> Frames]]
  /\ slots \in [Workers -> SUBSET Outputs]
  /\ slot \in [Workers -> Outputs \cup {NoSlot}]
  /\ tolearn \in [Workers -> SUBSET Inputs]
  /\ base \in [Workers -> Frames]
  /\ basis \in [Units -> SUBSET Frames]

\* No two workers are ever in processUnit for the same unit.  Nothing guards
\* the units: this rests on the columns being handed out once per pass and on
\* the join before the next pass (region.cpp:129-136, fabric.cpp:55-64).
ExclusiveUnit ==
  \A v, w \in Workers : v # w /\ at[v] = at[w] => at[v] = Nowhere

\* When no write is under way every input holds the pixel of the last frame
\* that reform assigns to it: the scatter of write (region.cpp:94-96) and the
\* gather of reform (region.cpp:144-152) are inverse, and nothing is missed.
FrameLandsInPlace ==
  call # "write" /\ frame > 0 =>
    \A i \in Pixels :
      inputs[ReformUnit(i)][ReformInput(i)] = [frame |-> frame, pixel |-> i]

\* Every output is of the current pass or the one before, and all are of the
\* current pass when the team has joined: a pass skips no slot of any unit
\* and no worker lags a pass behind (region.cpp:129-136, 221-268).
PassesComplete ==
  \A u \in Units, j \in Outputs :
    /\ outputs[u][j].pass \in {pass - 1, pass}
    /\ Joined => outputs[u][j].pass = pass

\* The frame behind any value processUnit has read is at least the last frame
\* that was complete when it began, at most the last begun, and a later read
\* of an input is of no older frame than an earlier one (region.cpp:191-201
\* against 83-111): reads may mix frames, but never go back in time.
CollectRegular ==
  \A w \in Workers :
    at[w] # Nowhere =>
      \A p \in Pairs \ reads[w] :
        /\ seen[w][p] \in base[w] .. inputs[at[w]][p[1]].frame
        /\ \A q \in Pairs \ reads[w] :
             p[1] = q[1] /\ p[2] < q[2] => seen[w][p] <= seen[w][q]

\* Unless a worker is in the middle of learning it, a slot's links were all
\* learned in the same pass, and an active slot is never in the middle: the
\* output is published after the last link (region.cpp:230-264).
ActiveLinksSettled ==
  \A u \in Units, j \in Outputs :
    LET learning == \E w \in Workers : at[w] = u /\ slot[w] = j IN
    /\ outputs[u][j].active => ~learning
    /\ ~learning => \A i, k \in Inputs : links[u][<<i, j>>] = links[u][<<k, j>>]

\* reform reads an output twice, to count and to add it, while passes store
\* new ones (region.cpp:158-160).  What it tested is no staler than the pass
\* before the one during which the call began.  What it adds is what it tested,
\* unless a later pass has stored since: a pass shows no slot in two states.
\* And what a later pixel of the unit tests is no older than what an earlier
\* one added.  (Passes are not told apart from MaxPass on.)
ReformRegular ==
  \A i \in Pixels : \A t \in image[i] :
    /\ t.tested.pass \in rbase - 1 .. t.added.pass /\ t.added.pass <= pass
    /\ t.tested # t.added /\ t.added.pass < MaxPass => t.tested.pass < t.added.pass
    /\ \A k \in Pixels : \A v \in image[k] :
         i < k /\ ReformUnit(i) = ReformUnit(k) /\ t.slot = v.slot =>
           t.added.pass <= v.tested.pass

\* From one pass to the next a unit's view moves forward: neither the oldest
\* nor the newest frame it was computed from is replaced by an older one.
UnitsMoveForward ==
  [][\A u \in Units : /\ \A g \in basis'[u] : \E f \in basis[u] : f <= g
                      /\ \A f \in basis[u] : \E g \in basis'[u] : f <= g]_vars

\* Once a frame is complete, every unit is eventually computed from that frame
\* or later ones only, with no help from the writer (fabric.cpp:55-64).
FrameReachesUnits ==
  \A f \in Frames :
    Complete >= f ~> \A u \in Units : basis[u] \subseteq f .. MaxFrame

-----------------------------------------------------------------------------
(* "This class hides any storage concerns and is threadsafe": fabric.hpp:32. *)

\* A pass of processUnit computes a unit from a single frame: a write and the
\* process thread do not see each other's work half done.
UnitSeesOneFrame == \A u \in Units : \A f, g \in basis[u] : f = g
=============================================================================
