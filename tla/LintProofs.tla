----------------------------- MODULE LintProofs -----------------------------
(* Theorems about cpplint and the gate for every set of runs: whatever the   *)
(* command line, the files and their configurations are.                     *)
EXTENDS LintProperties, LintTextProofs

-----------------------------------------------------------------------------
(* The filters                                                               *)

\* What a run was started with does not change.
LEMMA SameArguments == ASSUME job' = job PROVE ArgumentFilters' = ArgumentFilters
  BY DEF ArgumentFilters, ValueOf, Given, Options

LEMMA SameJob == ASSUME [Next]_vars PROVE job' = job
<1>1. ASSUME LintNext PROVE job' = job
  <2>1. CASE UpdateLine
    BY <2>1 DEF UpdateLine, StartLine, LineNamespace, LineClassHead, LineBrace,
                LineEnd, lineUnchanged
  <2>2. CASE ~UpdateLine
    BY <1>1, <2>2 DEF LintNext, ParseArguments, NextFile, ConfigDirectory,
       ApplyOverrides, SkipFile, OpenFile, Ifndef, Endif, guardUnchanged,
       CheckLine, FinishFile, ExitMain
  <2> QED
    BY <2>1, <2>2
<1> QED
  BY <1>1 DEF Next, RunUnit, EndUnits, SystemTests, Cppcheck, RunLint, EndLint,
     vars, lintVars

\* While a file is looked at, the filters of the command line are saved.
FiltersInv ==
    /\ FiltersRestored
    /\ phase \in {"config", "override", "open", "ifndef", "endif", "lines"} =>
         backup = ArgumentFilters

LEMMA FiltersLint ==
  ASSUME FiltersInv, LintNext, job' = job
  PROVE  FiltersInv'
<1> USE DEF FiltersInv, FiltersRestored
<1>0. ArgumentFilters' = ArgumentFilters
  BY SameArguments
<1>1. CASE ParseArguments
  BY <1>0, <1>1 DEF ParseArguments, Exit
<1>2. CASE NextFile
  BY <1>0, <1>2 DEF NextFile, BackupFilters
<1>3. CASE ConfigDirectory
  BY <1>0, <1>3 DEF ConfigDirectory, Leave, RestoreFilters
<1>4. CASE ApplyOverrides
  BY <1>0, <1>4 DEF ApplyOverrides, Exit
<1>5. CASE SkipFile
  BY <1>0, <1>5 DEF SkipFile, Leave, RestoreFilters
<1>6. CASE OpenFile
  BY <1>0, <1>6 DEF OpenFile
<1>7. CASE UpdateLine
  BY <1>0, <1>7 DEF UpdateLine, StartLine, LineNamespace, LineClassHead, LineBrace,
     LineEnd, lineUnchanged
<1>8. CASE CheckLine
  BY <1>0, <1>8 DEF CheckLine
<1>9. CASE FinishFile
  BY <1>0, <1>9 DEF FinishFile, Leave, RestoreFilters
<1>10. CASE ExitMain
  BY <1>0, <1>10 DEF ExitMain, Exit
<1>11. CASE Ifndef \/ Endif
  BY <1>0, <1>11 DEF Ifndef, Endif, guardUnchanged
<1> QED
  BY <1>1, <1>2, <1>3, <1>4, <1>5, <1>6, <1>7, <1>8, <1>9, <1>10, <1>11 DEF LintNext

LEMMA FiltersInvariant == Spec => []FiltersInv
<1>1. Init => FiltersInv
  BY DEF Init, LintInit, FiltersInv, FiltersRestored
<1>2. FiltersInv /\ [Next]_vars => FiltersInv'
  <2> SUFFICES ASSUME FiltersInv, [Next]_vars PROVE FiltersInv'
    OBVIOUS
  <2>1. job' = job /\ ArgumentFilters' = ArgumentFilters
    BY SameJob, SameArguments
  <2>2. CASE RunLint
    BY <2>1, <2>2, FiltersLint DEF RunLint
  <2>3. CASE UNCHANGED lintVars
    BY <2>1, <2>3 DEF lintVars, driverVars, reportVars, FiltersInv, FiltersRestored
  <2> QED
    BY <2>2, <2>3 DEF Next, RunUnit, EndUnits, SystemTests, Cppcheck, EndLint, vars
<1> QED
  BY <1>1, <1>2, PTL DEF Spec

\* THEOREM: every file begins with the filters of the command line, however
\* the files before it were left and whatever their configurations say.
THEOREM FiltersRestoredTheorem == Spec => []FiltersRestored
<1>1. FiltersInv => FiltersRestored
  BY DEF FiltersInv
<1> QED
  BY <1>1, FiltersInvariant, PTL

-----------------------------------------------------------------------------
(* The gate                                                                  *)

\* A run that ends well has printed nothing.
LintHonest ==
    /\ phase = "arguments" => printed = <<>>
    /\ phase = "exit" /\ status = 0 => printed = <<>>

\* The code of the gate is 0 just if nothing failed so far.
HonestInv ==
    /\ LintHonest
    /\ gate = "unit" => code = 0 /\ (unitCode = 0 <=> failed = {})
    /\ gate \in {"system", "cppcheck", "lint"} => (code = 0 <=> failed = {})
    /\ GateHonest

LEMMA LintStaysHonest ==
  ASSUME LintHonest, LintNext
  PROVE  LintHonest'
<1> USE DEF LintHonest
<1>1. CASE ParseArguments
  BY <1>1 DEF ParseArguments, Exit
<1>2. CASE NextFile
  BY <1>2 DEF NextFile
<1>3. CASE ConfigDirectory
  BY <1>3 DEF ConfigDirectory, Leave
<1>4. CASE ApplyOverrides
  BY <1>4 DEF ApplyOverrides, Exit
<1>5. CASE SkipFile
  BY <1>5 DEF SkipFile, Leave
<1>6. CASE OpenFile
  BY <1>6 DEF OpenFile
<1>7. CASE UpdateLine
  BY <1>7 DEF UpdateLine, StartLine, LineNamespace, LineClassHead, LineBrace,
     LineEnd, lineUnchanged, InLines
<1>8. CASE CheckLine
  BY <1>8 DEF CheckLine, InLines
<1>9. CASE FinishFile
  BY <1>9 DEF FinishFile, Leave
<1>10. CASE ExitMain
  BY <1>10 DEF ExitMain, Exit, reportVars
<1>11. CASE Ifndef \/ Endif
  BY <1>11 DEF Ifndef, Endif, guardUnchanged
<1> QED
  BY <1>1, <1>2, <1>3, <1>4, <1>5, <1>6, <1>7, <1>8, <1>9, <1>10, <1>11 DEF LintNext

LEMMA WorstIsZero ==
  ASSUME NEW old, NEW result
  PROVE  Worst(old, result) = 0 <=> old = 0 /\ result = 0
  BY DEF Worst

LEMMA HonestStep ==
  ASSUME HonestInv, [Next]_vars
  PROVE  HonestInv'
<1> USE DEF HonestInv, GateHonest
<1>1. CASE RunUnit
  <2>1. LintHonest'
    BY <1>1 DEF RunUnit, LintHonest, lintVars, driverVars, reportVars
  <2>2. PICK result \in {0, 1} :
          /\ unitCode' = Worst(unitCode, result)
          /\ failed' = IF result # 0 THEN failed \cup {Units[unit + 1]} ELSE failed
    BY <1>1 DEF RunUnit
  <2>3. unitCode' = 0 <=> failed' = {}
    <3>1. unitCode = 0 <=> failed = {}
      BY <1>1 DEF RunUnit
    <3>2. unitCode' = 0 <=> unitCode = 0 /\ result = 0
      BY <2>2, WorstIsZero
    <3> QED
      BY <2>2, <3>1, <3>2
  <2> QED
    BY <1>1, <2>1, <2>3 DEF RunUnit
<1>2. CASE EndUnits
  <2>1. LintHonest'
    BY <1>2 DEF EndUnits, LintHonest, lintVars, driverVars, reportVars
  <2> QED
    BY <1>2, <2>1, WorstIsZero DEF EndUnits, Called
<1>3. CASE SystemTests
  <2>1. LintHonest'
    BY <1>3 DEF SystemTests, LintHonest, lintVars, driverVars, reportVars
  <2>2. PICK started \in BOOLEAN :
          /\ Called(IF started THEN 0 ELSE 1)
          /\ failed' = IF started THEN failed ELSE failed \cup {"server"}
    BY <1>3 DEF SystemTests
  <2>3. code' = 0 <=> failed' = {}
    BY <1>3, <2>2, WorstIsZero DEF SystemTests, Called
  <2> QED
    BY <1>3, <2>1, <2>3 DEF SystemTests
<1>4. CASE Cppcheck
  <2>1. LintHonest'
    BY <1>4 DEF Cppcheck, LintHonest, lintVars, driverVars, reportVars
  <2>2. PICK result \in {0, 2} :
          /\ Called(result)
          /\ failed' = IF result # 0 THEN failed \cup {"cppcheck"} ELSE failed
    BY <1>4 DEF Cppcheck
  <2>3. code' = 0 <=> failed' = {}
    BY <1>4, <2>2, WorstIsZero DEF Cppcheck, Called
  <2> QED
    BY <1>4, <2>1, <2>3 DEF Cppcheck
<1>5. CASE RunLint
  <2>1. LintHonest'
    BY <1>5, LintStaysHonest DEF RunLint
  <2> QED
    BY <1>5, <2>1 DEF RunLint, gateVars
<1>6. CASE EndLint
  <2>1. LintHonest' /\ printed' = printed /\ status' = status
    BY <1>6 DEF EndLint, LintHonest, lintVars, driverVars, reportVars
  <2>2. code' = 0 <=> code = 0 /\ status = 0
    BY <1>6, WorstIsZero DEF EndLint, Called
  <2>3. status = 0 => printed = <<>>
    BY <1>6 DEF EndLint, LintHonest
  <2> QED
    BY <1>6, <2>1, <2>2, <2>3 DEF EndLint
<1>7. CASE UNCHANGED vars
  BY <1>7 DEF vars, gateVars, lintVars, driverVars, reportVars, LintHonest
<1> QED
  BY <1>1, <1>2, <1>3, <1>4, <1>5, <1>6, <1>7 DEF Next

\* THEOREM: the gate succeeds just if every command of it did, and then
\* cpplint has printed nothing, whatever the tests and the files are.
THEOREM GateHonestTheorem == Spec => []GateHonest
<1>1. Init => HonestInv
  BY DEF Init, LintInit, ReportInit, HonestInv, LintHonest, GateHonest
<1>2. HonestInv /\ [Next]_vars => HonestInv'
  BY HonestStep
<1>3. HonestInv => GateHonest
  BY DEF HonestInv
<1> QED
  BY <1>1, <1>2, <1>3, PTL DEF Spec

-----------------------------------------------------------------------------
(* Conditional code                                                          *)

ElsesOf(p) == {i \in DOMAIN p : p[i].seen}
IsFirst(i, p) == i \in ElsesOf(p) /\ \A j \in ElsesOf(p) : i <= j
Checkpoint(S) == [before : S, seen : BOOLEAN, kept : S]

\* Checkpoints are in a sequence, and if any of them has an #else, one is the
\* first that has.
CheckpointsOK(p) ==
    /\ \E S : p \in Seq(Checkpoint(S))
    /\ ElsesOf(p) = {} \/ \E i : IsFirst(i, p)

NestInv == CheckpointsOK(pp)

LEMMA MinIs ==
  ASSUME NEW S \in SUBSET Int, NEW i \in S, \A j \in S : i <= j
  PROVE  Min(S) = i
<1> DEFINE Least(x) == \A y \in S : x <= y
<1>1. Min(S) = CHOOSE x \in S : Least(x)
  BY DEF Min
<1>2. Least(i) /\ \A x \in S : Least(x) => x = i
  OBVIOUS
<1> HIDE DEF Least
<1> QED
  BY <1>1, <1>2

\* The first checkpoint with an #else is the one that MainStack takes.
LEMMA FirstIsMin ==
  ASSUME NEW p, CheckpointsOK(p), NEW i, IsFirst(i, p)
  PROVE  Min(ElsesOf(p)) = i
<1>1. PICK S : p \in Seq(Checkpoint(S))
  BY DEF CheckpointsOK
<1>2. ElsesOf(p) \in SUBSET Int
  BY <1>1 DEF ElsesOf
<1> QED
  BY <1>2, MinIs DEF IsFirst

LEMMA MainStackNow ==
  ASSUME NestInv
  PROVE  /\ ElsesOf(pp) = {} => MainStack = stack
         /\ \A i : IsFirst(i, pp) => MainStack = pp[i].kept
<1>1. Elses = ElsesOf(pp)
  BY DEF Elses, ElsesOf
<1> QED
  BY <1>1, FirstIsMin DEF MainStack, NestInv, IsFirst

LEMMA MainStackNext ==
  ASSUME CheckpointsOK(pp')
  PROVE  /\ ElsesOf(pp') = {} => MainStack' = stack'
         /\ \A i : IsFirst(i, pp') => MainStack' = pp'[i].kept
<1>1. Elses' = ElsesOf(pp')
  BY DEF Elses, ElsesOf
<1> QED
  BY <1>1, FirstIsMin DEF MainStack, IsFirst

LEMMA InElseNow == Main!InElse(MainBranches) <=> ElsesOf(pp) # {}
  BY DEF Main!InElse, MainBranches, ElsesOf

LEMMA InElseNext == Main!InElse(MainBranches') <=> ElsesOf(pp') # {}
  BY DEF Main!InElse, MainBranches, ElsesOf

\* A directive that leaves what is known of every #else as it was.
LEMMA SameElses ==
  ASSUME NestInv, NEW S, pp' \in Seq(Checkpoint(S)),
         ElsesOf(pp') = ElsesOf(pp),
         \A i \in ElsesOf(pp) : pp'[i].kept = pp[i].kept,
         ElsesOf(pp) = {} => stack' = CountParentheses(stack, Elided)
  PROVE  /\ NestInv'
         /\ MainStack' = IF ElsesOf(pp') # {} THEN MainStack
                         ELSE CountParentheses(MainStack, Elided)
<1>1. CheckpointsOK(pp')
  BY DEF NestInv, CheckpointsOK, IsFirst
<1>2. CASE ElsesOf(pp) = {}
  BY <1>1, <1>2, MainStackNow, MainStackNext DEF NestInv
<1>3. CASE ElsesOf(pp) # {}
  <2>1. PICK i : IsFirst(i, pp)
    BY <1>3 DEF NestInv, CheckpointsOK
  <2>2. IsFirst(i, pp') /\ i \in ElsesOf(pp)
    BY <2>1 DEF IsFirst
  <2> QED
    BY <1>1, <1>3, <2>1, <2>2, MainStackNow, MainStackNext DEF NestInv
<1> QED
  BY <1>2, <1>3

LEMMA SetTopIs ==
  ASSUME NEW S, NEW s \in Seq(S), s # <<>>, NEW block \in S
  PROVE  /\ SetTop(s, block) \in Seq(S)
         /\ Len(SetTop(s, block)) = Len(s)
         /\ SetTop(s, block)[Len(s)] = block
         /\ \A i \in 1 .. Len(s) - 1 : SetTop(s, block)[i] = s[i]
<1>1. Len(s) \in 1 .. Len(s)
  BY EmptySeq, LenProperties
<1> QED
  BY <1>1, ExceptSeq DEF SetTop

\* The first #else of an #if puts the stack aside.
IsNewElse ==
    /\ pp # <<>>
    /\ ~Last(pp).seen
    /\ pp' = SetTop(pp, [before |-> Last(pp).before, seen |-> TRUE, kept |-> stack])

LEMMA NewElse ==
  ASSUME NestInv, IsNewElse
  PROVE  /\ NestInv'
         /\ ElsesOf(pp') # {}
         /\ MainStack' = MainStack
<1>1. PICK S : pp \in Seq(Checkpoint(S))
  BY DEF NestInv, CheckpointsOK
<1> DEFINE n == Len(pp)
           T == S \cup {stack}
           top == [before |-> Last(pp).before, seen |-> TRUE, kept |-> stack]
<1>2. n \in Nat \ {0} /\ DOMAIN pp = 1 .. n /\ Last(pp) = pp[n] /\ ~pp[n].seen
  BY <1>1, EmptySeq, LenProperties DEF Last, IsNewElse
<1>3. pp \in Seq(Checkpoint(T))
  BY <1>1, SeqMonotonic DEF Checkpoint
<1>4. top \in Checkpoint(T)
  <2>1. pp[n] \in Checkpoint(S)
    BY <1>1, <1>2, ElementOfSeq
  <2> QED
    BY <1>2, <2>1 DEF Checkpoint
<1>5. pp' = SetTop(pp, top) /\ top.seen /\ top.kept = stack
  BY DEF IsNewElse
<1> HIDE DEF T, top
<1>6. /\ pp' \in Seq(Checkpoint(T)) /\ Len(pp') = n /\ pp'[n] = top
      /\ \A i \in 1 .. n - 1 : pp'[i] = pp[i]
  <2>1. /\ SetTop(pp, top) \in Seq(Checkpoint(T))
        /\ Len(SetTop(pp, top)) = Len(pp)
        /\ SetTop(pp, top)[Len(pp)] = top
        /\ \A i \in 1 .. Len(pp) - 1 : SetTop(pp, top)[i] = pp[i]
    BY <1>2, <1>3, <1>4, EmptySeq, SetTopIs
  <2> QED
    BY <2>1, <1>5
<1>7. DOMAIN pp' = 1 .. n
  BY <1>6, LenProperties
<1>8. ElsesOf(pp') = ElsesOf(pp) \cup {n} /\ ElsesOf(pp) \subseteq 1 .. n - 1
  <2>1. \A i \in 1 .. n : i = n \/ i \in 1 .. n - 1
    <3>1. n \in Nat
      BY <1>2
    <3> HIDE DEF n
    <3> QED
      BY <3>1
  <2>2. n \in ElsesOf(pp') /\ n \notin ElsesOf(pp)
    BY <1>2, <1>5, <1>6, <1>7 DEF ElsesOf
  <2>3. \A i \in 1 .. n - 1 : i \in ElsesOf(pp') <=> i \in ElsesOf(pp)
    BY <1>2, <1>6, <1>7 DEF ElsesOf
  <2>4. ElsesOf(pp) \subseteq 1 .. n /\ ElsesOf(pp') \subseteq 1 .. n
    BY <1>2, <1>7 DEF ElsesOf
  <2> QED
    BY <2>1, <2>2, <2>3, <2>4
<1>9. CASE ElsesOf(pp) = {}
  <2>1. IsFirst(n, pp') /\ CheckpointsOK(pp')
    BY <1>2, <1>6, <1>8, <1>9 DEF IsFirst, CheckpointsOK
  <2> QED
    BY <1>5, <1>6, <1>8, <1>9, <2>1, MainStackNow, MainStackNext DEF NestInv
<1>10. CASE ElsesOf(pp) # {}
  <2>1. PICK i : IsFirst(i, pp)
    BY <1>10 DEF NestInv, CheckpointsOK
  <2>2. IsFirst(i, pp') /\ i \in 1 .. n - 1
    BY <1>2, <1>8, <2>1 DEF IsFirst
  <2>3. CheckpointsOK(pp')
    BY <1>6, <2>2 DEF CheckpointsOK
  <2> QED
    BY <1>6, <1>8, <2>1, <2>2, <2>3, MainStackNow, MainStackNext DEF NestInv
<1> QED
  BY <1>9, <1>10

\* The #endif of an #if with an #else takes the stack back that was put aside.
LEMMA EndElse ==
  ASSUME NestInv, pp # <<>>, Last(pp).seen, pp' = Front(pp),
         stack' = CountParentheses(Last(pp).kept, Elided)
  PROVE  /\ NestInv'
         /\ MainStack' = IF ElsesOf(pp') # {} THEN MainStack
                         ELSE CountParentheses(MainStack, Elided)
<1>1. PICK S : pp \in Seq(Checkpoint(S))
  BY DEF NestInv, CheckpointsOK
<1> DEFINE n == Len(pp)
<1>2. n \in Nat \ {0} /\ DOMAIN pp = 1 .. n /\ Last(pp) = pp[n]
  BY <1>1 DEF Last
<1>3. /\ pp' \in Seq(Checkpoint(S)) /\ DOMAIN pp' = 1 .. n - 1
      /\ \A i \in 1 .. n - 1 : pp'[i] = pp[i]
  BY <1>1, <1>2 DEF Front
<1>4. ElsesOf(pp) = ElsesOf(pp') \cup {n} /\ ElsesOf(pp') \subseteq 1 .. n - 1
  BY <1>2, <1>3 DEF ElsesOf
<1>5. PICK i : IsFirst(i, pp)
  BY <1>4 DEF NestInv, CheckpointsOK
<1>6. CASE ElsesOf(pp') = {}
  <2>1. i = n /\ CheckpointsOK(pp')
    BY <1>3, <1>4, <1>5, <1>6 DEF IsFirst, CheckpointsOK
  <2> QED
    BY <1>2, <1>5, <1>6, <2>1, MainStackNow, MainStackNext DEF NestInv
<1>7. CASE ElsesOf(pp') # {}
  <2>1. IsFirst(i, pp') /\ i \in 1 .. n - 1
    BY <1>2, <1>4, <1>5, <1>7 DEF IsFirst
  <2>2. CheckpointsOK(pp')
    BY <1>3, <2>1 DEF CheckpointsOK
  <2> QED
    BY <1>3, <1>5, <1>7, <2>1, <2>2, MainStackNow, MainStackNext DEF NestInv
<1> QED
  BY <1>6, <1>7

Seens(p) == [i \in DOMAIN p |-> p[i].seen]

LEMMA SeensAre ==
  ASSUME NEW S, NEW p \in Seq(Checkpoint(S))
  PROVE  /\ Seens(p) \in Seq(BOOLEAN)
         /\ Len(Seens(p)) = Len(p)
         /\ \A i \in 1 .. Len(p) : Seens(p)[i] = p[i].seen
<1>1. /\ Len(p) \in Nat /\ DOMAIN p = 1 .. Len(p)
      /\ \A i \in 1 .. Len(p) : p[i] \in Checkpoint(S)
  BY LenProperties, ElementOfSeq
<1>2. \A i \in 1 .. Len(p) : p[i].seen \in BOOLEAN
  BY <1>1 DEF Checkpoint
<1>3. Seens(p) \in [1 .. Len(p) -> BOOLEAN]
  BY <1>1, <1>2 DEF Seens
<1>4. Seens(p) \in Seq(BOOLEAN)
  BY <1>1, <1>3, SeqDef
<1>5. Len(Seens(p)) = Len(p)
  BY <1>1, <1>3, <1>4
<1> QED
  BY <1>1, <1>4, <1>5 DEF Seens

LEMMA SeensAppend ==
  ASSUME NEW S, NEW p \in Seq(Checkpoint(S)), NEW c \in Checkpoint(S)
  PROVE  Seens(Append(p, c)) = Append(Seens(p), c.seen)
<1> DEFINE n == Len(p)
           s == Seens(p)
           t == Seens(Append(p, c))
<1>1. n \in Nat /\ c.seen \in BOOLEAN
  BY LenProperties DEF Checkpoint
<1>2. /\ Append(p, c) \in Seq(Checkpoint(S)) /\ Len(Append(p, c)) = n + 1
      /\ Append(p, c)[n + 1] = c /\ \A i \in 1 .. n : Append(p, c)[i] = p[i]
  OBVIOUS
<1>3. s \in Seq(BOOLEAN) /\ Len(s) = n /\ \A i \in 1 .. n : s[i] = p[i].seen
  BY SeensAre
<1>4. t \in Seq(BOOLEAN) /\ Len(t) = n + 1 /\ \A i \in 1 .. n + 1 : t[i] = Append(p, c)[i].seen
  BY <1>2, SeensAre
<1> HIDE DEF n, s, t
<1>5. /\ Append(s, c.seen) \in Seq(BOOLEAN) /\ Len(Append(s, c.seen)) = n + 1
      /\ Append(s, c.seen)[n + 1] = c.seen
      /\ \A i \in 1 .. n : Append(s, c.seen)[i] = s[i]
  BY <1>1, <1>3
<1>6. \A i \in 1 .. n : t[i] = Append(s, c.seen)[i]
  BY <1>1, <1>2, <1>3, <1>4, <1>5
<1>7. t[n + 1] = Append(s, c.seen)[n + 1]
  BY <1>1, <1>2, <1>4, <1>5
<1>8. \A i \in 1 .. n + 1 : i \in 1 .. n \/ i = n + 1
  BY <1>1
<1>9. t = Append(s, c.seen)
  BY <1>4, <1>5, <1>6, <1>7, <1>8, SeqEqual
<1> QED
  BY <1>9 DEF s, t

LEMMA SeensSetTop ==
  ASSUME NEW S, NEW p \in Seq(Checkpoint(S)), p # <<>>, NEW c \in Checkpoint(S)
  PROVE  Seens(SetTop(p, c)) = [Seens(p) EXCEPT ![Len(Seens(p))] = c.seen]
<1> DEFINE n == Len(p)
           s == Seens(p)
           t == Seens(SetTop(p, c))
           r == [s EXCEPT ![n] = c.seen]
<1>1. n \in Nat \ {0} /\ c.seen \in BOOLEAN
  BY EmptySeq DEF Checkpoint
<1>2. /\ SetTop(p, c) \in Seq(Checkpoint(S)) /\ Len(SetTop(p, c)) = n
      /\ SetTop(p, c)[n] = c /\ \A i \in 1 .. n - 1 : SetTop(p, c)[i] = p[i]
  BY SetTopIs
<1>3. s \in Seq(BOOLEAN) /\ Len(s) = n /\ \A i \in 1 .. n : s[i] = p[i].seen
  BY SeensAre
<1>4. t \in Seq(BOOLEAN) /\ Len(t) = n /\ \A i \in 1 .. n : t[i] = SetTop(p, c)[i].seen
  BY <1>2, SeensAre
<1> HIDE DEF n, s, t
<1>5. /\ r \in Seq(BOOLEAN) /\ Len(r) = n
      /\ \A i \in 1 .. n : r[i] = IF i = n THEN c.seen ELSE s[i]
  <2>1. n \in 1 .. Len(s)
    BY <1>1, <1>3
  <2> QED
    BY <1>1, <1>3, <2>1, ExceptSeq
<1> HIDE DEF r
<1>6. \A i \in 1 .. n - 1 : i \in 1 .. n /\ i # n
  BY <1>1
<1>7. \A i \in 1 .. n - 1 : t[i] = r[i]
  BY <1>2, <1>3, <1>4, <1>5, <1>6
<1>8. n \in 1 .. n /\ \A i \in 1 .. n : i \in 1 .. n - 1 \/ i = n
  BY <1>1
<1>9. t[n] = r[n]
  BY <1>2, <1>4, <1>5, <1>8
<1>10. t = r
  BY <1>4, <1>5, <1>7, <1>8, <1>9, SeqEqual
<1> QED
  BY <1>3, <1>10 DEF r, s, t

LEMMA SeensFront ==
  ASSUME NEW S, NEW p \in Seq(Checkpoint(S)), p # <<>>
  PROVE  Seens(Front(p)) = SubSeq(Seens(p), 1, Len(Seens(p)) - 1)
<1> DEFINE n == Len(p)
           s == Seens(p)
           t == Seens(Front(p))
<1>1. n \in Nat \ {0}
  BY EmptySeq
<1>2. /\ Front(p) \in Seq(Checkpoint(S)) /\ Len(Front(p)) = n - 1
      /\ \A i \in 1 .. n - 1 : Front(p)[i] = p[i]
  BY FrontIs
<1>3. s \in Seq(BOOLEAN) /\ Len(s) = n /\ \A i \in 1 .. n : s[i] = p[i].seen
  BY SeensAre
<1>4. t \in Seq(BOOLEAN) /\ Len(t) = n - 1 /\ \A i \in 1 .. n - 1 : t[i] = Front(p)[i].seen
  BY <1>2, SeensAre
<1>5. s # <<>> /\ Front(s) = SubSeq(s, 1, Len(s) - 1)
  BY <1>1, <1>3 DEF Front
<1> HIDE DEF n, s, t
<1>6. /\ Front(s) \in Seq(BOOLEAN) /\ Len(Front(s)) = n - 1
      /\ \A i \in 1 .. n - 1 : Front(s)[i] = s[i]
  BY <1>3, <1>5, FrontIs
<1>7. \A i \in 1 .. n - 1 : i \in 1 .. n
  BY <1>1
<1>8. \A i \in 1 .. n - 1 : t[i] = Front(s)[i]
  BY <1>2, <1>3, <1>4, <1>6, <1>7
<1>9. t = Front(s)
  BY <1>4, <1>6, <1>8, SeqEqual
<1> QED
  BY <1>5, <1>9 DEF s, t

LEMMA BranchesAre == MainBranches = Seens(pp) /\ MainBranches' = Seens(pp')
  BY DEF MainBranches, Seens

\* An #if begins a checkpoint.
LEMMA BeginIf ==
  ASSUME NestInv, NEW c,
         c = [before |-> stack, seen |-> FALSE, kept |-> <<>>],
         pp' = Append(pp, c), stack' = CountParentheses(stack, Elided)
  PROVE  /\ NestInv'
         /\ MainBranches' = Append(MainBranches, FALSE)
         /\ MainStack' = IF ElsesOf(pp') # {} THEN MainStack
                         ELSE CountParentheses(MainStack, Elided)
<1>1. PICK S : pp \in Seq(Checkpoint(S))
  BY DEF NestInv, CheckpointsOK
<1> DEFINE n == Len(pp)
           T == S \cup {stack, <<>>}
<1>2. n \in Nat /\ DOMAIN pp = 1 .. n
  BY <1>1, LenProperties
<1>3. pp \in Seq(Checkpoint(T)) /\ c \in Checkpoint(T) /\ c.seen = FALSE
  BY <1>1, SeqMonotonic DEF Checkpoint
<1> HIDE DEF T
<1>4. /\ pp' \in Seq(Checkpoint(T)) /\ Len(pp') = n + 1 /\ pp'[n + 1] = c
      /\ DOMAIN pp' = 1 .. n + 1 /\ \A i \in 1 .. n : pp'[i] = pp[i]
  BY <1>2, <1>3
<1>5. ElsesOf(pp') = ElsesOf(pp)
  BY <1>2, <1>3, <1>4 DEF ElsesOf
<1>6. \A i \in ElsesOf(pp) : pp'[i].kept = pp[i].kept
  BY <1>2, <1>4 DEF ElsesOf
<1>7. Seens(pp') = Append(Seens(pp), FALSE)
  BY <1>3, SeensAppend
<1> QED
  BY <1>4, <1>5, <1>6, <1>7, SameElses, BranchesAre

\* A line of which no checkpoint begins or ends.
LEMMA NoDirective ==
  ASSUME NestInv, pp' = pp,
         ElsesOf(pp) = {} => stack' = CountParentheses(stack, Elided)
  PROVE  /\ NestInv'
         /\ MainBranches' = MainBranches
         /\ MainStack' = IF ElsesOf(pp') # {} THEN MainStack
                         ELSE CountParentheses(MainStack, Elided)
<1>1. PICK S : pp \in Seq(Checkpoint(S))
  BY DEF NestInv, CheckpointsOK
<1> QED
  BY <1>1, SameElses, BranchesAre

\* The #endif of an #if without an #else takes its checkpoint away.
LEMMA EndIf ==
  ASSUME NestInv, pp # <<>>, Last(pp).seen = FALSE, pp' = Front(pp),
         stack' = CountParentheses(stack, Elided)
  PROVE  /\ NestInv'
         /\ MainStack' = IF ElsesOf(pp') # {} THEN MainStack
                         ELSE CountParentheses(MainStack, Elided)
<1>1. PICK S : pp \in Seq(Checkpoint(S))
  BY DEF NestInv, CheckpointsOK
<1> DEFINE n == Len(pp)
<1>2. n \in Nat \ {0} /\ DOMAIN pp = 1 .. n /\ pp[n].seen = FALSE
  BY <1>1, EmptySeq, LenProperties DEF Last
<1>3. /\ pp' \in Seq(Checkpoint(S)) /\ Len(pp') = n - 1
      /\ \A i \in 1 .. n - 1 : pp'[i] = pp[i]
  BY <1>1, FrontIs
<1>4. DOMAIN pp' = 1 .. n - 1
  BY <1>3, LenProperties
<1>5. ElsesOf(pp') = ElsesOf(pp) /\ ElsesOf(pp) \subseteq 1 .. n - 1
  BY <1>2, <1>3, <1>4 DEF ElsesOf
<1> QED
  BY <1>3, <1>5, SameElses

\* Taking a directive into account, seen from the first branches.
LEMMA StartStep ==
  ASSUME NestInv, StartUpdate(Elided), InLines, UNCHANGED <<clean, line>>
  PROVE  NestInv' /\ Main!Start
<1> DEFINE d == First(Elided)
           result == IF ElsesOf(pp') # {} THEN MainStack
                     ELSE CountParentheses(MainStack, Elided)
<1>1. PICK S : pp \in Seq(Checkpoint(S))
  BY DEF NestInv, CheckpointsOK
<1>2. /\ Seens(pp) = <<>> <=> pp = <<>>
      /\ pp # <<>> => Last(pp) \in Checkpoint(S)
  <2>1. Len(Seens(pp)) = Len(pp) /\ Seens(pp) \in Seq(BOOLEAN)
    BY <1>1, SeensAre
  <2>2. pp # <<>> => Len(pp) \in 1 .. Len(pp)
    BY <1>1, EmptySeq
  <2> QED
    BY <1>1, <2>1, <2>2, ElementOfSeq DEF Last
<1>3. /\ stack' = CountParentheses(Restored(Elided), Elided)
      /\ pp' = Checkpoints(Elided)
  BY DEF StartUpdate
<1>4. pp # <<>> => Last(pp).seen \in BOOLEAN
  BY <1>2 DEF Checkpoint
<1>5. NestInv' /\ MainBranches' = Main!Branches(d) /\ MainStack' = result
  <2>1. CASE d = "#if"
    <3>1. pp' = Append(pp, [before |-> stack, seen |-> FALSE, kept |-> <<>>])
      BY <1>3, <2>1 DEF Checkpoints
    <3>2. Restored(Elided) = stack
      BY <2>1 DEF Restored, Restores
    <3>3. Main!Branches(d) = Append(MainBranches, FALSE)
      BY <2>1 DEF Main!Branches
    <3> HIDE DEF d
    <3> QED
      BY <1>3, <3>1, <3>2, <3>3, BeginIf
  <2>2. CASE d = "#else" /\ pp # <<>> /\ ~Last(pp).seen
    <3> DEFINE top == [before |-> Last(pp).before, seen |-> TRUE, kept |-> stack]
    <3>1. pp' = SetTop(pp, top)
      BY <1>3, <2>2 DEF Checkpoints
    <3>2. IsNewElse
      BY <2>2, <3>1 DEF IsNewElse
    <3>3. NestInv' /\ ElsesOf(pp') # {} /\ MainStack' = MainStack
      BY <3>2, NewElse
    <3>4. Main!Branches(d) = [MainBranches EXCEPT ![Len(MainBranches)] = TRUE]
      BY <1>2, <2>2, BranchesAre DEF Main!Branches
    <3>5. /\ pp \in Seq(Checkpoint(S \cup {stack})) /\ top.seen = TRUE
          /\ top \in Checkpoint(S \cup {stack})
      BY <1>1, <1>2, <2>2, SeqMonotonic DEF Checkpoint
    <3> HIDE DEF top
    <3>6. Seens(pp') = [Seens(pp) EXCEPT ![Len(Seens(pp))] = TRUE]
      BY <2>2, <3>1, <3>5, SeensSetTop
    <3> QED
      BY <3>3, <3>4, <3>6, BranchesAre
  <2>3. CASE d = "#else" /\ pp # <<>> /\ Last(pp).seen
    <3>1. pp' = pp
      BY <1>3, <2>3 DEF Checkpoints
    <3>2. ElsesOf(pp) # {} /\ Last(pp).seen = TRUE
      BY <1>1, <1>4, <2>3, EmptySeq, LenProperties DEF ElsesOf, Last
    <3>3. Main!Branches(d) = [MainBranches EXCEPT ![Len(MainBranches)] = TRUE]
      BY <1>2, <2>3, BranchesAre DEF Main!Branches
    <3>4. [Seens(pp) EXCEPT ![Len(Seens(pp))] = TRUE] = Seens(pp)
      BY <1>1, <3>2, SeensAre, LenProperties DEF Last
    <3> QED
      BY <3>1, <3>2, <3>3, <3>4, NoDirective, BranchesAre
  <2>4. CASE d = "#endif" /\ pp # <<>> /\ Last(pp).seen
    <3>1. pp' = Front(pp) /\ Restored(Elided) = Last(pp).kept
      BY <1>3, <2>4 DEF Checkpoints, Restored, Restores
    <3>2. Main!Branches(d) = SubSeq(MainBranches, 1, Len(MainBranches) - 1)
      BY <1>2, <2>4, BranchesAre DEF Main!Branches
    <3>3. Seens(pp') = SubSeq(Seens(pp), 1, Len(Seens(pp)) - 1)
      BY <1>1, <2>4, <3>1, SeensFront
    <3> QED
      BY <1>3, <2>4, <3>1, <3>2, <3>3, EndElse, BranchesAre
  <2>5. CASE d = "#endif" /\ pp # <<>> /\ ~Last(pp).seen
    <3>1. pp' = Front(pp) /\ Restored(Elided) = stack /\ Last(pp).seen = FALSE
      BY <1>3, <1>4, <2>5 DEF Checkpoints, Restored, Restores
    <3>2. Main!Branches(d) = SubSeq(MainBranches, 1, Len(MainBranches) - 1)
      BY <1>2, <2>5, BranchesAre DEF Main!Branches
    <3>3. Seens(pp') = SubSeq(Seens(pp), 1, Len(Seens(pp)) - 1)
      BY <1>1, <2>5, <3>1, SeensFront
    <3> QED
      BY <1>3, <2>5, <3>1, <3>2, <3>3, EndIf, BranchesAre
  <2>6. CASE d # "#if" /\ (d \notin {"#else", "#endif"} \/ pp = <<>>)
    <3>1. pp' = pp /\ Restored(Elided) = stack
      BY <1>3, <2>6 DEF Checkpoints, Restored, Restores
    <3>2. Main!Branches(d) = MainBranches
      BY <1>2, <2>6, BranchesAre DEF Main!Branches
    <3> QED
      BY <1>3, <3>1, <3>2, NoDirective
  <2> QED
    BY <2>1, <2>2, <2>3, <2>4, <2>5, <2>6
<1>6. step = "idle" /\ todo' = Elided /\ step' = "heads" /\ line <= Len(clean.raw)
  BY DEF StartUpdate, InLines
<1> QED
  BY <1>5, <1>6, InElseNext DEF Main!Start, Elided

\* A step that leaves the checkpoints alone.
LEMMA SameCheckpoints ==
  ASSUME NestInv, pp' = pp
  PROVE  /\ NestInv' /\ MainBranches' = MainBranches
         /\ ElsesOf(pp) # {} => MainStack' = MainStack
         /\ ElsesOf(pp) = {} => MainStack = stack /\ MainStack' = stack'
  BY MainStackNow DEF NestInv, MainBranches, MainStack, Elses, ElsesOf

\* Updating the stack within a line, seen from the first branches.
LEMMA UpdateStep ==
  ASSUME NestInv, InLines, UNCHANGED <<clean, line>>,
         Namespace(line) \/ ClassHead(line, IndentLevel(Raw), FromHere)
           \/ Brace(line) \/ EndUpdate
  PROVE  NestInv' /\ Main!Next
<1>1. pp' = pp
  BY DEF Namespace, ClassHead, Brace, EndUpdate
<1>2. NestInv' /\ MainBranches' = MainBranches
  BY <1>1, SameCheckpoints
<1>3. CASE EndUpdate
  <2>1. MainStack' = MainStack
    BY <1>1, <1>3, SameCheckpoints DEF EndUpdate
  <2> QED
    BY <1>2, <1>3, <2>1 DEF EndUpdate, Main!Next, Main!End
<1>4. CASE ~EndUpdate /\ ElsesOf(pp) # {}
  <2>1. MainStack' = MainStack /\ Main!InElse(MainBranches)
    BY <1>1, <1>4, SameCheckpoints, InElseNow
  <2>2. /\ step \in {"heads", "braces"}
        /\ step' = step \/ (step = "heads" /\ step' = "braces")
    BY <1>4 DEF Namespace, ClassHead, Brace
  <2> QED
    BY <1>2, <2>1, <2>2 DEF Main!Next, Main!ReadOver
<1>5. CASE ElsesOf(pp) = {}
  <2>1. MainStack = stack /\ MainStack' = stack' /\ ~Main!InElse(MainBranches)
    BY <1>1, <1>5, SameCheckpoints, InElseNow
  <2>2. CASE Namespace(line)
    BY <1>2, <2>1, <2>2 DEF Namespace, Main!Next, Main!Read, Main!Take
  <2>3. CASE ClassHead(line, IndentLevel(Raw), FromHere)
    <3> DEFINE is == IsClassHead(stack, todo, FromHere)
    <3>1. is \in BOOLEAN
      BY DEF IsClassHead
    <3>2. /\ step = "heads" /\ ~IsNamespace(todo) /\ step' = "braces"
          /\ stack' = AfterClassHead(stack, todo, line, IndentLevel(clean.raw[line]), is).stack
          /\ todo' = AfterClassHead(stack, todo, line, IndentLevel(clean.raw[line]), is).rest
      BY <2>3 DEF ClassHead, Raw
    <3> HIDE DEF is
    <3> QED
      BY <1>2, <2>1, <3>1, <3>2 DEF Main!Next, Main!Read, Main!Take
  <2>4. CASE Brace(line)
    BY <1>2, <2>1, <2>4 DEF Brace, Main!Next, Main!Read, Main!Take
  <2> QED
    BY <1>3, <2>2, <2>3, <2>4
<1> QED
  BY <1>3, <1>4, <1>5

\* A step of the run, seen from the first branches.
LEMMA LintStep ==
  ASSUME NestInv, LintNext
  PROVE  NestInv' /\ [Main!Next]_(Main!specVars)
<1>1. ASSUME UNCHANGED <<nestingVars, clean, line>>
      PROVE  NestInv' /\ UNCHANGED Main!specVars
  <2>1. UNCHANGED <<stack, pp, todo, step, clean, line>>
    BY <1>1 DEF nestingVars
  <2> QED
    BY <2>1, SameCheckpoints DEF Main!specVars, MainStack, Elses
<1>2. CASE ParseArguments \/ NextFile \/ ConfigDirectory \/ ApplyOverrides \/ SkipFile
             \/ Ifndef \/ Endif \/ FinishFile \/ ExitMain
  BY <1>1, <1>2 DEF ParseArguments, NextFile, ConfigDirectory, ApplyOverrides,
     SkipFile, Ifndef, Endif, guardUnchanged, FinishFile, ExitMain
<1>3. CASE OpenFile
  <2>1. stack' = <<>> /\ pp' = <<>> /\ todo' = <<>> /\ step' = "idle"
    BY <1>3 DEF OpenFile, NestingReset
  <2>2. ElsesOf(pp') = {} /\ MainStack' = <<>> /\ MainBranches' = <<>>
    BY <2>1, EmptySeq DEF ElsesOf, MainStack, Elses, MainBranches
  <2>3. pp' \in Seq(Checkpoint({}))
    BY <2>1, EmptySeq
  <2> QED
    BY <2>1, <2>2, <2>3 DEF NestInv, CheckpointsOK, Main!Next, Main!Begin
<1>4. CASE StartLine
  BY <1>4, StartStep DEF StartLine, lineUnchanged, Main!Next
<1>5. CASE LineNamespace \/ LineClassHead \/ LineBrace \/ LineEnd
  BY <1>5, UpdateStep DEF LineNamespace, LineClassHead, LineBrace, LineEnd, lineUnchanged
<1>6. CASE CheckLine
  <2>1. /\ step = "done" /\ step' = "idle" /\ line' = line + 1
        /\ UNCHANGED <<clean, stack, pp, todo>>
    BY <1>6 DEF CheckLine
  <2>2. NestInv' /\ MainStack' = MainStack /\ MainBranches' = MainBranches
    BY <2>1, SameCheckpoints DEF MainStack, Elses
  <2> QED
    BY <2>1, <2>2 DEF Main!Next, Main!End
<1> QED
  BY <1>2, <1>3, <1>4, <1>5, <1>6 DEF LintNext, UpdateLine

\* THEOREM: whatever a file's lines and directives are, the stack that
\* NestingState copies and puts back for the branches of #if is that of a
\* reader of the first branches, who keeps one stack and copies nothing.
THEOREM FirstBranchTheorem == Spec => FirstBranch
<1>1. Init => NestInv /\ Main!Init
  <2> SUFFICES ASSUME Init PROVE NestInv /\ Main!Init
    OBVIOUS
  <2>1. stack = <<>> /\ pp = <<>> /\ todo = <<>> /\ step = "idle"
    BY DEF Init, LintInit, NestingInit
  <2>2. ElsesOf(pp) = {} /\ MainStack = <<>> /\ MainBranches = <<>>
    BY <2>1, EmptySeq DEF ElsesOf, MainStack, Elses, MainBranches
  <2>3. pp \in Seq(Checkpoint({}))
    BY <2>1, EmptySeq
  <2> QED
    BY <2>1, <2>2, <2>3 DEF NestInv, CheckpointsOK, Main!Init
<1>2. NestInv /\ [Next]_vars => NestInv' /\ [Main!Next]_(Main!specVars)
  <2> SUFFICES ASSUME NestInv, [Next]_vars
               PROVE  NestInv' /\ [Main!Next]_(Main!specVars)
    OBVIOUS
  <2>1. CASE RunLint
    BY <2>1, LintStep DEF RunLint
  <2>2. CASE UNCHANGED lintVars
    <3>1. UNCHANGED <<stack, pp, todo, step, clean, line>>
      BY <2>2 DEF lintVars, nestingVars, driverVars
    <3> QED
      BY <3>1, SameCheckpoints DEF Main!specVars, MainStack, Elses
  <2> QED
    BY <2>1, <2>2 DEF Next, RunUnit, EndUnits, SystemTests, Cppcheck, EndLint, vars
<1> QED
  BY <1>1, <1>2, PTL DEF Spec, FirstBranch, Main!Spec

-----------------------------------------------------------------------------
(* The end of a run                                                          *)

\* What is left of a line is a line.
LEMMA AfterNamespaceIs ==
  ASSUME NEW s, NEW rest \in Line, NEW n, IsNamespace(rest)
  PROVE  /\ AfterNamespace(s, rest, n).rest \in Line
         /\ Len(AfterNamespace(s, rest, n).rest) < Len(rest)
<1> DEFINE head == Tail(Strip(rest))
           named == head # <<>> /\ Head(head) \in Words
           body == IF named THEN Tail(head) ELSE head
           braces == Positions(body, "{")
           left == IF braces = {} THEN body ELSE After(body, Min(braces))
<1>1. Strip(rest) \in Line /\ Strip(rest) # <<>> /\ Len(Strip(rest)) \in 0 .. Len(rest)
  <2>1. Strip(rest) # <<>>
    BY DEF IsNamespace, First
  <2> QED
    BY <2>1, StripIs, IndentLevelIs, LineLen
<1>2. head \in Line /\ Len(head) = Len(Strip(rest)) - 1
  BY <1>1 DEF Line
<1> HIDE DEF head
<1>3. body \in Line /\ Len(body) <= Len(head)
  <2>1. Len(head) \in Nat
    BY <1>2, LineLen
  <2>2. ASSUME head # <<>> PROVE Tail(head) \in Line /\ Len(Tail(head)) = Len(head) - 1
    BY <1>2, <2>2 DEF Line
  <2>3. named => head # <<>>
    OBVIOUS
  <2> HIDE DEF named
  <2>4. CASE named
    BY <2>1, <2>2, <2>3, <2>4
  <2>5. CASE ~named
    BY <1>2, <2>1, <2>5
  <2> QED
    BY <2>4, <2>5
<1> HIDE DEF body
<1>4. left \in Line /\ Len(left) <= Len(body)
  <2>1. CASE braces = {}
    <3>1. left = body /\ Len(body) \in Nat
      BY <1>3, <2>1, LineLen
    <3> HIDE DEF left
    <3> QED
      BY <1>3, <3>1
  <2>2. CASE braces # {}
    <3>1. braces \in SUBSET (1 .. Len(body)) /\ Len(body) \in Nat
      BY <1>3, PositionsAre, LineLen
    <3> HIDE DEF braces
    <3>2. braces \in SUBSET Nat
      BY <3>1
    <3>3. Min(braces) \in 0 .. Len(body)
      <4> DEFINE m == Min(braces)
      <4>1. m \in braces
        BY <2>2, <3>2, MinOf
      <4> HIDE DEF m
      <4>2. m \in 0 .. Len(body)
        BY <3>1, <4>1
      <4> QED
        BY <4>2 DEF m
    <3>4. After(body, Min(braces)) \in Line /\ Len(After(body, Min(braces))) = Len(body) - Min(braces)
      BY <1>3, <3>3, AfterIs
    <3>5. left = After(body, Min(braces))
      BY <2>2
    <3> HIDE DEF left
    <3> QED
      BY <3>1, <3>3, <3>4, <3>5
  <2> QED
    BY <2>1, <2>2
<1>5. AfterNamespace(s, rest, n).rest = left
  BY DEF AfterNamespace, left, braces, body, named, head
<1> HIDE DEF left
<1> QED
  BY <1>1, <1>2, <1>3, <1>4, <1>5, LineLen

LEMMA ClassHeadEndIs ==
  ASSUME NEW rest \in Line
  PROVE  ClassHeadEnd(rest) \in 0 .. Len(rest)
<1> DEFINE key == IndentLevel(rest) + (IF First(rest) = "template<>" THEN 2 ELSE 1)
           ends == {i \in key + 1 .. Len(rest) :
                      /\ rest[i] \in Words
                      /\ \A j \in key + 1 .. i - 1 : rest[j] \in Macros}
<1>1. Len(rest) \in Nat /\ key \in Nat
  BY LineLen, IndentLevelIs
<1> HIDE DEF key
<1>2. ends \in SUBSET Nat /\ \A i \in ends : i <= Len(rest)
  BY <1>1
<1>3. ClassHeadEnd(rest) =
        IF key <= Len(rest) /\ rest[key] \in {"class", "struct"} /\ ends # {}
          THEN Max(ends) ELSE 0
  BY DEF ClassHeadEnd, key, ends
<1> HIDE DEF ends
<1>4. ASSUME ends # {} PROVE Max(ends) \in 0 .. Len(rest)
  <2> DEFINE m == Max(ends)
  <2>1. m \in ends
    BY <1>1, <1>2, <1>4, MaxOf
  <2> HIDE DEF m
  <2>2. m \in 0 .. Len(rest)
    BY <1>1, <1>2, <2>1
  <2> QED
    BY <2>2 DEF m
<1> QED
  BY <1>1, <1>3, <1>4

LEMMA AfterClassHeadIs ==
  ASSUME NEW s, NEW rest \in Line, NEW n, NEW indent, NEW is
  PROVE  AfterClassHead(s, rest, n, indent, is).rest \in Line
<1>1. After(rest, ClassHeadEnd(rest)) \in Line
  BY ClassHeadEndIs, AfterIs
<1> QED
  BY <1>1 DEF AfterClassHead

LEMMA AfterBraceIs ==
  ASSUME NEW s, NEW rest \in Line, NEW n, NextConsumed(rest) # {}
  PROVE  /\ AfterBrace(s, rest, n).rest \in Line
         /\ Len(AfterBrace(s, rest, n).rest) < Len(rest)
<1> DEFINE i == FirstConsumed(rest)
<1>1. Len(rest) \in Nat /\ NextConsumed(rest) \in SUBSET (1 .. Len(rest))
  BY LineLen DEF NextConsumed, Line
<1>2. i \in 1 .. Len(rest)
  <2>1. NextConsumed(rest) \in SUBSET Nat
    BY <1>1
  <2> QED
    BY <1>1, <2>1, MinOf DEF FirstConsumed
<1> HIDE DEF i
<1>3. i \in 0 .. Len(rest)
  BY <1>2
<1>4. After(rest, i) \in Line /\ Len(After(rest, i)) = Len(rest) - i
  BY <1>3, AfterIs
<1>5. AfterBrace(s, rest, n).rest = After(rest, i)
  BY DEF AfterBrace, i
<1> QED
  BY <1>1, <1>2, <1>4, <1>5

LEMMA MarkedIs ==
  ASSUME NEW text \in Seq(Line)
  PROVE  Marked(text) \in Seq(Line)
<1>1. Len(text) \in Nat /\ DOMAIN text = 1 .. Len(text) /\ \A i \in 1 .. Len(text) : text[i] \in Line
  OBVIOUS
<1>2. \A i \in EndsInReturn(text) : i \in 1 .. Len(text) /\ Front(text[i]) \in Line
  <2> TAKE i \in EndsInReturn(text)
  <2>1. i \in 1 .. Len(text) /\ text[i] # <<>> /\ text[i] \in Seq(STRING)
    BY <1>1 DEF EndsInReturn, Line
  <2> QED
    BY <2>1, FrontIs DEF Line
<1>3. WithoutReturns(text) \in [1 .. Len(text) -> Line]
  BY <1>1, <1>2 DEF WithoutReturns
<1>4. WithoutReturns(text) \in Seq(Line)
  BY <1>1, <1>3
<1>5. Marker \in Line
  BY TokensAssumption, Two DEF Marker, Line
<1>6. <<Marker>> \in Seq(Line)
  BY <1>5
<1> QED
  BY <1>4, <1>6 DEF Marked

\* The shape of the state: the copies of the file are as long as each other,
\* the line is one of theirs or the one after, what is left of it is a line.
ShapeInv ==
    /\ JobOK(job)
    /\ gate \in {"hand", "unit", "system", "cppcheck", "lint", "done"}
    /\ unit \in 0 .. Len(Units)
    /\ phase \in {"arguments", "next", "config", "override", "open", "ifndef",
                  "endif", "lines", "exit"}
    /\ run \in 0 .. Len(Args)
    /\ look.dir \in Line
    /\ clean \in Copies /\ SameLength(clean)
    /\ line \in 1 .. Len(clean.raw) + 1
    /\ step \in {"idle", "heads", "braces", "done"}
    /\ todo \in Line
    /\ phase \in {"config", "override", "open", "ifndef", "endif", "lines"} => run # 0

\* What JobOK says of a file that is there.
LEMMA FileIs ==
  ASSUME JobOK(job), File \in DOMAIN Files
  PROVE  Files[File] \in Seq(Line)
BY DEF JobOK, Files, Line

LEMMA ElidedIs ==
  ASSUME ShapeInv, InLines
  PROVE  /\ Elided \in Line
         /\ line \in Nat \ {0} /\ Len(clean.raw) \in Nat /\ line <= Len(clean.raw)
<1>1. clean.elided \in Seq(Line) /\ clean.raw \in Seq(Line) /\ Len(clean.elided) = Len(clean.raw)
  BY DEF ShapeInv, Copies, SameLength
<1>2. line \in Nat \ {0} /\ Len(clean.raw) \in Nat /\ line <= Len(clean.raw)
  BY <1>1 DEF ShapeInv, InLines
<1>3. line \in 1 .. Len(clean.elided)
  BY <1>1, <1>2
<1> QED
  BY <1>1, <1>2, <1>3, ElementOfSeq DEF Elided

\* The steps of one line.
LEMMA UpdateShape ==
  ASSUME ShapeInv, InLines,
         \/ StartUpdate(Elided) \/ Namespace(line)
         \/ ClassHead(line, IndentLevel(Raw), FromHere) \/ Brace(line) \/ EndUpdate
  PROVE  /\ todo' \in Line /\ step' \in {"idle", "heads", "braces", "done"}
         /\ \/ step = "idle" /\ step' = "heads"
            \/ step = "heads" /\ step' = "braces"
            \/ step = "braces" /\ step' = "done"
            \/ step' = step /\ Len(todo') < Len(todo)
<1>0. todo \in Line
  BY DEF ShapeInv
<1>1. CASE StartUpdate(Elided)
  BY <1>1, ElidedIs DEF StartUpdate
<1>2. CASE Namespace(line)
  BY <1>0, <1>2, AfterNamespaceIs DEF Namespace
<1>3. CASE ClassHead(line, IndentLevel(Raw), FromHere)
  BY <1>0, <1>3, AfterClassHeadIs DEF ClassHead
<1>4. CASE Brace(line)
  BY <1>0, <1>4, AfterBraceIs DEF Brace
<1>5. CASE EndUpdate
  BY <1>0, <1>5 DEF EndUpdate
<1> QED
  BY <1>1, <1>2, <1>3, <1>4, <1>5

LEMMA ShapeLint ==
  ASSUME ShapeInv, LintNext, job' = job, UNCHANGED gateVars
  PROVE  ShapeInv'
<1>0. /\ JobOK(job)' /\ Len(Args) \in Nat
      /\ gate' \in {"hand", "unit", "system", "cppcheck", "lint", "done"}
      /\ unit' \in 0 .. Len(Units') /\ Args' = Args
  <2>1. Args \in Seq([dir : Seq(STRING), stem : Seq(STRING), ext : STRING])
    BY DEF ShapeInv, JobOK, Args
  <2> QED
    BY <2>1 DEF ShapeInv, JobOK, Args, Units, gateVars
<1>1. CASE ParseArguments
  BY <1>0, <1>1 DEF ParseArguments, Exit, nestingVars, ShapeInv
<1>2. CASE NextFile
  <2>1. Args[run + 1].dir \in Line /\ run + 1 \in 1 .. Len(Args)
    <3>1. run + 1 \in 1 .. Len(Args)
      BY <1>0, <1>2 DEF NextFile, ShapeInv
    <3>2. Args \in Seq([dir : Seq(STRING), stem : Seq(STRING), ext : STRING])
      BY DEF ShapeInv, JobOK, Args
    <3>3. Args[run + 1] \in [dir : Seq(STRING), stem : Seq(STRING), ext : STRING]
      BY <3>1, <3>2, ElementOfSeq
    <3> QED
      BY <3>1, <3>3 DEF Line
  <2> QED
    BY <1>0, <1>2, <2>1 DEF NextFile, nestingVars, ShapeInv
<1>3. CASE ConfigDirectory
  <2>1. look' = look \/ (look.dir # <<>> /\ look'.dir = Front(look.dir))
    <3>1. \/ look' = look
          \/ /\ look.dir # <<>>
             /\ \E b : look' = [dir |-> Front(look.dir), base |-> b]
      BY <1>3, Zenon DEF ConfigDirectory
    <3> QED
      BY <3>1
  <2>2. look'.dir \in Line
    BY <2>1, FrontIs DEF ShapeInv, Line
  <2> QED
    BY <1>0, <1>3, <2>2 DEF ConfigDirectory, Leave, nestingVars, ShapeInv
<1>4. CASE ApplyOverrides
  BY <1>0, <1>4 DEF ApplyOverrides, Exit, nestingVars, ShapeInv
<1>5. CASE SkipFile
  BY <1>0, <1>5 DEF SkipFile, Leave, nestingVars, ShapeInv
<1>6. CASE OpenFile
  <2> DEFINE lines == RemoveMultiLineComments(Marked(Files[File]))
  <2>1. Files[File] \in Seq(Line)
    BY <1>6, FileIs DEF OpenFile, IsDirectoryOrMissing, ShapeInv
  <2>2. lines \in Seq(Line)
    BY <2>1, MarkedIs, RemoveMultiLineCommentsAre
  <2>3. clean' = CleansedLines(lines) /\ line' = 1
    BY <1>6 DEF OpenFile
  <2> HIDE DEF lines
  <2>4. clean' \in Copies /\ SameLength(clean')
    BY <2>2, <2>3, CleansedLinesAre
  <2>5. line' \in 1 .. Len(clean'.raw) + 1
    BY <2>3, <2>4 DEF Copies
  <2>6. todo' \in Line /\ step' = "idle"
    BY <1>6 DEF OpenFile, NestingReset, Line
  <2>7. phase' \in {"ifndef", "lines"} /\ UNCHANGED <<run, look>>
    BY <1>6 DEF OpenFile
  <2>8. run # 0
    BY <1>6 DEF OpenFile, ShapeInv
  <2> QED
    BY <1>0, <2>4, <2>5, <2>6, <2>7, <2>8 DEF ShapeInv
<1>7. CASE UpdateLine
  <2>1. todo' \in Line /\ step' \in {"idle", "heads", "braces", "done"}
    BY <1>7, UpdateShape DEF UpdateLine, StartLine, LineNamespace, LineClassHead,
       LineBrace, LineEnd
  <2>2. UNCHANGED <<phase, run, look, clean, line>>
    BY <1>7 DEF UpdateLine, StartLine, LineNamespace, LineClassHead, LineBrace,
       LineEnd, lineUnchanged
  <2> QED
    BY <1>0, <2>1, <2>2 DEF ShapeInv
<1>8. CASE CheckLine
  <2>1. line' = line + 1 /\ step' = "idle" /\ UNCHANGED <<phase, run, look, clean, todo>> /\ InLines
    BY <1>8 DEF CheckLine
  <2>2. line' \in 1 .. Len(clean'.raw) + 1
    BY <2>1, ElidedIs
  <2> QED
    BY <1>0, <2>1, <2>2 DEF ShapeInv
<1>9. CASE FinishFile
  BY <1>0, <1>9 DEF FinishFile, Leave, nestingVars, ShapeInv
<1>10. CASE ExitMain
  BY <1>0, <1>10 DEF ExitMain, Exit, nestingVars, ShapeInv
<1>11. CASE Ifndef \/ Endif
  BY <1>0, <1>11 DEF Ifndef, Endif, guardUnchanged, nestingVars, ShapeInv
<1> QED
  BY <1>1, <1>2, <1>3, <1>4, <1>5, <1>6, <1>7, <1>8, <1>9, <1>10, <1>11 DEF LintNext

LEMMA ShapeInvariant == Spec => []ShapeInv
<1>1. Init => ShapeInv
  <2> SUFFICES ASSUME Init PROVE ShapeInv
    OBVIOUS
  <2>1. JobOK(job)
    BY LintAssumption DEF Init, LintInit
  <2>2. Args \in Seq([dir : Seq(STRING), stem : Seq(STRING), ext : STRING]) /\ Units \in Seq(STRING)
    BY <2>1 DEF JobOK, Args, Units
  <2>3. 0 \in 0 .. Len(Args) /\ 0 \in 0 .. Len(Units)
    BY <2>2
  <2>4. <<>> \in Line /\ <<>> \in Seq(Line) /\ Len(<<>>) = 0
    BY DEF Line
  <2>5. NoText \in Copies /\ SameLength(NoText) /\ 1 \in 1 .. Len(NoText.raw) + 1
    BY <2>4 DEF NoText, Copies, SameLength
  <2> QED
    BY <2>1, <2>3, <2>4, <2>5 DEF Init, LintInit, NestingInit, ShapeInv
<1>2. ShapeInv /\ [Next]_vars => ShapeInv'
  <2> SUFFICES ASSUME ShapeInv, [Next]_vars PROVE ShapeInv'
    OBVIOUS
  <2>1. job' = job
    BY SameJob
  <2>2. CASE RunLint
    BY <2>1, <2>2, ShapeLint DEF RunLint
  <2>3. CASE UNCHANGED lintVars /\ ~RunLint
    <3>1. gate' \in {"hand", "unit", "system", "cppcheck", "lint", "done"}
      BY <2>3 DEF Next, RunUnit, EndUnits, SystemTests, Cppcheck, EndLint, vars,
         gateVars, ShapeInv
    <3>2. unit' \in 0 .. Len(Units')
      <4>1. Units \in Seq(STRING) /\ Units' = Units
        BY <2>1 DEF ShapeInv, JobOK, Units
      <4>2. unit' = unit \/ (unit < Len(Units) /\ unit' = unit + 1)
        BY <2>3 DEF Next, RunUnit, EndUnits, SystemTests, Cppcheck, EndLint, vars, gateVars
      <4> QED
        BY <4>1, <4>2 DEF ShapeInv
    <3>3. Args' = Args
      BY <2>1 DEF Args
    <3> QED
      BY <2>1, <2>3, <3>1, <3>2, <3>3 DEF lintVars, nestingVars, driverVars, ShapeInv
  <2> QED
    BY <2>2, <2>3 DEF Next, RunUnit, EndUnits, SystemTests, Cppcheck, EndLint, vars
<1> QED
  BY <1>1, <1>2, PTL DEF Spec

LEMMA GatePlaces ==
  /\ Place(GateOrder, "done") = 2 /\ Place(GateOrder, "lint") = 3
  /\ Place(GateOrder, "cppcheck") = 4 /\ Place(GateOrder, "system") = 5
  /\ Place(GateOrder, "unit") = 6
BY DEF GateOrder, Place

LEMMA PhasePlaces ==
  /\ Place(PhaseOrder, "exit") = 1 /\ Place(PhaseOrder, "next") = 2
  /\ Place(PhaseOrder, "lines") = 3 /\ Place(PhaseOrder, "endif") = 4
  /\ Place(PhaseOrder, "ifndef") = 5 /\ Place(PhaseOrder, "open") = 6
  /\ Place(PhaseOrder, "override") = 7 /\ Place(PhaseOrder, "config") = 8
  /\ Place(PhaseOrder, "arguments") = 9
BY DEF PhaseOrder, Place

LEMMA StepPlaces ==
  /\ Place(StepOrder, "done") = 1 /\ Place(StepOrder, "braces") = 2
  /\ Place(StepOrder, "heads") = 3 /\ Place(StepOrder, "idle") = 4
BY DEF StepOrder, Place

\* Less at one place, with the places before it as they were.
LEMMA LessAt ==
  ASSUME NEW a1, NEW a2, NEW a3, NEW a4, NEW a5, NEW a6, NEW a7, NEW a8,
         NEW b1, NEW b2, NEW b3, NEW b4, NEW b5, NEW b6, NEW b7, NEW b8,
         \/ a1 \in -1 .. b1 - 1
         \/ a1 = b1 /\ a2 \in -1 .. b2 - 1
         \/ a1 = b1 /\ a2 = b2 /\ a3 \in -1 .. b3 - 1
         \/ a1 = b1 /\ a2 = b2 /\ a3 = b3 /\ a4 \in -1 .. b4 - 1
         \/ a1 = b1 /\ a2 = b2 /\ a3 = b3 /\ a4 = b4 /\ a5 \in -1 .. b5 - 1
         \/ a1 = b1 /\ a2 = b2 /\ a3 = b3 /\ a4 = b4 /\ a5 = b5 /\ a6 \in -1 .. b6 - 1
         \/ a1 = b1 /\ a2 = b2 /\ a3 = b3 /\ a4 = b4 /\ a5 = b5 /\ a6 = b6
              /\ a7 \in -1 .. b7 - 1
         \/ a1 = b1 /\ a2 = b2 /\ a3 = b3 /\ a4 = b4 /\ a5 = b5 /\ a6 = b6
              /\ a7 = b7 /\ a8 \in -1 .. b8 - 1
  PROVE  Less(<<a1, a2, a3, a4, a5, a6, a7, a8>>, <<b1, b2, b3, b4, b5, b6, b7, b8>>)
<1> DEFINE a == <<a1, a2, a3, a4, a5, a6, a7, a8>>
           b == <<b1, b2, b3, b4, b5, b6, b7, b8>>
<1>1. \E i \in 1 .. 8 : a[i] \in -1 .. b[i] - 1 /\ \A j \in 1 .. i - 1 : a[j] = b[j]
  OBVIOUS
<1>2. DOMAIN a = 1 .. 8
  OBVIOUS
<1> HIDE DEF a, b
<1>3. Less(a, b)
  BY <1>1, <1>2 DEF Less
<1> QED
  BY <1>3 DEF a, b

\* A step of the run leaves fewer files, an earlier phase, fewer directories,
\* fewer lines, less of the line to do, or a shorter rest of it.
LEMMA LintLess ==
  ASSUME ShapeInv, LintNext, job' = job, UNCHANGED gateVars
  PROVE  Less(Remaining', Remaining)
<1> DEFINE p == Place(PhaseOrder, phase)
           g == Place(GateOrder, gate)
           t == Place(StepOrder, step)
           u == IF gate = "unit" THEN Len(Units) - unit ELSE 0
<1>1. Remaining = <<g, u, Len(Args) - run, p, Len(look.dir), Len(clean.raw) - line,
                    t, Len(todo)>>
  BY DEF Remaining
<1>2. Remaining' = <<g', u', Len(Args') - run', p', Len(look'.dir),
                     Len(clean'.raw) - line', t', Len(todo')>>
  BY DEF Remaining
<1>3. g' = g /\ u' = u /\ Args' = Args /\ Len(Args) \in Nat
  <2>1. Args \in Seq([dir : Seq(STRING), stem : Seq(STRING), ext : STRING])
    BY DEF ShapeInv, JobOK, Args
  <2> QED
    BY <2>1 DEF gateVars, Units, Args
<1> HIDE DEF g, u
<1>4. ASSUME run' = run, p' \in 1 .. p - 1
      PROVE  Less(Remaining', Remaining)
  <2>1. p' \in -1 .. p - 1
    BY <1>4, PhasePlaces DEF ShapeInv
  <2> QED
    BY <1>1, <1>2, <1>3, <1>4, <2>1, LessAt
<1>5. CASE ParseArguments
  <2>1. run' = run /\ phase = "arguments" /\ phase' \in {"exit", "next"}
    BY <1>5 DEF ParseArguments, Exit
  <2> QED
    BY <1>4, <2>1, PhasePlaces
<1>6. CASE NextFile
  <2>1. run' = run + 1 /\ run < Len(Args) /\ run \in Nat
    BY <1>3, <1>6 DEF NextFile, ShapeInv
  <2>2. Len(Args') - run' \in -1 .. (Len(Args) - run) - 1
    BY <1>3, <2>1
  <2> QED
    BY <1>1, <1>2, <1>3, <2>2, LessAt
<1>7. CASE ConfigDirectory
  <2>1. run' = run /\ phase = "config" /\ phase' \in {"next", "config", "override"}
    BY <1>7 DEF ConfigDirectory, Leave
  <2>2. CASE phase' # "config"
    BY <1>4, <2>1, <2>2, PhasePlaces
  <2>3. CASE phase' = "config"
    <3>1. look.dir # <<>> /\ \E b : look' = [dir |-> Front(look.dir), base |-> b]
      BY <1>7, <2>1, <2>3, Zenon DEF ConfigDirectory, Leave
    <3>2. look'.dir = Front(look.dir)
      BY <3>1
    <3>3. Len(look'.dir) = Len(look.dir) - 1
      BY <3>1, <3>2, FrontIs DEF ShapeInv, Line
    <3>4. Len(look.dir) \in Nat \ {0}
      BY <3>1, EmptySeq DEF ShapeInv, Line
    <3>5. Len(look'.dir) \in -1 .. Len(look.dir) - 1
      BY <3>3, <3>4
    <3>6. p' = p
      BY <2>1, <2>3
    <3> QED
      BY <1>1, <1>2, <1>3, <2>1, <3>5, <3>6, LessAt
  <2> QED
    BY <2>2, <2>3
<1>8. CASE ApplyOverrides
  <2>1. run' = run /\ phase = "override" /\ phase' \in {"open", "exit"}
    BY <1>8 DEF ApplyOverrides, Exit
  <2> QED
    BY <1>4, <2>1, PhasePlaces
<1>9. CASE SkipFile
  <2>1. run' = run /\ phase = "open" /\ phase' = "next"
    BY <1>9 DEF SkipFile, Leave
  <2> QED
    BY <1>4, <2>1, PhasePlaces
<1>10. CASE OpenFile
  <2>1. run' = run /\ phase = "open" /\ phase' \in {"ifndef", "lines"}
    BY <1>10 DEF OpenFile
  <2> QED
    BY <1>4, <2>1, PhasePlaces
<1>11. CASE Ifndef
  <2>1. run' = run /\ phase = "ifndef" /\ phase' \in {"endif", "lines"}
    BY <1>11 DEF Ifndef, guardUnchanged
  <2> QED
    BY <1>4, <2>1, PhasePlaces
<1>12. CASE Endif
  <2>1. run' = run /\ phase = "endif" /\ phase' = "lines"
    BY <1>12 DEF Endif, guardUnchanged
  <2> QED
    BY <1>4, <2>1, PhasePlaces
<1>13. CASE UpdateLine
  <2>1. UNCHANGED <<phase, run, look, clean, line>> /\ InLines
    BY <1>13 DEF UpdateLine, StartLine, LineNamespace, LineClassHead, LineBrace,
       LineEnd, lineUnchanged
  <2>2. /\ todo' \in Line
        /\ \/ step = "idle" /\ step' = "heads"
           \/ step = "heads" /\ step' = "braces"
           \/ step = "braces" /\ step' = "done"
           \/ step' = step /\ Len(todo') < Len(todo)
    BY <1>13, <2>1, UpdateShape DEF UpdateLine, StartLine, LineNamespace,
       LineClassHead, LineBrace, LineEnd
  <2>3. p' = p /\ Len(look'.dir) = Len(look.dir) /\ Len(clean'.raw) - line' = Len(clean.raw) - line
    BY <2>1
  <2>4. CASE step' # step
    <3>1. t' \in -1 .. t - 1
      BY <2>2, <2>4, StepPlaces
    <3> QED
      BY <1>1, <1>2, <1>3, <2>1, <2>3, <3>1, LessAt
  <2>5. CASE step' = step
    <3>1. t' = t
      BY <2>5
    <3>2. Len(todo') \in Nat /\ Len(todo) \in Nat /\ Len(todo') < Len(todo)
      BY <2>2, <2>5, LineLen DEF ShapeInv
    <3>3. Len(todo') \in -1 .. Len(todo) - 1
      BY <3>2
    <3> QED
      BY <1>1, <1>2, <1>3, <2>1, <2>3, <3>1, <3>3, LessAt
  <2> QED
    BY <2>4, <2>5
<1>14. CASE CheckLine
  <2>1. line' = line + 1 /\ UNCHANGED <<phase, run, look, clean>> /\ InLines
    BY <1>14 DEF CheckLine
  <2>2. Len(clean'.raw) - line' \in -1 .. (Len(clean.raw) - line) - 1
    BY <2>1, ElidedIs
  <2>3. p' = p /\ Len(look'.dir) = Len(look.dir)
    BY <2>1
  <2> QED
    BY <1>1, <1>2, <1>3, <2>1, <2>2, <2>3, LessAt
<1>15. CASE FinishFile
  <2>1. run' = run /\ phase = "lines" /\ phase' = "next"
    BY <1>15 DEF FinishFile, Leave
  <2> QED
    BY <1>4, <2>1, PhasePlaces
<1>16. CASE ExitMain
  <2>1. run' = run /\ phase = "next" /\ phase' = "exit"
    BY <1>16 DEF ExitMain, Exit
  <2> QED
    BY <1>4, <2>1, PhasePlaces
<1> QED
  BY <1>5, <1>6, <1>7, <1>8, <1>9, <1>10, <1>11, <1>12, <1>13, <1>14, <1>15, <1>16
     DEF LintNext

\* A command of the gate leaves fewer commands, or fewer test programs.
LEMMA GateLess ==
  ASSUME ShapeInv, job' = job,
         RunUnit \/ EndUnits \/ SystemTests \/ Cppcheck \/ EndLint
  PROVE  Less(Remaining', Remaining)
<1> DEFINE g == Place(GateOrder, gate)
           u == IF gate = "unit" THEN Len(Units) - unit ELSE 0
           p == Place(PhaseOrder, phase)
           t == Place(StepOrder, step)
<1>1. Remaining = <<g, u, Len(Args) - run, p, Len(look.dir), Len(clean.raw) - line,
                    t, Len(todo)>>
  BY DEF Remaining
<1>2. Remaining' = <<g', u', Len(Args') - run', p', Len(look'.dir),
                     Len(clean'.raw) - line', t', Len(todo')>>
  BY DEF Remaining
<1>3. CASE RunUnit
  <2>1. Units \in Seq(STRING) /\ Units' = Units
    BY DEF ShapeInv, JobOK, Units
  <2>2. gate = "unit" /\ gate' = gate /\ unit < Len(Units) /\ unit' = unit + 1 /\ unit \in Nat
    BY <1>3, <2>1 DEF RunUnit, ShapeInv
  <2>3. g' = g /\ u' \in -1 .. u - 1
    BY <2>1, <2>2
  <2> HIDE DEF g, u, p, t
  <2> QED
    BY <1>1, <1>2, <2>3, LessAt
<1>4. CASE ~RunUnit
  <2>1. g' \in -1 .. g - 1
    <3>1. \/ gate = "unit" /\ gate' = "system"
          \/ gate = "system" /\ gate' = "cppcheck"
          \/ gate = "cppcheck" /\ gate' = "lint"
          \/ gate = "lint" /\ gate' = "done"
      BY <1>4 DEF EndUnits, SystemTests, Cppcheck, EndLint
    <3> QED
      BY <3>1, GatePlaces
  <2> HIDE DEF g, u, p, t
  <2> QED
    BY <1>1, <1>2, <2>1, LessAt
<1> QED
  BY <1>3, <1>4

\* THEOREM: every step of the gate and of cpplint leaves less to do, in an
\* order in which nothing can become less for ever: no text, however its
\* braces, strings, comments and directives are, keeps a run from its end.
THEOREM EveryStepProgresses == Spec => Progresses
<1>1. ASSUME ShapeInv, [Next]_vars PROVE [Less(Remaining', Remaining)]_vars
  <2>1. job' = job
    BY <1>1, SameJob
  <2>2. CASE RunLint
    BY <1>1, <2>1, <2>2, LintLess DEF RunLint
  <2>3. CASE RunUnit \/ EndUnits \/ SystemTests \/ Cppcheck \/ EndLint
    BY <1>1, <2>1, <2>3, GateLess
  <2> QED
    BY <1>1, <2>2, <2>3 DEF Next
<1> QED
  BY <1>1, ShapeInvariant, PTL DEF Spec, Progresses

-----------------------------------------------------------------------------
(* The brackets of a file.                                                  *)

\* In every file, whatever its text, CloseExpression and ReverseCloseExpression
\* find the two ends of the same expression: from a bracket to the one that
\* closes it and back, or back and on again.
THEOREM BracketsMatch == Spec => []BracketsPair
<1>1. ASSUME ShapeInv PROVE BracketsPair
  <2> DEFINE lines == [n \in DOMAIN clean.elided |-> Append(clean.elided[n], EndOfLine)]
             text == TextOf(clean.elided)
  <2>1. clean.elided \in Seq(Seq(STRING))
    BY <1>1 DEF ShapeInv, Copies, Line
  <2>2. text \in Seq(STRING)
    <3>1. /\ Len(clean.elided) \in Nat /\ DOMAIN clean.elided = 1 .. Len(clean.elided)
          /\ \A n \in DOMAIN clean.elided : clean.elided[n] \in Seq(STRING)
      BY <2>1, LenProperties, ElementOfSeq
    <3>2. EndOfLine \in STRING
      BY TokensAssumption
    <3>3. \A n \in 1 .. Len(clean.elided) : Append(clean.elided[n], EndOfLine) \in Seq(STRING)
      BY <3>1, <3>2, AppendProperties
    <3>4. lines \in Seq(Seq(STRING))
      BY <3>1, <3>3
    <3> QED
      BY <3>4, FlattenIs DEF TextOf
  <2>3. DOMAIN text = 1 .. Len(text)
    <3> HIDE DEF text
    <3> QED
      BY <2>2
  <2>4. \A i \in {j \in DOMAIN text : text[j] \in Opening} :
          CloseExpression(text, i) # 0
            => ReverseCloseExpression(text, CloseExpression(text, i)) = i
    <3> HIDE DEF text
    <3> QED
      BY <2>2, <2>3, BackFromEnd
  <2>5. \A i \in {j \in DOMAIN text : text[j] \in Closing} :
          ReverseCloseExpression(text, i) # 0
            => CloseExpression(text, ReverseCloseExpression(text, i)) = i
    <3> HIDE DEF text
    <3> QED
      BY <2>2, <2>3, OnFromStart
  <2> QED
    BY <2>4, <2>5 DEF BracketsPair
<1> QED
  BY <1>1, ShapeInvariant, PTL

-----------------------------------------------------------------------------
(* The type of the blocks                                                    *)

LEMMA IndentIsNat == ASSUME NEW text \in Line PROVE IndentLevel(text) \in Nat
<1>1. IndentLevel(text) \in 0 .. Len(text) /\ Len(text) \in Nat
  BY IndentLevelIs, LineLen
<1> QED
  BY <1>1

LEMMA CountIsNat ==
  ASSUME NEW text \in Line, NEW token
  PROVE  Count(text, token) \in Nat
BY PositionsAre, FS_CardinalityType DEF Count

\* Blocks whose inline assembly is one of A: all kinds of it, or none.
AsmKinds == {"no", "inside", "end", "block"}
KnowsAsm(A) == A \in {AsmKinds, {"no"}}
BlocksIn(A) ==
    [kind : {"block", "extern", "namespace", "class"}, name : Words \cup {""},
     start : Nat, open : BOOLEAN, parens : Int, asm : A,
     access : AccessLabels \cup {""}, indent : Nat]
CheckpointsIn(A) ==
    [before : Seq(BlocksIn(A)), seen : BOOLEAN, kept : Seq(BlocksIn(A))]
StacksOK(A) == stack \in Seq(BlocksIn(A)) /\ pp \in Seq(CheckpointsIn(A))

LEMMA AllBlocks == BlocksIn(AsmKinds) = BlockRecords
BY DEF BlocksIn, AsmKinds, BlockRecords

LEMMA CountParenthesesIs ==
  ASSUME NEW A, KnowsAsm(A), NEW s \in Seq(BlocksIn(A)), NEW text \in Line,
         A # AsmKinds => ~BeginsAsm(text)
  PROVE  CountParentheses(s, text) \in Seq(BlocksIn(A))
<1> DEFINE change == Count(text, "(") - Count(text, ")")
           top == Last(s)
           parens == top.parens + change
           asm == CASE top.asm \in {"no", "end"} ->
                         IF change # 0 /\ parens = 1 /\ BeginsAsm(text)
                           THEN "inside" ELSE "no"
                    [] top.asm = "inside" /\ parens = 0 -> "end"
                    [] OTHER -> top.asm
           block == [top EXCEPT !.parens = parens, !.asm = asm]
<1>1. CASE s = <<>>
  BY <1>1 DEF CountParentheses
<1>2. CASE s # <<>>
  <2>1. top \in BlocksIn(A)
    BY <1>2, LastIs
  <2>2. change \in Int
    BY CountIsNat
  <2> HIDE DEF change, top
  <2>3. parens \in Int
    <3>1. top.parens \in Int
      BY <2>1 DEF BlocksIn
    <3> QED
      BY <2>2, <3>1
  <2> HIDE DEF parens
  <2>4. asm \in A
    <3>1. top.asm \in A
      BY <2>1 DEF BlocksIn
    <3>2. CASE A = AsmKinds
      BY <3>1, <3>2 DEF AsmKinds
    <3>3. CASE A # AsmKinds
      BY <3>1, <3>3 DEF KnowsAsm
    <3> QED
      BY <3>2, <3>3
  <2> HIDE DEF asm
  <2>5. block \in BlocksIn(A)
    BY <2>1, <2>3, <2>4 DEF BlocksIn
  <2>6. CountParentheses(s, text) = SetTop(s, block)
    BY <1>2 DEF CountParentheses, block, asm, parens, change, top
  <2> HIDE DEF block
  <2> QED
    BY <1>2, <2>5, <2>6, SetTopIs
<1> QED
  BY <1>1, <1>2

LEMMA ZeroIs == 0 \in Int /\ 0 \in Nat
OBVIOUS

\* A new block, whatever its kind and name.
LEMMA BlockIs ==
  ASSUME NEW A, "no" \in A, NEW name \in Words \cup {""}, NEW n \in Nat, NEW open \in BOOLEAN,
         NEW kind \in {"block", "extern", "namespace", "class"}
  PROVE  Block(kind, name, n, open) \in BlocksIn(A)
<1>1. 0 \in Int /\ 0 \in Nat
  BY ZeroIs
<1> DEFINE K == {"block", "extern", "namespace", "class"}
           N == Words \cup {""}
           L == AccessLabels \cup {""}
<1>2. kind \in K /\ name \in N /\ "" \in L
  OBVIOUS
<1> HIDE DEF K, N, L
<1>3. Block(kind, name, n, open) \in
        [kind : K, name : N, start : Nat, open : BOOLEAN, parens : Int, asm : A,
         access : L, indent : Nat]
  BY <1>1, <1>2 DEF Block
<1> QED
  BY <1>3 DEF BlocksIn, K, N, L

LEMMA NamespaceStackIs ==
  ASSUME NEW A, "no" \in A, NEW s \in Seq(BlocksIn(A)), NEW rest, NEW n \in Nat
  PROVE  AfterNamespace(s, rest, n).stack \in Seq(BlocksIn(A))
<1> DEFINE head == Tail(Strip(rest))
           named == head # <<>> /\ Head(head) \in Words
           name == IF named THEN Head(head) ELSE ""
           body == IF named THEN Tail(head) ELSE head
           open == Positions(body, "{") # {}
<1>1. name \in Words \cup {""} /\ open \in BOOLEAN
  OBVIOUS
<1>2. AfterNamespace(s, rest, n).stack = Append(s, NamespaceInfo(name, n, open))
  BY DEF AfterNamespace
<1> HIDE DEF name, open
<1>3. NamespaceInfo(name, n, open) \in BlocksIn(A)
  BY <1>1, BlockIs DEF NamespaceInfo
<1> QED
  BY <1>2, <1>3, AppendProperties

LEMMA ClassNameIs ==
  ASSUME NEW rest \in Line, ClassHeadEnd(rest) # 0
  PROVE  rest[ClassHeadEnd(rest)] \in Words
<1> DEFINE key == IndentLevel(rest) + (IF First(rest) = "template<>" THEN 2 ELSE 1)
           ends == {i \in key + 1 .. Len(rest) :
                      /\ rest[i] \in Words
                      /\ \A j \in key + 1 .. i - 1 : rest[j] \in Macros}
<1>1. Len(rest) \in Nat /\ key \in Nat
  BY LineLen, IndentLevelIs
<1> HIDE DEF key
<1>2. ends \in SUBSET Nat /\ \A i \in ends : i <= Len(rest)
  BY <1>1
<1>3. ClassHeadEnd(rest) =
        IF key <= Len(rest) /\ rest[key] \in {"class", "struct"} /\ ends # {}
          THEN Max(ends) ELSE 0
  BY DEF ClassHeadEnd, key, ends
<1>4. \A i \in ends : rest[i] \in Words
  OBVIOUS
<1> HIDE DEF ends
<1>5. ends # {} /\ ClassHeadEnd(rest) = Max(ends)
  BY <1>3
<1>6. Max(ends) \in ends
  BY <1>1, <1>2, <1>5, MaxOf
<1> QED
  BY <1>4, <1>5, <1>6

LEMMA WithAccessIs ==
  ASSUME NEW A, NEW s \in Seq(BlocksIn(A)), NEW rest \in Line
  PROVE  WithAccess(s, rest) \in Seq(BlocksIn(A))
<1> DEFINE labels == {i \in DOMAIN rest : rest[i] \in AccessLabels}
           label == AccessLabel(s, rest)
<1>1. CASE label = 0
  BY <1>1 DEF WithAccess
<1>2. CASE label # 0
  <2>1. s # <<>> /\ labels # {} /\ label = Max(labels)
    BY <1>2 DEF AccessLabel, InClassDeclaration
  <2>2. Len(rest) \in Nat /\ labels \in SUBSET (1 .. Len(rest)) /\ \A i \in labels : rest[i] \in AccessLabels
    BY LineLen DEF Line
  <2> HIDE DEF labels
  <2>3. Max(labels) \in labels
    <3>1. labels \in SUBSET Nat /\ \A i \in labels : i <= Len(rest)
      BY <2>2
    <3> QED
      BY <2>1, <2>2, <3>1, MaxOf
  <2>4. rest[label] \in AccessLabels
    BY <2>1, <2>2, <2>3
  <2>5. Last(s) \in BlocksIn(A)
    BY <2>1, LastIs
  <2> DEFINE block == [Last(s) EXCEPT !.access = rest[label]]
  <2>6. block \in BlocksIn(A)
    BY <2>4, <2>5 DEF BlocksIn
  <2>7. WithAccess(s, rest) = SetTop(s, block)
    BY <1>2 DEF WithAccess
  <2> HIDE DEF block
  <2> QED
    BY <2>1, <2>6, <2>7, SetTopIs
<1> QED
  BY <1>1, <1>2

LEMMA ClassInfoIs ==
  ASSUME NEW A, "no" \in A, NEW name \in Words, NEW n \in Nat, NEW indent \in Nat,
         NEW keyword
  PROVE  ClassInfo(keyword, name, n, indent) \in BlocksIn(A)
<1> DEFINE block == Block("class", name, n, FALSE)
           access == IF keyword = "struct" THEN "public:" ELSE "private:"
           info == ClassInfo(keyword, name, n, indent)
<1>1. block \in BlocksIn(A)
  BY BlockIs
<1>2. access \in AccessLabels
  BY DEF AccessLabels
<1>3. info = [block EXCEPT !.access = access, !.indent = indent]
  BY DEF ClassInfo
<1> HIDE DEF block, access, info
<1>4. info \in BlocksIn(A)
  BY <1>1, <1>2, <1>3 DEF BlocksIn
<1> QED
  BY <1>4 DEF info

LEMMA ClassStackIs ==
  ASSUME NEW A, "no" \in A, NEW s \in Seq(BlocksIn(A)), NEW rest \in Line, NEW n \in Nat,
         NEW indent \in Nat, NEW is \in BOOLEAN, is => ClassHeadEnd(rest) # 0
  PROVE  AfterClassHead(s, rest, n, indent, is).stack \in Seq(BlocksIn(A))
<1> DEFINE end == ClassHeadEnd(rest)
           body == IF is THEN After(rest, end) ELSE rest
           keyword == IF "class" \in Range(Before(rest, end)) THEN "class" ELSE "struct"
           info == ClassInfo(keyword, rest[end], n, indent)
           with == IF is THEN Append(s, info) ELSE s
<1>1. body \in Line
  BY ClassHeadEndIs, AfterIs
<1>2. ASSUME is PROVE info \in BlocksIn(A)
  BY <1>2, ClassNameIs, ClassInfoIs
<1>3. AfterClassHead(s, rest, n, indent, is).stack = WithAccess(with, body)
  BY DEF AfterClassHead
<1> HIDE DEF info, body
<1>4. with \in Seq(BlocksIn(A))
  BY <1>2, AppendProperties
<1> HIDE DEF with
<1> QED
  BY <1>1, <1>3, <1>4, WithAccessIs

LEMMA BraceStackIs ==
  ASSUME NEW A, KnowsAsm(A), NEW s \in Seq(BlocksIn(A)), NEW rest, NEW n \in Nat,
         A # AsmKinds => ~BeginsAsm(rest)
  PROVE  AfterBrace(s, rest, n).stack \in Seq(BlocksIn(A))
<1> DEFINE token == rest[FirstConsumed(rest)]
           asm == IF BeginsAsm(rest) THEN "block" ELSE "no"
           new == [BlockInfo(n) EXCEPT !.asm = asm]
           opened == [Last(s) EXCEPT !.open = TRUE]
<1>0. ~SeenOpenBrace(s) => s # <<>>
  BY DEF SeenOpenBrace
<1>1. ASSUME ~SeenOpenBrace(s) PROVE SetTop(s, opened) \in Seq(BlocksIn(A))
  <2>1. s # <<>> /\ Last(s) \in BlocksIn(A)
    BY <1>0, <1>1, LastIs
  <2>2. opened \in BlocksIn(A)
    BY <2>1 DEF BlocksIn
  <2> HIDE DEF opened
  <2> QED
    BY <2>1, <2>2, SetTopIs
<1>2. Append(s, ExternCInfo(n)) \in Seq(BlocksIn(A))
  <2>1. ExternCInfo(n) \in BlocksIn(A)
    BY BlockIs DEF ExternCInfo, KnowsAsm, AsmKinds
  <2> QED
    BY <2>1, AppendProperties
<1>3. Append(s, new) \in Seq(BlocksIn(A))
  <2>1. BlockInfo(n) \in BlocksIn(A)
    BY BlockIs DEF BlockInfo, KnowsAsm, AsmKinds
  <2>2. asm \in A
    BY DEF KnowsAsm, AsmKinds
  <2> HIDE DEF asm
  <2>3. new \in BlocksIn(A)
    BY <2>1, <2>2 DEF BlocksIn
  <2> QED
    BY <2>3, AppendProperties
<1>4. s # <<>> => Front(s) \in Seq(BlocksIn(A))
  BY LastIs
<1> HIDE DEF opened, new, asm
<1> QED
  BY <1>0, <1>1, <1>2, <1>3, <1>4 DEF AfterBrace, opened, new, asm, token

\* What UpdatePreprocessor makes of the stack and of the checkpoints.
LEMMA RestoredIs ==
  ASSUME NEW A, StacksOK(A), NEW text
  PROVE  Restored(text) \in Seq(BlocksIn(A)) /\ Checkpoints(text) \in Seq(CheckpointsIn(A))
<1>1. stack \in Seq(BlocksIn(A)) /\ pp \in Seq(CheckpointsIn(A))
  BY DEF StacksOK
<1>2. ASSUME pp # <<>>
      PROVE  /\ Last(pp).before \in Seq(BlocksIn(A)) /\ Last(pp).kept \in Seq(BlocksIn(A))
             /\ Front(pp) \in Seq(CheckpointsIn(A))
  <2>1. Last(pp) \in CheckpointsIn(A) /\ Front(pp) \in Seq(CheckpointsIn(A))
    BY <1>1, <1>2, LastIs
  <2> QED
    BY <2>1 DEF CheckpointsIn
<1>3. Restored(text) \in Seq(BlocksIn(A))
  BY <1>1, <1>2 DEF Restored, Restores
<1> DEFINE begun == [before |-> stack, seen |-> FALSE, kept |-> <<>>]
           ended == [before |-> Last(pp).before, seen |-> TRUE, kept |-> stack]
<1>4. begun \in CheckpointsIn(A)
  BY <1>1 DEF CheckpointsIn
<1>5. pp # <<>> => ended \in CheckpointsIn(A)
  BY <1>1, <1>2 DEF CheckpointsIn
<1>6. Checkpoints(text) =
        CASE First(text) = "#if" -> Append(pp, begun)
          [] First(text) = "#else" /\ pp # <<>> /\ ~Last(pp).seen -> SetTop(pp, ended)
          [] First(text) = "#endif" /\ pp # <<>> -> Front(pp)
          [] OTHER -> pp
  BY DEF Checkpoints
<1> HIDE DEF begun, ended
<1>7. Append(pp, begun) \in Seq(CheckpointsIn(A))
  BY <1>1, <1>4, AppendProperties
<1>8. pp # <<>> => SetTop(pp, ended) \in Seq(CheckpointsIn(A))
  BY <1>1, <1>5, SetTopIs
<1>9. CASE First(text) = "#if"
  BY <1>3, <1>6, <1>7, <1>9
<1>10. CASE First(text) # "#if"
  BY <1>1, <1>2, <1>3, <1>6, <1>8, <1>10
<1> QED
  BY <1>9, <1>10

\* The steps of one line keep the type of the blocks.
LEMMA UpdateBlocks ==
  ASSUME NEW A, KnowsAsm(A), StacksOK(A), ShapeInv, InLines,
         A # AsmKinds => ~BeginsAsm(Elided) /\ (step # "idle" => ~BeginsAsm(todo)),
         \/ StartUpdate(Elided) \/ Namespace(line)
         \/ ClassHead(line, IndentLevel(Raw), FromHere) \/ Brace(line) \/ EndUpdate
  PROVE  StacksOK(A)'
<1>0. /\ todo \in Line /\ Elided \in Line /\ line \in Nat /\ Raw \in Line
      /\ stack \in Seq(BlocksIn(A)) /\ pp \in Seq(CheckpointsIn(A)) /\ "no" \in A
  <2>1. clean.raw \in Seq(Line) /\ line \in 1 .. Len(clean.raw)
    BY ElidedIs DEF ShapeInv, Copies
  <2>2. Raw \in Line
    BY <2>1, ElementOfSeq DEF Raw
  <2> QED
    BY <2>2, ElidedIs DEF ShapeInv, StacksOK, KnowsAsm, AsmKinds
<1>1. CASE StartUpdate(Elided)
  <2>1. Restored(Elided) \in Seq(BlocksIn(A)) /\ Checkpoints(Elided) \in Seq(CheckpointsIn(A))
    BY RestoredIs
  <2> QED
    BY <1>0, <1>1, <2>1, CountParenthesesIs DEF StartUpdate, StacksOK
<1>2. CASE Namespace(line)
  BY <1>0, <1>2, NamespaceStackIs DEF Namespace, StacksOK
<1>3. CASE ClassHead(line, IndentLevel(Raw), FromHere)
  <2> DEFINE is == IsClassHead(stack, todo, FromHere)
             indent == IndentLevel(Raw)
  <2>1. is \in BOOLEAN /\ (is => ClassHeadEnd(todo) # 0)
    BY DEF IsClassHead
  <2>2. indent \in Nat
    BY <1>0, IndentIsNat
  <2>3. stack' = AfterClassHead(stack, todo, line, indent, is).stack /\ UNCHANGED pp
    BY <1>3 DEF ClassHead
  <2> HIDE DEF is, indent
  <2>4. stack' \in Seq(BlocksIn(A))
    BY <1>0, <2>1, <2>2, <2>3, ClassStackIs
  <2> QED
    BY <1>0, <2>3, <2>4 DEF StacksOK
<1>4. CASE Brace(line)
  <2>1. stack' = AfterBrace(stack, todo, line).stack /\ UNCHANGED pp
    BY <1>4 DEF Brace
  <2>2. AfterBrace(stack, todo, line).stack \in Seq(BlocksIn(A))
    BY <1>0, <1>4, BraceStackIs DEF Brace
  <2> QED
    BY <1>0, <2>1, <2>2 DEF StacksOK
<1>5. CASE EndUpdate
  BY <1>0, <1>5 DEF EndUpdate, StacksOK
<1> QED
  BY <1>1, <1>2, <1>3, <1>4, <1>5

\* What all steps of a run do to the stacks.
LEMMA StacksStep ==
  ASSUME LintNext
  PROVE  \/ stack' = <<>> /\ pp' = <<>> /\ OpenFile
         \/ /\ UpdateLine /\ InLines
            /\ \/ StartUpdate(Elided) \/ Namespace(line)
               \/ ClassHead(line, IndentLevel(Raw), FromHere) \/ Brace(line) \/ EndUpdate
         \/ UNCHANGED <<stack, pp, previous>> /\ ~OpenFile /\ ~UpdateLine
<1>1. CASE OpenFile
  BY <1>1 DEF OpenFile, NestingReset
<1>2. CASE UpdateLine
  BY <1>2 DEF UpdateLine, StartLine, LineNamespace, LineClassHead, LineBrace, LineEnd
<1>3. CASE ~OpenFile /\ ~UpdateLine
  <2>1. UNCHANGED <<stack, pp, previous>>
    BY <1>3 DEF LintNext, ParseArguments, NextFile, ConfigDirectory, ApplyOverrides,
       SkipFile, Ifndef, Endif, guardUnchanged, CheckLine, FinishFile, ExitMain, nestingVars
  <2> QED
    BY <1>3, <2>1
<1> QED
  BY <1>1, <1>2, <1>3

LEMMA BlocksStep ==
  ASSUME ShapeInv, NestingTypeOK, LintNext, job' = job, UNCHANGED gateVars
  PROVE  NestingTypeOK'
<1>1. ShapeInv'
  BY ShapeLint
<1>2. todo' \in Seq(STRING) /\ step' \in {"idle", "heads", "braces", "done"}
  BY <1>1 DEF ShapeInv, Line
<1>3. NestingTypeOK <=> /\ StacksOK(AsmKinds) /\ previous \in Nat
                        /\ todo \in Seq(STRING) /\ step \in {"idle", "heads", "braces", "done"}
  BY AllBlocks DEF NestingTypeOK, StacksOK, CheckpointsIn
<1>4. NestingTypeOK' <=> /\ StacksOK(AsmKinds)' /\ previous' \in Nat
                         /\ todo' \in Seq(STRING) /\ step' \in {"idle", "heads", "braces", "done"}
  BY AllBlocks DEF NestingTypeOK, StacksOK, CheckpointsIn
<1>5. CASE stack' = <<>> /\ pp' = <<>> /\ OpenFile
  <2>1. StacksOK(AsmKinds)' /\ previous' = 0
    BY <1>5 DEF StacksOK, OpenFile, NestingReset
  <2> QED
    BY <1>2, <1>4, <2>1
<1>6. CASE /\ UpdateLine /\ InLines
           /\ \/ StartUpdate(Elided) \/ Namespace(line)
              \/ ClassHead(line, IndentLevel(Raw), FromHere) \/ Brace(line) \/ EndUpdate
  <2>1. StacksOK(AsmKinds)'
    BY <1>3, <1>6, UpdateBlocks DEF KnowsAsm
  <2>2. previous' \in {0, previous, Len(stack)}
    BY <1>6 DEF StartUpdate, Namespace, ClassHead, Brace, EndUpdate
  <2>3. Len(stack) \in Nat
    BY <1>3, LenProperties DEF StacksOK
  <2> QED
    BY <1>2, <1>3, <1>4, <2>1, <2>2, <2>3
<1>7. CASE UNCHANGED <<stack, pp, previous>>
  BY <1>2, <1>3, <1>4, <1>7 DEF StacksOK
<1> QED
  BY <1>5, <1>6, <1>7, StacksStep

-----------------------------------------------------------------------------
(* The type of the includes and of the functions                             *)

Entries(S) == Seq([name : S, line : Nat])
ListsOK == includeList # <<>> /\ \E S : includeList \in Seq(Entries(S))
IncludesInv ==
    /\ ListsOK
    /\ section \in InitialSection .. OtherHSection
    /\ lastHeader \in Nat

\* #if, #else and #endif make lists of what they find.
LEMMA DirectiveLists ==
  ASSUME ListsOK, NEW directive
  PROVE  /\ ResetLists(directive) # <<>>
         /\ \E S : ResetLists(directive) \in Seq(Entries(S))
<1>1. PICK S : includeList \in Seq(Entries(S))
  BY DEF ListsOK
<1> DEFINE E == Entries(S)
<1>2. <<>> \in E
  BY DEF Entries
<1> HIDE DEF E
<1>3. includeList \in Seq(E) /\ includeList # <<>>
  BY <1>1 DEF ListsOK, E
<1>4. Front(includeList) \in Seq(E)
  BY <1>3, FrontIs
<1>5. ResetLists(directive) \in Seq(E) /\ ResetLists(directive) # <<>>
  <2>1. CASE directive = "#if"
    <3>1. ResetLists(directive) = Append(includeList, <<>>)
      BY <2>1 DEF ResetLists
    <3> QED
      BY <1>2, <1>3, <3>1
  <2>2. CASE directive = "#else"
    <3>1. ResetLists(directive) = Append(Front(includeList), <<>>)
      BY <2>2 DEF ResetLists
    <3> QED
      BY <1>2, <1>4, <3>1
  <2>3. CASE directive \notin {"#if", "#else"}
    BY <1>3, <2>3 DEF ResetLists
  <2> QED
    BY <2>1, <2>2, <2>3
<1> QED
  BY <1>5 DEF E

\* An #include line adds a header of its own to the last list.
LEMMA RecordedLists ==
  ASSUME ListsOK, NEW name, NEW n \in Nat,
         includeList' = Append(Front(includeList),
                               Append(Last(includeList), [name |-> name, line |-> n]))
  PROVE  ListsOK'
<1>1. PICK S : includeList \in Seq(Entries(S))
  BY DEF ListsOK
<1> DEFINE T == S \cup {name}
           E == Entries(T)
           entry == [name |-> name, line |-> n]
<1>2. includeList \in Seq(E)
  <2>1. [name : S, line : Nat] \subseteq [name : T, line : Nat]
    OBVIOUS
  <2>2. Entries(S) \subseteq E
    BY <2>1, SeqMonotonic DEF Entries
  <2> QED
    BY <1>1, <2>2, SeqMonotonic
<1>3. entry \in [name : T, line : Nat]
  OBVIOUS
<1>4. includeList' = Append(Front(includeList), Append(Last(includeList), entry))
  OBVIOUS
<1>5. includeList # <<>>
  BY DEF ListsOK
<1> HIDE DEF entry
<1>6. Last(includeList) \in E /\ Front(includeList) \in Seq(E)
  BY <1>2, <1>5, LastIs
<1>7. Append(Last(includeList), entry) \in E
  BY <1>3, <1>6, AppendProperties DEF Entries
<1> DEFINE list == Append(Last(includeList), entry)
<1> HIDE DEF list, E
<1>8. includeList' \in Seq(E) /\ includeList' # <<>>
  BY <1>4, <1>6, <1>7 DEF list
<1> QED
  BY <1>8 DEF ListsOK, E

LEMMA IncludesStep ==
  ASSUME ShapeInv, IncludesInv, LintNext
  PROVE  IncludesInv'
<1>1. CASE UNCHANGED includeVars
  BY <1>1 DEF includeVars, IncludesInv, ListsOK
<1>2. CASE OpenFile
  <2>1. includeList' = <<<<>>>> /\ section' = 0 /\ lastHeader' = 0
    BY <1>2 DEF OpenFile, IncludeReset, InitialSection
  <2>2. <<<<>>>> \in Seq(Entries({})) /\ <<<<>>>> # <<>>
    BY DEF Entries
  <2>3. ListsOK'
    BY <2>1, <2>2 DEF ListsOK
  <2> QED
    BY <2>1, <2>3 DEF IncludesInv, InitialSection, OtherHSection
<1>3. CASE CheckLine /\ ~UNCHANGED includeVars
  <2>1. CASE ResetSection(First(Elided))
    <3>1. includeList' = ResetLists(First(Elided)) /\ section' = 0 /\ lastHeader' = 0
      BY <2>1 DEF ResetSection, InitialSection
    <3>2. ListsOK'
      BY <3>1, DirectiveLists DEF IncludesInv, ListsOK
    <3> QED
      BY <3>1, <3>2 DEF IncludesInv, InitialSection, OtherHSection
  <2>2. CASE Include(clean.lines[line], line, File)
    <3> DEFINE text == clean.lines[line]
               header == HeaderOf(text)
               kind == ClassifyInclude(File, header)
    <3>1. /\ IncludesHeader(text)
          /\ includeList' = Append(Front(includeList),
                              Append(Last(includeList), [name |-> Name(header), line |-> line]))
          /\ section' = NextSection(kind)
          /\ lastHeader' = header.order
      BY <1>3, <2>2 DEF Include
    <3>2. ListsOK'
      <4>1. line \in Nat
        BY <1>3, ElidedIs DEF CheckLine
      <4> HIDE DEF header
      <4> QED
        BY <3>1, <4>1, RecordedLists DEF IncludesInv
    <3>3. lastHeader' \in Nat
      BY <3>1, HeaderAssumption DEF IncludesHeader, HeaderOf
    <3> HIDE DEF kind
    <3>4. section' \in 0 .. 4
      <4>1. section \in 0 .. 4
        BY DEF IncludesInv, InitialSection, OtherHSection
      <4>2. SectionOf(kind) \in 0 .. 4
        BY DEF SectionOf, MyHSection, CSection, CppSection, OtherHSection
      <4> QED
        BY <3>1, <4>1, <4>2 DEF NextSection
    <3> QED
      BY <3>2, <3>3, <3>4 DEF IncludesInv, InitialSection, OtherHSection
  <2> QED
    BY <1>3, <2>1, <2>2 DEF CheckLine
<1> QED
  BY <1>1, <1>2, <1>3 DEF LintNext, ParseArguments, NextFile, ConfigDirectory,
     ApplyOverrides, SkipFile, UpdateLine, StartLine, LineNamespace, LineClassHead,
     LineBrace, LineEnd, lineUnchanged, Ifndef, Endif, guardUnchanged, FinishFile, ExitMain

LEMMA IncludesTyped ==
  ASSUME IncludesInv
  PROVE  IncludeTypeOK
<1>1. PICK S : includeList \in Seq(Entries(S))
  BY DEF IncludesInv, ListsOK
<1>2. \A i \in DOMAIN includeList : \A j \in DOMAIN includeList[i] :
        includeList[i][j].line \in Nat
  <2> TAKE i \in DOMAIN includeList
  <2>1. includeList[i] \in Entries(S)
    BY <1>1
  <2> DEFINE list == includeList[i]
             R == [name : S, line : Nat]
  <2>2. list \in Seq(R)
    BY <2>1 DEF Entries
  <2>3. \A x \in R : x.line \in Nat
    OBVIOUS
  <2> HIDE DEF list, R
  <2>4. \A j \in DOMAIN list : list[j].line \in Nat
    BY <2>2, <2>3
  <2> QED
    BY <2>4 DEF list
<1> QED
  BY <1>2 DEF IncludesInv, ListsOK, IncludeTypeOK

\* What a declaration is called is one of the words it is made of.
LEMMA DeclaredNameIs ==
  ASSUME NEW text \in Line
  PROVE  DeclaredName(text) \in Words \cup {""}
<1> DEFINE open == Positions(text, "(")
           m == Min(open)
<1>1. open \in SUBSET (1 .. Len(text))
  BY PositionsAre
<1> HIDE DEF open
<1>2. open \in SUBSET Nat
  BY <1>1
<1>3. open # {} => m \in Nat
  BY <1>2, MinOf
<1> HIDE DEF m
<1>4. DeclaredName(text) = IF open # {} /\ m > 1 /\ \A i \in 1 .. m - 1 : text[i] \in Words
                             THEN text[m - 1] ELSE ""
  BY DEF DeclaredName, open, m
<1>5. CASE open # {} /\ m > 1 /\ \A i \in 1 .. m - 1 : text[i] \in Words
  <2>1. m - 1 \in 1 .. m - 1
    BY <1>3, <1>5
  <2> QED
    BY <1>4, <1>5, <2>1
<1> QED
  BY <1>4, <1>5

LEMMA FunctionsStep ==
  ASSUME ShapeInv, FunctionTypeOK, LintNext
  PROVE  FunctionTypeOK'
<1>1. CASE UNCHANGED functionVars
  BY <1>1 DEF functionVars, FunctionTypeOK
<1>2. CASE OpenFile
  BY <1>2 DEF OpenFile, FunctionReset, FunctionTypeOK
<1>3. CASE CheckLine /\ Function(clean.lines, line) /\ ~UNCHANGED functionVars
  <2> DEFINE text == clean.lines[line]
  <2>1. text \in Line
    <3>1. clean.lines \in Seq(Line) /\ line \in 1 .. Len(clean.lines)
      BY <1>3, ElidedIs DEF CheckLine, ShapeInv, Copies, SameLength
    <3> QED
      BY <3>1, ElementOfSeq
  <2>2. CASE StartingFunc(text) /\ BodyBegins(clean.lines, line)
    <3>1. inFunction' = TRUE /\ linesInFunction' = 0 /\ currentFunction' = DeclaredName(text)
      BY <1>3, <2>2 DEF Function
    <3> QED
      BY <2>1, <3>1, DeclaredNameIs DEF FunctionTypeOK
  <2>3. CASE ~(StartingFunc(text) /\ BodyBegins(clean.lines, line))
    <3>1. currentFunction' = currentFunction /\ inFunction' \in {inFunction, FALSE}
      BY <1>3, <2>3, Zenon DEF Function
    <3> DEFINE one == IF inFunction THEN 1 ELSE 0
    <3>2. linesInFunction' \in {linesInFunction, linesInFunction + one}
      BY <1>3, <2>3, Zenon DEF Function
    <3>3. linesInFunction' \in Nat
      <4>1. one \in Nat /\ linesInFunction \in Nat
        BY DEF FunctionTypeOK
      <4> HIDE DEF one
      <4> QED
        BY <3>2, <4>1
    <3> QED
      BY <3>1, <3>3 DEF FunctionTypeOK
  <2> QED
    BY <2>2, <2>3
<1> QED
  BY <1>1, <1>2, <1>3 DEF LintNext, ParseArguments, NextFile, ConfigDirectory,
     ApplyOverrides, SkipFile, UpdateLine, StartLine, LineNamespace, LineClassHead,
     LineBrace, LineEnd, lineUnchanged, CheckLine, Ifndef, Endif, guardUnchanged,
     FinishFile, ExitMain

-----------------------------------------------------------------------------
(* The type of the errors                                                    *)

\* Lists of errors of some categories, of whatever lines and confidences.
Errors(C, T) == \A e \in T : e.category \in C
ErrorsOf(C, list) == \E T : Errors(C, T) /\ list \in Seq(T)
ErrorList(list) == ErrorsOf(Categories, list)
CountsOK == \A key \in DOMAIN byCategory : byCategory[key] \in Nat \ {0}

\* What an #include line is reported for. All others are found by checks that
\* know nothing of includes.
OfIncludes == {"include_order", "include"}
Others == Categories \ OfIncludes

LEMMA NoError == ASSUME NEW C PROVE ErrorsOf(C, <<>>)
<1>1. Errors(C, {}) /\ <<>> \in Seq({})
  BY DEF Errors
<1> QED
  BY <1>1 DEF ErrorsOf

LEMMA OneError ==
  ASSUME NEW C, NEW category \in C, NEW n, NEW confidence
  PROVE  ErrorsOf(C, <<Found(n, category, confidence)>>)
<1> DEFINE e == Found(n, category, confidence)
<1>1. e.category = category
  BY DEF Found
<1> HIDE DEF e
<1>2. Errors(C, {e}) /\ <<e>> \in Seq({e})
  BY <1>1 DEF Errors
<1> QED
  BY <1>2 DEF ErrorsOf, e

LEMMA MaybeError ==
  ASSUME NEW C, NEW condition, NEW category \in C, NEW n, NEW confidence
  PROVE  ErrorsOf(C, If(condition, Found(n, category, confidence)))
BY NoError, OneError DEF If

LEMMA MoreErrors ==
  ASSUME NEW C, NEW a, NEW b, ErrorsOf(C, a), ErrorsOf(C, b)
  PROVE  ErrorsOf(C, a \o b)
<1>1. PICK S : Errors(C, S) /\ a \in Seq(S)
  BY DEF ErrorsOf
<1>2. PICK T : Errors(C, T) /\ b \in Seq(T)
  BY DEF ErrorsOf
<1>3. Errors(C, S \cup T)
  BY <1>1, <1>2 DEF Errors
<1>4. a \in Seq(S \cup T) /\ b \in Seq(S \cup T)
  BY <1>1, <1>2, SeqMonotonic
<1>5. a \o b \in Seq(S \cup T)
  BY <1>4
<1> QED
  BY <1>3, <1>5 DEF ErrorsOf

LEMMA AllErrors ==
  ASSUME NEW C, NEW a, NEW b, ErrorsOf(C, a), ErrorsOf(C, b)
  PROVE  Range(a \o b) = Range(a) \cup Range(b)
<1>1. PICK S : a \in Seq(S)
  BY DEF ErrorsOf
<1>2. PICK T : b \in Seq(T)
  BY DEF ErrorsOf
<1>3. a \in Seq(S \cup T) /\ b \in Seq(S \cup T)
  BY <1>1, <1>2, SeqMonotonic
<1> QED
  BY <1>3, RangeJoined

LEMMA AllCategories ==
  ASSUME NEW list, ErrorsOf(Others, list)
  PROVE  ErrorList(list) /\ \A e \in Range(list) : e.category \notin OfIncludes
<1>1. PICK T : Errors(Others, T) /\ list \in Seq(T)
  BY DEF ErrorsOf
<1>2. Errors(Categories, T) /\ Range(list) \subseteq T
  BY <1>1, RangeIs DEF Errors, Others
<1> QED
  BY <1>1, <1>2 DEF ErrorList, ErrorsOf, Errors, Others

\* What is left of a list without some of its elements.
LEMMA SomeOf ==
  ASSUME NEW T, NEW list \in Seq(T), NEW f,
         f = [i \in DOMAIN list |-> f[i]], \A i \in DOMAIN list : f[i] \in {<<>>, <<list[i]>>}
  PROVE  /\ FlattenSeq(f) \in Seq(T)
         /\ Range(FlattenSeq(f)) = {list[i] : i \in {k \in DOMAIN list : f[k] # <<>>}}
<1>1. DOMAIN list = 1 .. Len(list) /\ Len(list) \in Nat /\ \A i \in 1 .. Len(list) : list[i] \in T
  OBVIOUS
<1> DEFINE S == Seq(T)
<1>2. \A i \in 1 .. Len(list) : f[i] \in S
  <2>1. <<>> \in S /\ \A x \in T : <<x>> \in S
    OBVIOUS
  <2> HIDE DEF S
  <2> TAKE i \in 1 .. Len(list)
  <2>2. list[i] \in T /\ f[i] \in {<<>>, <<list[i]>>}
    BY <1>1
  <2>3. <<list[i]>> \in S
    BY <2>1, <2>2
  <2> QED
    BY <2>1, <2>2, <2>3
<1>3. f \in Seq(Seq(T)) /\ Len(f) = Len(list)
  BY <1>1, <1>2
<1>4. \A i \in 1 .. Len(list) : Range(f[i]) = IF f[i] # <<>> THEN {list[i]} ELSE {}
  <2> TAKE i \in 1 .. Len(list)
  <2>1. Range(<<>>) = {} /\ Range(<<list[i]>>) = {list[i]} /\ <<list[i]>> # <<>>
    BY DEF Range
  <2> QED
    BY <1>1, <2>1
<1>5. /\ FlattenSeq(f) \in Seq(T)
      /\ Range(FlattenSeq(f)) = UNION {Range(f[i]) : i \in 1 .. Len(list)}
  BY <1>3, FlattenIs
<1>6. UNION {Range(f[i]) : i \in 1 .. Len(list)}
        = {list[i] : i \in {k \in DOMAIN list : f[k] # <<>>}}
  BY <1>1, <1>4
<1> QED
  BY <1>5, <1>6

\* What Error prints of a list of errors.
Printed(n, errors) ==
    {[run |-> n, line |-> e.line, category |-> e.category, confidence |-> e.confidence] :
       e \in {x \in Range(errors) : ShouldPrintError(x.category, x.confidence, x.line)}}

\* What Error prints and counts.
LEMMA ReportIs ==
  ASSUME NEW n, NEW errors, ErrorList(errors), ErrorList(printed), CountsOK,
         Report(n, errors)
  PROVE  /\ ErrorList(printed') /\ CountsOK'
         /\ Range(printed') = Range(printed) \cup Printed(n, errors)
<1>1. PICK T : Errors(Categories, T) /\ errors \in Seq(T)
  BY DEF ErrorList, ErrorsOf
<1> DEFINE Shown(e) == ShouldPrintError(e.category, e.confidence, e.line)
           chosen == [i \in DOMAIN errors |-> If(Shown(errors[i]), errors[i])]
           shown == FlattenSeq(chosen)
           entry(e) == [run |-> n, line |-> e.line, category |-> e.category,
                        confidence |-> e.confidence]
           entries == [i \in DOMAIN shown |-> [run |-> n, line |-> shown[i].line,
                         category |-> shown[i].category, confidence |-> shown[i].confidence]]
           keys == UNION {Counted(shown[i].category) : i \in DOMAIN shown}
           Where(key) == {i \in DOMAIN shown : key \in Counted(shown[i].category)}
           Already(key) == IF key \in DOMAIN byCategory THEN byCategory[key] ELSE 0
<1>2. /\ printed' = printed \o entries
      /\ byCategory' = [key \in DOMAIN byCategory \cup keys |->
                          Already(key) + Cardinality(Where(key))]
  BY DEF Report
<1>3. /\ shown \in Seq(T)
      /\ Range(shown) = {e \in Range(errors) : Shown(e)}
  <2>1. \A i \in DOMAIN errors : chosen[i] \in {<<>>, <<errors[i]>>}
    BY DEF If
  <2>2. chosen = [i \in DOMAIN errors |-> chosen[i]]
    OBVIOUS
  <2>3. \A i \in DOMAIN errors : chosen[i] # <<>> <=> Shown(errors[i])
    BY DEF If
  <2> HIDE DEF chosen
  <2>4. /\ shown \in Seq(T)
        /\ Range(shown) = {errors[i] : i \in {k \in DOMAIN errors : chosen[k] # <<>>}}
    BY <1>1, <2>1, <2>2, SomeOf
  <2> HIDE DEF shown, Shown
  <2>5. {errors[i] : i \in {k \in DOMAIN errors : chosen[k] # <<>>}}
          = {e \in Range(errors) : Shown(e)}
    BY <2>3 DEF Range
  <2> QED
    BY <2>4, <2>5
<1> HIDE DEF shown
<1>4. ErrorList(entries)
  <2> DEFINE S == {entry(e) : e \in T}
  <2>1. Errors(Categories, S)
    BY <1>1 DEF Errors
  <2>2. \A i \in 1 .. Len(shown) : entries[i] \in S
    BY <1>3
  <2>3. Len(shown) \in Nat /\ entries = [i \in 1 .. Len(shown) |-> entries[i]]
    BY <1>3
  <2> HIDE DEF S, entries
  <2>4. entries \in Seq(S)
    BY <2>2, <2>3
  <2> QED
    BY <2>1, <2>4 DEF ErrorList, ErrorsOf
<1>5. ErrorList(printed') /\ Range(printed') = Range(printed) \cup Range(entries)
  <2> HIDE DEF entries
  <2>1. /\ ErrorsOf(Categories, printed \o entries)
        /\ Range(printed \o entries) = Range(printed) \cup Range(entries)
    BY <1>4, MoreErrors, AllErrors DEF ErrorList
  <2>2. printed' = printed \o entries
    BY <1>2
  <2> QED
    BY <2>1, <2>2 DEF ErrorList
<1>9. Range(entries) = Printed(n, errors)
  <2>1. DOMAIN entries = DOMAIN shown /\ \A i \in DOMAIN shown : entries[i] = entry(shown[i])
    OBVIOUS
  <2>2. Range(entries) = {entry(e) : e \in Range(shown)}
    <3> HIDE DEF entries, entry
    <3> QED
      BY <2>1 DEF Range
  <2> QED
    BY <1>3, <2>2 DEF Printed
<1>6. \A key : Cardinality(Where(key)) \in Nat /\ (key \in keys => Cardinality(Where(key)) # 0)
  <2> TAKE key
  <2>1. Len(shown) \in Nat /\ Where(key) \subseteq 1 .. Len(shown)
    BY <1>3
  <2>2. IsFiniteSet(Where(key))
    BY <2>1, FS_Interval, FS_Subset
  <2>3. key \in keys => Where(key) # {}
    OBVIOUS
  <2> HIDE DEF Where, keys
  <2> QED
    BY <2>2, <2>3, FS_CardinalityType, FS_EmptySet
<1>7. \A key \in DOMAIN byCategory \cup keys :
        Already(key) + Cardinality(Where(key)) \in Nat \ {0}
  <2> TAKE key \in DOMAIN byCategory \cup keys
  <2> DEFINE old == Already(key)
             new == Cardinality(Where(key))
  <2>1. old \in Nat /\ (key \in DOMAIN byCategory => old # 0)
    BY DEF CountsOK
  <2>2. new \in Nat /\ (key \in keys => new # 0)
    BY <1>6
  <2> HIDE DEF old, new, keys
  <2> QED
    BY <2>1, <2>2 DEF old, new
<1>8. CountsOK'
  <2> HIDE DEF keys, Already, Where
  <2> QED
    BY <1>2, <1>7 DEF CountsOK
<1> QED
  BY <1>5, <1>8, <1>9

\* The categories of the checks that are modelled.
LEMMA CategoriesAre ==
  {"copyright", "header_guard", "include", "include_order", "include_alpha", "class",
   "namespaces", "multiline_comment", "multiline_string", "constructors", "fn_size",
   "namespace", "nolint", "utf8", "nul", "indentation_namespace", "indent", "tab",
   "line_length", "newline", "ending_newline"} \subseteq Categories
BY DEF Categories, Category

LEMMA OthersAre ==
  {"copyright", "header_guard", "include_alpha", "class", "namespaces",
   "multiline_comment", "multiline_string", "constructors", "fn_size", "namespace",
   "nolint", "utf8", "nul", "indentation_namespace", "indent", "tab", "line_length",
   "newline", "ending_newline"} \subseteq Others
BY CategoriesAre DEF Others, OfIncludes

\* What each check finds is a list of errors.
LEMMA GuardErrors ==
  ASSUME NEW lines
  PROVE  ErrorsOf(Others, IfndefErrors(lines)) /\ ErrorsOf(Others, EndifErrors(lines))
BY OthersAre, MaybeError DEF IfndefErrors, EndifErrors

LEMMA NolintErrors == ASSUME NEW raw, NEW n PROVE ErrorsOf(Others, UnknownNolint(raw, n))
BY OthersAre, MaybeError DEF UnknownNolint

LEMMA OpeningErrors ==
  ASSUME NEW lines
  PROVE  ErrorsOf(Others, CopyrightErrors(lines) \o CommentErrors(lines))
<1>1. ErrorsOf(Others, CopyrightErrors(lines))
  BY OthersAre, MaybeError DEF CopyrightErrors
<1>2. ErrorsOf(Others, CommentErrors(lines))
  BY OthersAre, NoError, OneError DEF CommentErrors
<1> QED
  BY <1>1, <1>2, MoreErrors

LEMMA BlockErrors == ErrorsOf(Others, EndErrors)
<1> DEFINE block == Last(stack)
           disallow == If(DisallowNotLast(block, line, clean.elided),
                          Found(Max(DisallowLines(block, line, clean.elided)), "constructors", 3))
           misplaced == If(MisplacedEnd(block, line, clean.elided), Found(line, "indent", 3))
           comment == If(BadNamespaceEnd(block, line, Raw), Found(line, "namespace", 5))
<1>1. ErrorsOf(Others, disallow) /\ ErrorsOf(Others, misplaced) /\ ErrorsOf(Others, comment)
  BY OthersAre, MaybeError
<1>2. EndErrors = CASE ~ClosesBlock(stack, todo) -> <<>>
                    [] ClosesBlock(stack, todo) /\ block.kind = "class" -> disallow \o misplaced
                    [] ClosesBlock(stack, todo) /\ block.kind = "namespace" -> comment
                    [] OTHER -> <<>>
  BY DEF EndErrors
<1> HIDE DEF block, disallow, misplaced, comment
<1>3. ErrorsOf(Others, disallow \o misplaced)
  BY <1>1, MoreErrors
<1>4. "class" # "namespace"
  OBVIOUS
<1>5. EndErrors \in {<<>>, disallow \o misplaced, comment}
  BY <1>2, <1>4
<1> QED
  BY <1>1, <1>3, <1>5, NoError

LEMMA LineErrors == ErrorsOf(Others, StyleErrors)
<1> DEFINE text == clean.unraw[line]
           tab == If(Positions(text, Tab) # {}, Found(line, "tab", 1))
           long == If(/\ text = <<>> \/ Head(text) # "#include"
                      /\ ~(File.ext = "h" /\ IsGuardLine(text))
                      /\ Len(text) > lineLength,
                      Found(line, "line_length",
                            IF Len(text) > (lineLength * 5) \div 4 THEN 4 ELSE 2))
           disallow == If(PublicDisallow(Elided), Found(line, "constructors", 3))
<1>1. ErrorsOf(Others, tab) /\ ErrorsOf(Others, long) /\ ErrorsOf(Others, disallow)
  BY OthersAre, MaybeError
<1>2. StyleErrors = tab \o long \o disallow
  BY DEF StyleErrors
<1> HIDE DEF tab, long, disallow
<1> QED
  BY <1>1, <1>2, MoreErrors

LEMMA LengthErrors ==
  ASSUME NEW lines, NEW n
  PROVE  ErrorsOf(Others, FunctionErrors(lines, n))
<1> DEFINE text == lines[n]
           none == If(StartingFunc(text) /\ ~BodyFound(lines, n), Found(n, "fn_size", 5))
           long == If(/\ ~StartingFunc(text) /\ EndsFunction(text)
                      /\ linesInFunction > BaseTrigger * 2^verbose,
                      Found(n, "fn_size", FunctionLevel))
<1>1. ErrorsOf(Others, none) /\ ErrorsOf(Others, long)
  BY OthersAre, MaybeError
<1>2. FunctionErrors(lines, n) = none \o long
  BY DEF FunctionErrors
<1> HIDE DEF none, long
<1> QED
  BY <1>1, <1>2, MoreErrors

LEMMA RangeOfIf ==
  ASSUME NEW condition, NEW e
  PROVE  Range(If(condition, e)) = IF condition THEN {e} ELSE {}
<1>1. Range(<<>>) = {} /\ Range(<<e>>) = {e}
  BY DEF Range
<1> QED
  BY <1>1 DEF If

\* Whether a header is reported by itself: it has no directory, or is a source
\* file of another one, or was included before.
Repeats(text, file) ==
    LET header == HeaderOf(text)
    IN \/ /\ Head(text) = "#include" /\ ~header.system
          /\ header.dir = <<>> /\ header.ext = "h" /\ ~header.thirdParty
       \/ FindHeader(Name(header)) \/ Foreign(file, header)

\* What the errors of some list say of the #include on line n.
SaysOf(list, n, said) ==
    /\ ErrorList(list) /\ said \subseteq OfIncludes
    /\ \A e \in Range(list) :
         e.category \in OfIncludes => e.category \in said /\ e = Found(n, e.category, 4)
    /\ \A c \in said : Found(n, c, 4) \in Range(list)

LEMMA FoundIs ==
  ASSUME NEW n, NEW category, NEW confidence
  PROVE  Found(n, category, confidence).category = category
BY DEF Found

LEMMA SaysNothing ==
  ASSUME NEW list, NEW n, ErrorsOf(Others, list)
  PROVE  SaysOf(list, n, {})
BY AllCategories DEF SaysOf

LEMMA SaysOne ==
  ASSUME NEW condition, NEW n, NEW category \in OfIncludes
  PROVE  SaysOf(If(condition, Found(n, category, 4)), n, IF condition THEN {category} ELSE {})
<1> DEFINE e == Found(n, category, 4)
           list == If(condition, e)
<1>1. ErrorList(list)
  BY CategoriesAre, MaybeError DEF ErrorList, OfIncludes
<1>2. Range(list) = IF condition THEN {e} ELSE {}
  BY RangeOfIf
<1>3. e.category = category
  BY FoundIs
<1> HIDE DEF e, list
<1>4. \A x \in Range(list) : x.category = category /\ x = Found(n, x.category, 4)
  BY <1>2, <1>3 DEF e
<1>5. SaysOf(list, n, IF condition THEN {category} ELSE {})
  <2>1. CASE condition
    BY <1>1, <1>2, <1>4, <2>1 DEF SaysOf, e
  <2>2. CASE ~condition
    BY <1>1, <1>2, <2>2 DEF SaysOf
  <2> QED
    BY <2>1, <2>2
<1> QED
  BY <1>5 DEF list, e

LEMMA SaysBoth ==
  ASSUME NEW a, NEW b, NEW n, NEW S, NEW T, SaysOf(a, n, S), SaysOf(b, n, T)
  PROVE  SaysOf(a \o b, n, S \cup T)
<1>1. ErrorList(a) /\ ErrorList(b)
  BY DEF SaysOf
<1>2. ErrorList(a \o b) /\ Range(a \o b) = Range(a) \cup Range(b)
  BY <1>1, MoreErrors, AllErrors DEF ErrorList
<1> QED
  BY <1>2 DEF SaysOf

\* What the check of an #include says.
SaidOf(text, file) ==
    {c \in OfIncludes :
       /\ IncludesHeader(text)
       /\ c = "include_order" => /\ Records(file, HeaderOf(text))
                                 /\ OutOfOrder(ClassifyInclude(file, HeaderOf(text)))
       /\ c = "include" => Repeats(text, file)}

LEMMA HeaderErrors ==
  ASSUME NEW text, NEW n, NEW file, NEW before
  PROVE  SaysOf(IncludeErrors(text, n, file, before), n, SaidOf(text, file))
<1> DEFINE header == HeaderOf(text)
           kind == ClassifyInclude(file, header)
           late == Records(file, header) /\ OutOfOrder(kind)
           near == /\ Head(text) = "#include" /\ ~header.system
                   /\ header.dir = <<>> /\ header.ext = "h" /\ ~header.thirdParty
           known == FindHeader(Name(header)) \/ Foreign(file, header)
           bare == If(near, Found(n, "include", 4))
           again == If(known, Found(n, "include", 4))
           order == If(late, Found(n, "include_order", 4))
           alpha == If(/\ Records(file, header)
                       /\ KeptHeader(kind) > header.order
                       /\ IsInclude(before),
                       Found(n, "include_alpha", 4))
           all == bare \o again \o order \o alpha
           S == IF near THEN {"include"} ELSE {}
           T == IF known THEN {"include"} ELSE {}
           U == IF late THEN {"include_order"} ELSE {}
<1>1. IncludeErrors(text, n, file, before) = IF ~IncludesHeader(text) THEN <<>> ELSE all
  BY DEF IncludeErrors
<1>2. "include_order" \in OfIncludes /\ "include" \in OfIncludes
  BY DEF OfIncludes
<1>3. /\ ~IncludesHeader(text) => SaidOf(text, file) = {}
      /\ IncludesHeader(text) => SaidOf(text, file) = S \cup T \cup U
  <2>1. Repeats(text, file) <=> near \/ known
    BY DEF Repeats
  <2>2. SaidOf(text, file) = {c \in OfIncludes :
          IncludesHeader(text) /\ (c = "include_order" => late) /\ (c = "include" => near \/ known)}
    BY <2>1 DEF SaidOf
  <2> HIDE DEF late, near, known
  <2> QED
    BY <2>2 DEF OfIncludes
<1>4. ErrorsOf(Others, alpha) /\ ErrorsOf(Others, <<>>)
  BY OthersAre, MaybeError, NoError
<1>5. SaysOf(bare, n, S) /\ SaysOf(again, n, T) /\ SaysOf(order, n, U)
  BY <1>2, SaysOne
<1>6. SaysOf(alpha, n, {}) /\ SaysOf(<<>>, n, {})
  BY <1>4, SaysNothing
<1> HIDE DEF bare, again, order, alpha, S, T, U
<1>7. SaysOf(all, n, S \cup T \cup U)
  <2>1. SaysOf(bare \o again, n, S \cup T)
    BY <1>5, SaysBoth
  <2>2. SaysOf(bare \o again \o order, n, S \cup T \cup U)
    BY <1>5, <2>1, SaysBoth
  <2>3. SaysOf(all, n, (S \cup T \cup U) \cup {})
    BY <1>6, <2>2, SaysBoth
  <2>4. (S \cup T \cup U) \cup {} = S \cup T \cup U
    OBVIOUS
  <2> QED
    BY <2>3, <2>4
<1> HIDE DEF all
<1> QED
  BY <1>1, <1>3, <1>6, <1>7

LEMMA ForEachErrors ==
  ASSUME ShapeInv, NEW lines, NEW category \in Others, NEW confidence
  PROVE  ErrorsOf(Others, ForEach(lines, category, confidence))
<1> DEFINE N == Len(clean.raw)
           all == [i \in 1 .. N |-> Found(i, category, confidence)]
           T == {Found(i, category, confidence) : i \in 1 .. N}
           chosen == [i \in 1 .. N |-> If(i \in lines, Found(i, category, confidence))]
<1>1. N \in Nat
  BY DEF ShapeInv, Copies
<1> HIDE DEF N
<1>2. Errors(Others, T)
  BY DEF Errors, Found
<1>3. all \in Seq(T) /\ DOMAIN all = 1 .. N
  BY <1>1
<1>4. \A i \in 1 .. N : chosen[i] \in {<<>>, <<all[i]>>}
  BY DEF If
<1>5. chosen = [i \in 1 .. N |-> chosen[i]]
  OBVIOUS
<1>6. ForEach(lines, category, confidence) = FlattenSeq(chosen)
  BY DEF ForEach, N
<1> HIDE DEF chosen, all, T
<1>7. FlattenSeq(chosen) \in Seq(T)
  BY <1>3, <1>4, <1>5, SomeOf
<1> QED
  BY <1>2, <1>6, <1>7 DEF ErrorsOf

LEMMA IncompleteErrors ==
  ASSUME NestingTypeOK
  PROVE  ErrorsOf(Others, [i \in DOMAIN Incomplete |->
           Found(Incomplete[i].start,
                 IF Incomplete[i].kind = "class" THEN "class" ELSE "namespaces", 5)])
<1> DEFINE Complain(b) == Found(b.start, IF b.kind = "class" THEN "class" ELSE "namespaces", 5)
           chosen == [i \in DOMAIN stack |-> IF stack[i].kind \in {"class", "namespace"}
                                               THEN <<stack[i]>> ELSE <<>>]
           T == {Complain(b) : b \in BlockRecords}
           all == [i \in DOMAIN Incomplete |-> Complain(Incomplete[i])]
<1>1. Incomplete \in Seq(BlockRecords)
  <2>1. \A i \in DOMAIN stack : chosen[i] \in {<<>>, <<stack[i]>>}
    OBVIOUS
  <2>2. chosen = [i \in DOMAIN stack |-> chosen[i]]
    OBVIOUS
  <2>3. Incomplete = FlattenSeq(chosen)
    BY DEF Incomplete
  <2> HIDE DEF chosen
  <2> QED
    BY <2>1, <2>2, <2>3, SomeOf DEF NestingTypeOK
<1>2. Errors(Others, T)
  <2>1. \A b : Complain(b).category \in Others
    BY OthersAre DEF Found
  <2> HIDE DEF Complain
  <2> QED
    BY <2>1 DEF Errors
<1> HIDE DEF Complain
<1>3. \A i \in 1 .. Len(Incomplete) : all[i] \in T
  BY <1>1
<1>4. Len(Incomplete) \in Nat /\ all = [i \in 1 .. Len(Incomplete) |-> all[i]]
  BY <1>1
<1> HIDE DEF T, all
<1>5. all \in Seq(T)
  BY <1>3, <1>4
<1> QED
  BY <1>2, <1>5 DEF ErrorsOf, all, Complain

LEMMA FileErrors ==
  ASSUME ShapeInv, NestingTypeOK
  PROVE  ErrorList(EndOfFileErrors)
<1> DEFINE blocks == [i \in DOMAIN Incomplete |->
                        Found(Incomplete[i].start,
                              IF Incomplete[i].kind = "class" THEN "class" ELSE "namespaces", 5)]
           own == MissesOwnHeader(File, DOMAIN Files)
           utf8 == ForEach({i \in DOMAIN clean.raw : Positions(clean.raw[i], "invalid utf8") # {}},
                           "utf8", 5)
           nul == ForEach({i \in DOMAIN clean.raw : Positions(clean.raw[i], "NUL") # {}}, "nul", 5)
           end == If(clean.raw[Len(clean.raw) - 1] # <<>>,
                     Found(Len(clean.raw) - 1, "ending_newline", 5))
           returns == EndsInReturn(Files[File])
           mixed == ForEach({i + 1 : i \in returns}, "newline", 1)
           ends == IF returns = 1 .. Len(Files[File]) - 1 THEN <<>> ELSE mixed
<1>1. ErrorsOf(Others, blocks)
  BY IncompleteErrors
<1>2. ErrorList(own)
  BY CategoriesAre, MaybeError DEF MissesOwnHeader, ErrorList
<1>3. ErrorsOf(Others, utf8) /\ ErrorsOf(Others, nul) /\ ErrorsOf(Others, mixed)
  BY OthersAre, ForEachErrors
<1>4. ErrorsOf(Others, end)
  BY OthersAre, MaybeError
<1> HIDE DEF mixed
<1>5. ErrorsOf(Others, ends)
  BY <1>3, NoError
<1>6. EndOfFileErrors = blocks \o own \o utf8 \o nul \o end \o ends
  BY DEF EndOfFileErrors, mixed
<1> HIDE DEF blocks, own, utf8, nul, end, ends
<1>7. ErrorList(blocks) /\ ErrorList(utf8) /\ ErrorList(nul) /\ ErrorList(end) /\ ErrorList(ends)
  BY <1>1, <1>3, <1>4, <1>5, AllCategories
<1>8. ErrorList(blocks \o own \o utf8 \o nul \o end \o ends)
  BY <1>2, <1>7, MoreErrors DEF ErrorList
<1> QED
  BY <1>6, <1>8

\* The lines that NOLINT comments are about.
SuppressionsOK ==
    \A s \in suppressions : s[1] \in Categories \cup {"*"} /\ s[2] \in Nat

LEMMA NolintIs ==
  ASSUME NEW raw, NEW n \in Nat
  PROVE  \A s \in Nolint(raw, n) : s[1] \in Categories \cup {"*"} /\ s[2] \in Nat
<1> DEFINE category == NolintCategory(raw)
           at == IF raw[Min(NolintAt(raw))] = "NOLINT" THEN n ELSE n + 1
<1>1. at \in Nat
  OBVIOUS
<1>2. Nolint(raw, n) = IF NolintAt(raw) # {} /\ category \in Categories \cup {"*"}
                         THEN {<<category, at>>} ELSE {}
  BY DEF Nolint
<1> HIDE DEF category, at
<1> QED
  BY <1>1, <1>2

\* The lines of the guard are lines.
LEMMA GuardLines ==
  ASSUME NEW lines \in Seq(Line)
  PROVE  IfndefAt(lines) \in Nat /\ EndifAt(lines) \in Nat
<1> DEFINE named == {i \in DOMAIN lines : First(lines[i]) = "#if" /\ Len(Strip(lines[i])) > 1}
           ends == {i \in DOMAIN lines : IsPrefix(<<"#endif">>, lines[i])}
<1>1. Len(lines) \in Nat /\ DOMAIN lines = 1 .. Len(lines)
  OBVIOUS
<1>2. named \in SUBSET Nat /\ ends \in SUBSET Nat /\ \A i \in ends : i <= Len(lines)
  BY <1>1
<1>3. /\ IfndefAt(lines) = IF named = {} THEN 1 ELSE Min(named)
      /\ EndifAt(lines) = IF ends = {} THEN 1 ELSE Max(ends)
  BY DEF IfndefAt, FirstNamed, EndifAt
<1> HIDE DEF named, ends
<1>4. named # {} => Min(named) \in Nat
  BY <1>2, MinOf
<1>5. ends # {} => Max(ends) \in Nat
  BY <1>1, <1>2, MaxOf
<1> QED
  BY <1>3, <1>4, <1>5

ErrorsInv == ErrorList(printed) /\ CountsOK /\ SuppressionsOK

\* The errors of the checks of a line, and the one about the order of includes.
LineErrorList ==
    FunctionErrors(clean.lines, line)
      \o If(ComplexComment(Elided), Found(line, "multiline_comment", 5))
      \o If(ComplexString(Elided), Found(line, "multiline_string", 5))
      \o StyleErrors
      \o (IF IncludesHeader(Elided)
            THEN IncludeErrors(clean.lines[line], line, File, clean.elided[line - 1])
            ELSE <<>>)
IsOutOfOrder ==
    /\ IncludesAt(line)
    /\ Records(File, HeaderAt(line)) /\ OutOfOrder(KindAt(line))

IsRepeated == IncludesAt(line) /\ Repeats(clean.lines[line], File)

LEMMA LineChecks ==
  /\ ErrorList(LineErrorList)
  /\ \A e \in Range(LineErrorList) : e.category \in OfIncludes => e = Found(line, e.category, 4)
  /\ Found(line, "include_order", 4) \in Range(LineErrorList) <=> IsOutOfOrder
  /\ Found(line, "include", 4) \in Range(LineErrorList) <=> IsRepeated
<1> DEFINE text == clean.lines[line]
           length == FunctionErrors(clean.lines, line)
           comment == If(ComplexComment(Elided), Found(line, "multiline_comment", 5))
           string == If(ComplexString(Elided), Found(line, "multiline_string", 5))
           header == IncludeErrors(text, line, File, clean.elided[line - 1])
           include == IF IncludesHeader(Elided) THEN header ELSE <<>>
           before == length \o comment \o string \o StyleErrors
           said == IF IncludesHeader(Elided) THEN SaidOf(text, File) ELSE {}
<1>1. ErrorsOf(Others, length) /\ ErrorsOf(Others, StyleErrors)
  BY LengthErrors, LineErrors
<1>2. ErrorsOf(Others, comment) /\ ErrorsOf(Others, string)
  BY OthersAre, MaybeError
<1>3. SaysOf(header, line, SaidOf(text, File))
  BY HeaderErrors
<1>4. LineErrorList = before \o include
  BY DEF LineErrorList
<1>5. /\ "include_order" \in said <=> IsOutOfOrder
      /\ "include" \in said <=> IsRepeated
  <2>1. /\ IsOutOfOrder <=>
             /\ IncludesHeader(Elided) /\ IncludesHeader(text) /\ Records(File, HeaderOf(text))
             /\ OutOfOrder(ClassifyInclude(File, HeaderOf(text)))
        /\ IsRepeated <=>
             IncludesHeader(Elided) /\ IncludesHeader(text) /\ Repeats(text, File)
    BY DEF IsOutOfOrder, IsRepeated, IncludesAt, HeaderAt, KindAt, Elided
  <2> QED
    BY <2>1 DEF SaidOf, OfIncludes
<1> HIDE DEF length, comment, string, header
<1>6. SaysOf(before, line, {}) /\ SaysOf(<<>>, line, {})
  BY <1>1, <1>2, MoreErrors, NoError, SaysNothing
<1>7. SaysOf(include, line, said)
  BY <1>3, <1>6
<1> HIDE DEF include, before, said
<1>8. SaysOf(before \o include, line, {} \cup said)
  BY <1>6, <1>7, SaysBoth
<1>9. SaysOf(LineErrorList, line, said)
  <2>1. {} \cup said = said
    OBVIOUS
  <2> QED
    BY <1>4, <1>8, <2>1
<1>10. \A c \in OfIncludes : Found(line, c, 4) \in Range(LineErrorList) <=> c \in said
  BY <1>9, FoundIs DEF SaysOf
<1> QED
  BY <1>5, <1>9, <1>10 DEF SaysOf, OfIncludes

\* What every step reports: only the checks of a line say something of its
\* #include, and when the file is read it may lack its own header.
LEMMA StepReports ==
  ASSUME ShapeInv, NestingTypeOK, LintNext
  PROVE  \/ /\ ~(CheckLine /\ ~InAsmBlock(stack))
            /\ \/ UNCHANGED <<printed, byCategory>>
               \/ \E errors : ErrorsOf(Others, errors) /\ Report(run, errors)
               \/ FinishFile /\ \E errors : ErrorList(errors) /\ Report(run, errors)
         \/ CheckLine /\ ~InAsmBlock(stack) /\ Report(run, LineErrorList)
<1>1. CASE CheckLine /\ ~InAsmBlock(stack)
  BY <1>1 DEF CheckLine, LineErrorList
<1>2. CASE ~(CheckLine /\ ~InAsmBlock(stack))
  <2>1. \/ UNCHANGED <<printed, byCategory>>
        \/ \E errors : ErrorsOf(Others, errors) /\ Report(run, errors)
        \/ FinishFile /\ \E errors : ErrorList(errors) /\ Report(run, errors)
    <3>1. CASE OpenFile
      BY <3>1, OpeningErrors DEF OpenFile
    <3>2. CASE Ifndef
      BY <3>2, GuardErrors, NolintErrors, MoreErrors, OneError, OthersAre DEF Ifndef
    <3>3. CASE Endif
      BY <3>3, GuardErrors, NolintErrors, MoreErrors DEF Endif
    <3>4. CASE StartLine
      BY <3>4, NolintErrors DEF StartLine
    <3>5. CASE LineClassHead
      BY <3>5, MaybeError, OthersAre DEF LineClassHead
    <3>6. CASE LineBrace
      BY <3>6, BlockErrors DEF LineBrace
    <3>7. CASE LineEnd
      BY <3>7, MaybeError, OthersAre DEF LineEnd
    <3>8. CASE CheckLine
      BY <1>2, <3>8 DEF CheckLine
    <3>9. CASE FinishFile
      BY <3>9, FileErrors DEF FinishFile
    <3>10. CASE ParseArguments \/ NextFile \/ ConfigDirectory \/ ApplyOverrides \/ SkipFile
                \/ LineNamespace \/ ExitMain
      BY <3>10 DEF ParseArguments, NextFile, ConfigDirectory, ApplyOverrides, SkipFile,
         LineNamespace, ExitMain, reportVars
    <3> QED
      BY <3>1, <3>2, <3>3, <3>4, <3>5, <3>6, <3>7, <3>8, <3>9, <3>10 DEF LintNext, UpdateLine
  <2> QED
    BY <1>2, <2>1
<1> QED
  BY <1>1, <1>2

LEMMA ErrorsStep ==
  ASSUME ShapeInv, NestingTypeOK, ErrorsInv, LintNext
  PROVE  ErrorsInv'
<1>0. ErrorList(printed) /\ CountsOK /\ SuppressionsOK
  BY DEF ErrorsInv
<1>1. \/ UNCHANGED <<printed, byCategory>>
      \/ \E errors : ErrorList(errors) /\ Report(run, errors)
  BY StepReports, AllCategories, LineChecks
<1>2. ErrorList(printed') /\ CountsOK'
  <2>1. CASE UNCHANGED <<printed, byCategory>>
    BY <1>0, <2>1 DEF CountsOK
  <2>2. CASE \E errors : ErrorList(errors) /\ Report(run, errors)
    BY <1>0, <2>2, ReportIs
  <2> QED
    BY <1>1, <2>1, <2>2
<1>3. \/ suppressions' \in {suppressions, {}}
      \/ \E raw, n : n \in Nat /\ suppressions' = suppressions \cup Nolint(raw, n)
  <2>1. CASE OpenFile
    BY <2>1 DEF OpenFile, AfterReset
  <2>2. CASE Ifndef \/ Endif
    <3>1. clean.unraw \in Seq(Line)
      BY DEF ShapeInv, Copies
    <3> QED
      BY <2>2, <3>1, GuardLines DEF Ifndef, Endif
  <2>3. CASE StartLine
    BY <2>3, ElidedIs DEF StartLine
  <2>4. CASE ~OpenFile /\ ~Ifndef /\ ~Endif /\ ~StartLine
    BY <2>4 DEF LintNext, UpdateLine, ParseArguments, NextFile, ConfigDirectory,
       ApplyOverrides, SkipFile, LineNamespace, LineClassHead, LineBrace, LineEnd, CheckLine,
       FinishFile, ExitMain, reportVars
  <2> QED
    BY <2>1, <2>2, <2>3, <2>4
<1>4. SuppressionsOK'
  BY <1>0, <1>3, NolintIs DEF SuppressionsOK
<1> QED
  BY <1>2, <1>4 DEF ErrorsInv

-----------------------------------------------------------------------------
(* The type of the options                                                   *)

\* A filter of an option, of a configuration, or the default.
KnownFilters == FilterType \cup {DefaultFilters[1]}

OptionsInv ==
    /\ filters \in Seq(KnownFilters) /\ backup \in Seq(KnownFilters)
    /\ overrides \in Seq(Seq(KnownFilters))
    /\ verbose \in Int /\ lineLength \in Int

LEMMA DefaultsAre == DefaultFilters \in Seq(KnownFilters)
<1> DEFINE default == Filter("-", Category["include_alpha"])
<1>1. DefaultFilters = <<default>>
  BY DEF DefaultFilters
<1> HIDE DEF default
<1>2. DefaultFilters[1] = default
  BY <1>1
<1> QED
  BY <1>1, <1>2 DEF KnownFilters

\* The last of the options of a name counts.
LEMMA ValueIs ==
  ASSUME JobOK(job), NEW opt, NEW default
  PROVE  \/ Given(opt) = {} /\ ValueOf(opt, default) = default
         \/ \E i \in DOMAIN Options : /\ Options[i].opt = opt
                                      /\ ValueOK(opt, Options[i].val)
                                      /\ ValueOf(opt, default) = Options[i].val
<1>1. /\ Len(Options) \in Nat /\ DOMAIN Options = 1 .. Len(Options)
      /\ \A i \in DOMAIN Options : ValueOK(Options[i].opt, Options[i].val)
  BY DEF JobOK, IsSequence, Options
<1>2. /\ Given(opt) \in SUBSET Nat /\ \A i \in Given(opt) : i <= Len(Options)
      /\ \A i \in Given(opt) : i \in DOMAIN Options /\ Options[i].opt = opt
  BY <1>1 DEF Given
<1>3. CASE Given(opt) = {}
  BY <1>3 DEF ValueOf
<1>4. CASE Given(opt) # {}
  <2> DEFINE m == Max(Given(opt))
  <2>1. m \in Given(opt)
    BY <1>1, <1>2, <1>4, MaxOf
  <2>2. ValueOf(opt, default) = Options[m].val
    BY <1>4 DEF ValueOf
  <2> HIDE DEF m
  <2> QED
    BY <1>1, <1>2, <2>1, <2>2
<1> QED
  BY <1>3, <1>4

\* No option that could not be read is used.
LEMMA NoneStops ==
  ASSUME JobOK(job), Stopping = 0
  PROVE  \A i \in DOMAIN Options : ~Usage(Options[i])
<1> DEFINE stop == {i \in DOMAIN Options : Usage(Options[i]) \/ PrintCategories(Options[i])}
<1>1. DOMAIN Options = 1 .. Len(Options) /\ Len(Options) \in Nat
  BY DEF JobOK, IsSequence, Options
<1>2. stop \in SUBSET Nat /\ 0 \notin stop
  BY <1>1
<1>3. Stopping = IF stop = {} THEN 0 ELSE Min(stop)
  BY DEF Stopping
<1>4. stop = {}
  <2> HIDE DEF stop
  <2> QED
    BY <1>2, <1>3, MinOf
<1> QED
  BY <1>4

LEMMA NumberIs ==
  ASSUME JobOK(job), Stopping = 0, NEW opt \in {"verbose", "linelength"}, NEW default \in Int
  PROVE  Head(ValueOf(opt, <<default>>)) \in Int
<1> DEFINE val == ValueOf(opt, <<default>>)
<1>1. CASE val = <<default>>
  BY <1>1
<1>2. CASE val # <<default>>
  <2>1. PICK i \in DOMAIN Options : /\ Options[i].opt = opt
                                    /\ ValueOK(opt, Options[i].val)
                                    /\ val = Options[i].val
    BY <1>2, ValueIs
  <2>2. val \in Seq(Int)
    BY <2>1 DEF ValueOK
  <2>3. val # <<>>
    <3>1. ~Usage(Options[i])
      BY NoneStops
    <3> QED
      BY <2>1, <3>1 DEF Usage
  <2> HIDE DEF val
  <2> QED
    BY <2>2, <2>3, HeadTailProperties DEF val
<1> QED
  BY <1>1, <1>2

LEMMA ArgumentFiltersAre ==
  ASSUME JobOK(job)
  PROVE  ArgumentFilters \in Seq(KnownFilters)
<1> DEFINE val == ValueOf("filter", <<>>)
<1>1. val = <<>> \/ val \in Seq(FilterType)
  <2>1. \/ val = <<>>
        \/ \E i \in DOMAIN Options : ValueOK("filter", Options[i].val) /\ val = Options[i].val
    BY ValueIs
  <2> HIDE DEF val
  <2> QED
    BY <2>1 DEF ValueOK
<1> HIDE DEF val
<1>2. val \in Seq(KnownFilters)
  <2>1. FilterType \subseteq KnownFilters
    BY DEF KnownFilters
  <2>2. <<>> \in Seq(KnownFilters)
    OBVIOUS
  <2>3. val \in Seq(FilterType) => val \in Seq(KnownFilters)
    BY <2>1, SeqMonotonic, Zenon
  <2> QED
    BY <1>1, <2>2, <2>3
<1>3. DefaultFilters \o val \in Seq(KnownFilters)
  BY <1>2, DefaultsAre
<1> QED
  BY <1>3 DEF ArgumentFilters, val

\* What a configuration can make of the filters and of the length of lines.
ConfigResult ==
    [filters : Seq(Seq(KnownFilters)), more : BOOLEAN, excluded : BOOLEAN, length : Int]

LEMMA ReadOptionIs ==
  ASSUME NEW acc \in ConfigResult, NEW option, ValueOK(option.name, option.val)
  PROVE  ReadOption(acc, option) \in ConfigResult
<1> DEFINE F == Seq(KnownFilters)
           read == [acc EXCEPT !.filters = Append(@, option.val)]
           excluded == look.base \in Range(option.val)
           excludes == [acc EXCEPT !.excluded = excluded]
           stops == [acc EXCEPT !.more = FALSE]
           measured == [acc EXCEPT !.length = Head(option.val)]
<1>1. acc \in [filters : Seq(F), more : BOOLEAN, excluded : BOOLEAN, length : Int]
  BY DEF ConfigResult
<1>2. option.name = "filter" => option.val \in F
  <2>1. FilterType \subseteq KnownFilters
    BY DEF KnownFilters
  <2> QED
    BY <2>1, SeqMonotonic DEF ValueOK
<1>3. option.name = "linelength" /\ option.val # <<>> => Head(option.val) \in Int
  BY HeadTailProperties DEF ValueOK
<1> HIDE DEF F
<1>4. option.name = "filter" => read \in ConfigResult
  <2>1. option.name = "filter" => Append(acc.filters, option.val) \in Seq(F)
    BY <1>1, <1>2, AppendProperties
  <2> QED
    BY <1>1, <2>1 DEF ConfigResult, F
<1>5. excludes \in ConfigResult /\ stops \in ConfigResult
  <2>1. excluded \in BOOLEAN
    OBVIOUS
  <2> HIDE DEF excluded
  <2> QED
    BY <1>1, <2>1 DEF ConfigResult, F
<1>6. option.name = "linelength" /\ option.val # <<>> => measured \in ConfigResult
  BY <1>1, <1>3 DEF ConfigResult, F
<1>7. ReadOption(acc, option) =
        IF acc.excluded THEN acc ELSE
        CASE option.name = "set noparent" -> stops
          [] option.name = "filter" -> read
          [] option.name = "exclude_files" -> excludes
          [] option.name = "linelength" /\ option.val # <<>> -> measured
          [] option.name = "cannot open" -> stops
          [] OTHER -> acc
  BY DEF ReadOption
<1> HIDE DEF read, excludes, stops, measured
<1>8. CASE acc.excluded \/ option.name \notin {"set noparent", "filter", "exclude_files",
                                               "linelength", "cannot open"}
  BY <1>7, <1>8
<1>9. CASE ~acc.excluded /\ option.name \in {"set noparent", "filter", "exclude_files",
                                             "linelength", "cannot open"}
  BY <1>4, <1>5, <1>6, <1>7, <1>9
<1> QED
  BY <1>8, <1>9

LEMMA ReadConfigIs ==
  ASSUME ShapeInv, OptionsInv
  PROVE  ReadConfig \in ConfigResult
<1> DEFINE config == IF look.dir \in DOMAIN Configs THEN Configs[look.dir] ELSE <<>>
           n == Len(config)
           R == ConfigResult
           start == [filters |-> overrides, more |-> TRUE, excluded |-> FALSE,
                     length |-> lineLength]
           Read(i, acc) == ReadOption(acc, config[i])
           Solves(f) == f = [i \in 0 .. n |-> IF i = 0 THEN start ELSE Read(i, f[i-1])]
           advance == [p \in (0 .. n) \X R |-> IF p[1] = 0 THEN p[2] ELSE Read(p[1], p[2])]
<1>1. n \in Nat /\ \A i \in 1 .. n : ValueOK(config[i].name, config[i].val)
  <2>1. CASE look.dir \in DOMAIN Configs
    BY <2>1 DEF ShapeInv, JobOK, IsSequence, Configs
  <2>2. CASE look.dir \notin DOMAIN Configs
    BY <2>2
  <2> QED
    BY <2>1, <2>2
<1>2. start \in R
  BY DEF OptionsInv, ConfigResult
<1> HIDE DEF config, n, start
<1>3. \A i \in 1 .. n : \A acc \in R : Read(i, acc) \in R
  BY <1>1, ReadOptionIs
<1> HIDE DEF Read, R
<1>4. advance \in [(0 .. n) \X R -> R]
  <2>1. \A i \in 0 .. n : i = 0 \/ i \in 1 .. n
    BY <1>1
  <2> QED
    BY <1>3, <2>1
<1>5. \A i \in 1 .. n : \A acc \in R : advance[<<i, acc>>] = Read(i, acc)
  BY <1>1
<1> HIDE DEF advance
<1>6. PICK f \in [0 .. n -> R] : Steps(f, n, start, advance)
  BY <1>1, <1>2, <1>4, Counting
<1>7. \A i \in 0 .. n : f[i] = IF i = 0 THEN start ELSE Read(i, f[i-1])
  <2> TAKE i \in 0 .. n
  <2>1. CASE i = 0
    BY <1>6, <2>1 DEF Steps
  <2>2. CASE i # 0
    <3>1. i \in 1 .. n /\ i - 1 \in 0 .. n
      BY <1>1, <2>2
    <3>2. f[i-1] \in R
      BY <1>6, <3>1
    <3> QED
      BY <1>5, <1>6, <2>2, <3>1, <3>2 DEF Steps
  <2> QED
    BY <2>1, <2>2
<1>8. Solves(f)
  BY <1>6, <1>7
<1> DEFINE g == CHOOSE h : Solves(h)
<1>9. Solves(g)
  <2> HIDE DEF Solves
  <2> QED
    BY <1>8
<1>10. ReadConfig = g[n]
  BY DEF ReadConfig, g, n, config, start, Read
<1> HIDE DEF g
<1>11. \A i \in 0 .. n : g[i] = IF i = 0 THEN start ELSE Read(i, g[i-1])
  BY <1>9
<1> DEFINE P == {i \in 0 .. n : g[i] \in R}
<1>12. 0 \in P /\ \A i \in 1 .. n : i - 1 \in P => i \in P
  <2>1. 0 \in 0 .. n /\ \A i \in 1 .. n : i \in 0 .. n /\ i # 0
    BY <1>1
  <2>2. 0 \in P
    BY <1>2, <1>11, <2>1
  <2>3. ASSUME NEW i \in 1 .. n, i - 1 \in P PROVE i \in P
    <3>1. g[i] = Read(i, g[i-1]) /\ g[i-1] \in R
      BY <1>11, <2>1, <2>3
    <3> QED
      BY <1>3, <2>1, <3>1
  <2> QED
    BY <2>2, <2>3
<1> HIDE DEF P
<1>13. 0 .. n \subseteq P
  BY <1>1, <1>12, CountInduction
<1> QED
  BY <1>1, <1>10, <1>13 DEF P, R

LEMMA OptionsStep ==
  ASSUME ShapeInv, OptionsInv, LintNext
  PROVE  OptionsInv'
<1>0. /\ filters \in Seq(KnownFilters) /\ backup \in Seq(KnownFilters)
      /\ overrides \in Seq(Seq(KnownFilters)) /\ verbose \in Int /\ lineLength \in Int
  BY DEF OptionsInv
<1>1. CASE ParseArguments
  <2>1. UNCHANGED <<backup, overrides>>
    BY <1>1 DEF ParseArguments
  <2>2. \/ UNCHANGED <<filters, verbose, lineLength>>
        \/ /\ Stopping = 0
           /\ filters' = ArgumentFilters
           /\ verbose' = Head(ValueOf("verbose", <<verbose>>))
           /\ lineLength' = Head(ValueOf("linelength", <<LineLength>>))
    BY <1>1 DEF ParseArguments
  <2>3. JobOK(job) /\ LineLength \in Int
    BY LintAssumption DEF ShapeInv
  <2> QED
    BY <1>0, <2>1, <2>2, <2>3, NumberIs, ArgumentFiltersAre DEF OptionsInv
<1>2. CASE NextFile
  BY <1>0, <1>2 DEF NextFile, BackupFilters, OptionsInv
<1>3. CASE ConfigDirectory
  <2>1. ReadConfig \in ConfigResult
    BY ReadConfigIs
  <2>2. overrides' \in Seq(Seq(KnownFilters)) /\ lineLength' \in Int
    BY <1>3, <2>1 DEF ConfigDirectory, ConfigResult
  <2>3. filters' \in {filters, backup} /\ UNCHANGED <<backup, verbose>>
    BY <1>3 DEF ConfigDirectory, Leave, RestoreFilters
  <2> QED
    BY <1>0, <2>2, <2>3 DEF OptionsInv
<1>4. CASE ApplyOverrides
  <2> DEFINE F == Seq(KnownFilters)
  <2>1. overrides \in Seq(F)
    BY <1>0
  <2> HIDE DEF F
  <2>2. Reverse(overrides) \in Seq(F)
    BY <2>1 DEF Reverse
  <2>3. FlattenSeq(Reverse(overrides)) \in Seq(KnownFilters)
    BY <2>2, FlattenIs DEF F
  <2>4. filters' = filters \o FlattenSeq(Reverse(overrides))
    BY <1>4 DEF ApplyOverrides
  <2>5. filters' \in Seq(KnownFilters)
    BY <1>0, <2>3, <2>4
  <2>6. UNCHANGED <<backup, overrides, verbose, lineLength>>
    BY <1>4 DEF ApplyOverrides
  <2> QED
    BY <1>0, <2>5, <2>6 DEF OptionsInv
<1>5. CASE ~(ParseArguments \/ NextFile \/ ConfigDirectory \/ ApplyOverrides)
  <2>1. filters' \in {filters, backup} /\ UNCHANGED <<backup, overrides, verbose, lineLength>>
    BY <1>5 DEF LintNext, UpdateLine, SkipFile, OpenFile, Ifndef, Endif, guardUnchanged,
       StartLine, LineNamespace, LineClassHead, LineBrace, LineEnd, lineUnchanged, CheckLine,
       FinishFile, ExitMain, Leave, RestoreFilters, reportVars
  <2> QED
    BY <1>0, <2>1 DEF OptionsInv
<1> QED
  BY <1>1, <1>2, <1>3, <1>4, <1>5

-----------------------------------------------------------------------------
(* The type of the state                                                     *)

\* What the types rest on besides the shape: that there is a list of includes,
\* that errors and filters are of their kinds.
TypeInv ==
    /\ NestingTypeOK /\ IncludesInv /\ FunctionTypeOK /\ ErrorsInv /\ OptionsInv
    /\ status \in {0, 1} /\ {unitCode, code} \subseteq {0, 1}

LEMMA TypesHold == ASSUME ShapeInv, TypeInv PROVE TypeOK
<1>1. IncludeTypeOK
  BY IncludesTyped DEF TypeInv
<1>2. ReportTypeOK
  <2>1. \A f \in KnownFilters : f.sign \in {"+", "-", ""}
    <3> DEFINE default == Filter("-", Category["include_alpha"])
    <3>1. default.sign \in {"+", "-", ""}
      BY DEF Filter
    <3>2. \A f \in FilterType : f.sign \in {"+", "-", ""}
      BY DEF FilterType
    <3>3. DefaultFilters = <<default>>
      BY DEF DefaultFilters
    <3> HIDE DEF default
    <3>4. DefaultFilters[1] = default
      BY <3>3
    <3> QED
      BY <3>1, <3>2, <3>4 DEF KnownFilters
  <2>2. filters \in Seq(KnownFilters) /\ backup \in Seq(KnownFilters) /\ verbose \in Int
    BY DEF TypeInv, OptionsInv
  <2>3. \A list \in {filters, backup} : \A i \in DOMAIN list : list[i].sign \in {"+", "-", ""}
    <3> TAKE list \in {filters, backup}
    <3>1. list \in Seq(KnownFilters)
      BY <2>2
    <3> TAKE i \in DOMAIN list
    <3>2. list[i] \in KnownFilters
      BY <3>1
    <3> QED
      BY <2>1, <3>2
  <2>4. \A i \in DOMAIN printed : printed[i].category \in Categories
    <3>1. PICK T : Errors(Categories, T) /\ printed \in Seq(T)
      BY DEF TypeInv, ErrorsInv, ErrorList, ErrorsOf
    <3> QED
      BY <3>1 DEF Errors
  <2> QED
    BY <2>2, <2>3, <2>4 DEF TypeInv, ErrorsInv, CountsOK, SuppressionsOK, ReportTypeOK
<1>3. line \in Nat \ {0}
  <2>1. Len(clean.raw) \in Nat /\ line \in 1 .. Len(clean.raw) + 1
    BY DEF ShapeInv, Copies
  <2> QED
    BY <2>1
<1>4. unit \in Nat
  <2>1. Len(Units) \in Nat /\ unit \in 0 .. Len(Units)
    BY DEF ShapeInv, JobOK, Units
  <2> QED
    BY <2>1
<1>5. lineLength \in Int
  BY DEF TypeInv, OptionsInv
<1> QED
  BY <1>1, <1>2, <1>3, <1>4, <1>5 DEF TypeInv, ShapeInv, TypeOK

LEMMA TypeInvariant == Spec => []TypeInv
<1>1. Init => TypeInv
  <2> SUFFICES ASSUME Init PROVE TypeInv
    OBVIOUS
  <2>2. NestingTypeOK
    <3>1. stack = <<>> /\ pp = <<>> /\ todo = <<>> /\ previous = 0 /\ step = "idle"
      BY DEF Init, LintInit, NestingInit
    <3>2. \A S : <<>> \in Seq(S)
      OBVIOUS
    <3>3. previous \in Nat
      BY <3>1
    <3> QED
      BY <3>1, <3>2, <3>3, Zenon DEF NestingTypeOK
  <2>3. IncludesInv
    <3>1. includeList = <<<<>>>> /\ section = 0 /\ lastHeader = 0
      BY DEF Init, LintInit, IncludeInit, InitialSection
    <3>2. <<<<>>>> \in Seq(Entries({})) /\ <<<<>>>> # <<>>
      BY DEF Entries
    <3> QED
      BY <3>1, <3>2 DEF IncludesInv, ListsOK, InitialSection, OtherHSection
  <2>4. FunctionTypeOK
    BY DEF Init, LintInit, FunctionInit, FunctionTypeOK
  <2>5. ErrorsInv
    <3>1. printed = <<>> /\ byCategory = <<>> /\ suppressions = {}
      BY DEF Init, LintInit, ReportInit
    <3>2. CountsOK /\ SuppressionsOK
      BY <3>1 DEF CountsOK, SuppressionsOK
    <3> QED
      BY <3>1, <3>2, NoError DEF ErrorsInv, ErrorList
  <2>6. OptionsInv
    <3>1. /\ filters = DefaultFilters /\ backup = DefaultFilters /\ overrides = <<>>
          /\ verbose = 1 /\ lineLength = LineLength
      BY DEF Init, LintInit, ReportInit
    <3>2. LineLength \in Int
      BY LintAssumption
    <3> QED
      BY <3>1, <3>2, DefaultsAre DEF OptionsInv
  <2>7. status = 0 /\ unitCode = 0 /\ code = 0
    BY DEF Init, LintInit
  <2> QED
    BY <2>2, <2>3, <2>4, <2>5, <2>6, <2>7 DEF TypeInv
<1>2. ShapeInv /\ TypeInv /\ [Next]_vars => TypeInv'
  <2> SUFFICES ASSUME ShapeInv, TypeInv, [Next]_vars PROVE TypeInv'
    OBVIOUS
  <2>0. NestingTypeOK /\ IncludesInv /\ FunctionTypeOK /\ ErrorsInv /\ OptionsInv
    BY DEF TypeInv
  <2>2. CASE RunLint
    <3>1. LintNext /\ job' = job /\ UNCHANGED gateVars
      BY <2>2, SameJob DEF RunLint
    <3>2. /\ NestingTypeOK' /\ IncludesInv' /\ FunctionTypeOK' /\ ErrorsInv' /\ OptionsInv'
      BY <2>0, <3>1, BlocksStep, IncludesStep, FunctionsStep, ErrorsStep, OptionsStep
    <3>3. status' \in {status, 0, 1}
      BY <3>1 DEF LintNext, UpdateLine, ParseArguments, NextFile, ConfigDirectory,
         ApplyOverrides, SkipFile, OpenFile, Ifndef, Endif, guardUnchanged, StartLine,
         LineNamespace, LineClassHead, LineBrace, LineEnd, lineUnchanged, CheckLine,
         FinishFile, ExitMain, Exit
    <3> QED
      BY <3>1, <3>2, <3>3 DEF TypeInv, gateVars
  <2>3. CASE UNCHANGED lintVars
    <3>1. /\ NestingTypeOK' /\ IncludesInv' /\ FunctionTypeOK' /\ OptionsInv' /\ status' = status
      BY <2>0, <2>3 DEF lintVars, nestingVars, includeVars, functionVars, reportVars,
         driverVars, NestingTypeOK, IncludesInv, ListsOK, FunctionTypeOK, OptionsInv
    <3>2. ErrorsInv'
      BY <2>0, <2>3 DEF lintVars, reportVars, ErrorsInv, CountsOK, SuppressionsOK
    <3>3. {unitCode', code'} \subseteq {0, 1}
      BY <2>3 DEF TypeInv, Next, RunUnit, EndUnits, SystemTests, Cppcheck, RunLint, EndLint,
         Called, Worst, vars, gateVars
    <3> QED
      BY <3>1, <3>2, <3>3 DEF TypeInv
  <2> QED
    BY <2>2, <2>3 DEF Next, RunUnit, EndUnits, SystemTests, Cppcheck, EndLint, vars
<1> QED
  BY <1>1, <1>2, ShapeInvariant, PTL DEF Spec

\* THEOREM: whatever files, options and configurations cpplint is given, the
\* state is of its type. In particular every block that NestingState keeps is
\* one of the four kinds with what belongs to it, whatever the branches of #if
\* put back, there is a list of includes, and what was printed is of a known
\* category.
THEOREM LintTypeCorrect == Spec => []TypeOK
<1>1. ShapeInv /\ TypeInv => TypeOK
  BY TypesHold
<1> QED
  BY <1>1, ShapeInvariant, TypeInvariant, PTL

-----------------------------------------------------------------------------
(* The order of includes                                                     *)

\* The same as Stretch, IsLate and section, for sets of lines that are
\* recorded (R) and that are directives (D), and the kinds of headers (K).
Mine == {"likely mine", "possibly mine"}
System == {"c system", "cpp system"}
StretchIn(R, D, n) == {i \in 1 .. n - 1 : i \in R /\ \A j \in i .. n - 1 : j \notin D}
LateIn(R, D, K, n) ==
    K[n] \notin System /\ ~(K[n] \in Mine /\ \A i \in StretchIn(R, D, n) : K[i] \in Mine)
SectionIs(s, R, D, K, n) ==
    LET before == StretchIn(R, D, n)
    IN s \in IF \E i \in before : LateIn(R, D, K, i) THEN {OtherHSection}
            ELSE IF \E i \in before : K[i] = "cpp system" THEN {CppSection}
            ELSE IF \E i \in before : K[i] \notin Mine THEN {CSection}
            ELSE {InitialSection, MyHSection}

\* Only the lines before matter.
LEMMA SameStretch ==
  ASSUME NEW R, NEW D, NEW K, NEW n \in Nat, NEW S, S = R \/ S = R \cup {n}
  PROVE  \A m \in 1 .. n :
           /\ StretchIn(S, D, m) = StretchIn(R, D, m)
           /\ LateIn(S, D, K, m) <=> LateIn(R, D, K, m)
<1> TAKE m \in 1 .. n
<1>1. \A i \in 1 .. m - 1 : i # n
  OBVIOUS
<1>2. StretchIn(S, D, m) = StretchIn(R, D, m)
  BY <1>1 DEF StretchIn
<1> QED
  BY <1>2 DEF LateIn

LEMMA NextStretch ==
  ASSUME NEW R, NEW D, NEW n \in Nat \ {0}, n \notin D
  PROVE  StretchIn(R, D, n + 1) = StretchIn(R, D, n) \cup (R \cap {n})
<1>1. n + 1 - 1 = n /\ n \in 1 .. n /\ \A j \in n .. n : j = n
  OBVIOUS
<1>2. \A i \in 1 .. n - 1 : i \in 1 .. n /\ i .. n = (i .. n - 1) \cup {n}
  OBVIOUS
<1>3. \A i \in 1 .. n : i \in 1 .. n - 1 \/ i = n
  OBVIOUS
<1>4. n \notin 1 .. n - 1
  OBVIOUS
<1>5. ASSUME NEW i
      PROVE  i \in StretchIn(R, D, n + 1) <=> i \in StretchIn(R, D, n) \/ (i \in R /\ i = n)
  <2>1. CASE i = n
    BY <1>1, <1>4, <2>1 DEF StretchIn
  <2>2. CASE i # n /\ i \in 1 .. n - 1
    <3>1. (\A j \in i .. n : j \notin D) <=> (\A j \in i .. n - 1 : j \notin D)
      BY <1>2, <2>2
    <3> QED
      BY <1>1, <1>2, <2>2, <3>1 DEF StretchIn
  <2>3. CASE i # n /\ i \notin 1 .. n - 1
    BY <1>1, <1>3, <2>3 DEF StretchIn
  <2> QED
    BY <2>1, <2>2, <2>3
<1> QED
  BY <1>5

\* A line that adds no header keeps the section, a directive ends it.
LEMMA SectionKept ==
  ASSUME NEW R, NEW D, NEW K, NEW n \in Nat \ {0}, n \notin D, n \notin R, NEW s,
         SectionIs(s, R, D, K, n)
  PROVE  SectionIs(s, R, D, K, n + 1)
<1>1. StretchIn(R, D, n + 1) = StretchIn(R, D, n) \cup (R \cap {n})
  BY NextStretch
<1>2. R \cap {n} = {}
  OBVIOUS
<1>3. StretchIn(R, D, n + 1) = StretchIn(R, D, n)
  BY <1>1, <1>2
<1> QED
  BY <1>3 DEF SectionIs

LEMMA SectionEnded ==
  ASSUME NEW R, NEW D, NEW K, NEW n \in Nat \ {0}, n \in D
  PROVE  SectionIs(0, R, D, K, n + 1)
<1>1. n + 1 - 1 = n /\ \A i \in 1 .. n : n \in i .. n
  OBVIOUS
<1>2. StretchIn(R, D, n + 1) = {}
  BY <1>1 DEF StretchIn
<1> QED
  BY <1>2 DEF SectionIs, InitialSection

LEMMA SectionBegins ==
  ASSUME NEW R, NEW D, NEW K
  PROVE  SectionIs(0, R, D, K, 1)
<1>1. StretchIn(R, D, 1) = {}
  BY DEF StretchIn
<1> QED
  BY <1>1 DEF SectionIs, InitialSection

\* CheckNextIncludeOrder, by what was before.
LEMMA SectionAdds ==
  ASSUME NEW R, NEW D, NEW K, NEW n \in Nat \ {0}, n \notin D, n \notin R,
         SectionIs(section, R, D, K, n)
  PROVE  SectionIs(NextSection(K[n]), R \cup {n}, D, K, n + 1)
<1> DEFINE S == R \cup {n}
           before == StretchIn(R, D, n)
           next == NextSection(K[n])
           late == LateIn(S, D, K, n)
<1>1. StretchIn(S, D, n + 1) = before \cup {n} /\ StretchIn(S, D, n) = before
  <2>1. S \cap {n} = {n} /\ n \in 1 .. n
    OBVIOUS
  <2> QED
    BY <2>1, NextStretch, SameStretch
<1>2. \A i \in before : LateIn(S, D, K, i) <=> LateIn(R, D, K, i)
  <2>1. before \subseteq 1 .. n
    BY DEF StretchIn
  <2> QED
    BY <2>1, SameStretch
<1>3. late <=> K[n] \notin System /\ ~(K[n] \in Mine /\ \A i \in before : K[i] \in Mine)
  BY <1>1 DEF LateIn
<1> DEFINE others == \E i \in before : K[i] \notin Mine
           lates == \E i \in before : LateIn(S, D, K, i)
           cpps == \E i \in before : K[i] = "cpp system"
<1>4. section \in IF lates THEN {4} ELSE IF cpps THEN {3} ELSE IF others THEN {2} ELSE {0, 1}
  BY <1>2 DEF SectionIs, InitialSection, MyHSection, CSection, CppSection, OtherHSection
<1>5. /\ (\E i \in before \cup {n} : K[i] \notin Mine) <=> (others \/ K[n] \notin Mine)
      /\ (\E i \in before \cup {n} : LateIn(S, D, K, i)) <=> (lates \/ late)
      /\ (\E i \in before \cup {n} : K[i] = "cpp system") <=> (cpps \/ K[n] = "cpp system")
  OBVIOUS
<1>6. late <=> K[n] \notin System /\ ~(K[n] \in Mine /\ ~others)
  BY <1>3
<1> HIDE DEF before, others, lates, cpps, late
<1>7. next \in IF lates \/ late THEN {4}
               ELSE IF cpps \/ K[n] = "cpp system" THEN {3}
               ELSE IF others \/ K[n] \notin Mine THEN {2} ELSE {0, 1}
  <2>1. CASE K[n] = "c system"
    <3>1. next = IF 2 < section THEN section ELSE 2
      BY <2>1 DEF NextSection, SectionOf, CSection
    <3>2. ~late /\ K[n] \notin Mine /\ K[n] # "cpp system"
      BY <1>6, <2>1 DEF System, Mine
    <3> HIDE DEF next
    <3>3. next \in IF lates THEN {4} ELSE IF cpps THEN {3} ELSE {2}
      BY <1>4, <3>1
    <3> QED
      BY <3>2, <3>3
  <2>2. CASE K[n] = "cpp system"
    <3>1. next = IF 3 < section THEN section ELSE 3
      BY <2>2 DEF NextSection, SectionOf, CppSection
    <3>2. ~late /\ K[n] \notin Mine
      BY <1>6, <2>2 DEF System, Mine
    <3> HIDE DEF next
    <3>3. next \in IF lates THEN {4} ELSE {3}
      BY <1>4, <3>1
    <3> QED
      BY <2>2, <3>2, <3>3
  <2>3. CASE K[n] \in Mine
    <3>1. SectionOf(K[n]) = IF section <= 1 THEN 1 ELSE 4
      BY <2>3 DEF SectionOf, MyHSection, OtherHSection, Mine
    <3>2. next = IF SectionOf(K[n]) < section THEN section ELSE SectionOf(K[n])
      BY DEF NextSection
    <3>3. late <=> others
      BY <1>6, <2>3 DEF System, Mine
    <3>4. K[n] # "cpp system"
      BY <2>3 DEF Mine
    <3> HIDE DEF next
    <3>5. next \in IF lates \/ cpps \/ others THEN {4} ELSE {0, 1}
      BY <1>4, <3>1, <3>2
    <3>6. cpps => others
      BY DEF others, cpps, Mine
    <3> QED
      BY <2>3, <3>3, <3>4, <3>5, <3>6
  <2>4. CASE K[n] \notin System /\ K[n] \notin Mine
    <3>1. SectionOf(K[n]) = 4
      BY <2>4 DEF SectionOf, OtherHSection, Mine, System
    <3>2. next = IF SectionOf(K[n]) < section THEN section ELSE SectionOf(K[n])
      BY DEF NextSection
    <3>3. late
      BY <1>6, <2>4
    <3>4. next = 4
      BY <1>4, <3>1, <3>2
    <3> HIDE DEF next
    <3> QED
      BY <2>4, <3>3, <3>4
  <2> QED
    BY <2>1, <2>2, <2>3, <2>4 DEF System
<1> HIDE DEF next
<1> QED
  BY <1>1, <1>5, <1>7 DEF SectionIs, InitialSection, MyHSection, CSection, CppSection,
     OtherHSection, before, others, lates, cpps, late, next

\* What is reported, by what was before.
LEMMA OrderDecides ==
  ASSUME NEW R, NEW D, NEW K, NEW n, SectionIs(section, R, D, K, n)
  PROVE  OutOfOrder(K[n]) <=>
           /\ K[n] \in System
           /\ \E i \in StretchIn(R, D, n) :
                \/ LateIn(R, D, K, i)
                \/ K[n] = "c system" /\ K[i] = "cpp system"
<1> DEFINE before == StretchIn(R, D, n)
           lates == \E i \in before : LateIn(R, D, K, i)
           cpps == \E i \in before : K[i] = "cpp system"
           others == \E i \in before : K[i] \notin Mine
<1>1. section \in IF lates THEN {4} ELSE IF cpps THEN {3} ELSE IF others THEN {2} ELSE {0, 1}
  BY DEF SectionIs, InitialSection, MyHSection, CSection, CppSection, OtherHSection
<1> HIDE DEF lates, cpps, others
<1>2. CASE K[n] = "c system"
  <2>1. OutOfOrder(K[n]) <=> 2 < section
    BY <1>2 DEF OutOfOrder, SectionOf, CSection
  <2>2. OutOfOrder(K[n]) <=> lates \/ cpps
    BY <1>1, <2>1
  <2> QED
    BY <1>2, <2>2 DEF lates, cpps, before, System
<1>3. CASE K[n] = "cpp system"
  <2>1. OutOfOrder(K[n]) <=> 3 < section
    BY <1>3 DEF OutOfOrder, SectionOf, CppSection
  <2>2. OutOfOrder(K[n]) <=> lates
    BY <1>1, <2>1
  <2> QED
    BY <1>3, <2>2 DEF lates, before, System
<1>4. CASE K[n] \notin System
  <2>1. SectionOf(K[n]) = 4 \/ (section <= 1 /\ SectionOf(K[n]) = 1)
    BY <1>4 DEF SectionOf, MyHSection, OtherHSection, System
  <2>2. ~OutOfOrder(K[n])
    BY <1>1, <2>1 DEF OutOfOrder
  <2> QED
    BY <1>4, <2>2
<1> QED
  BY <1>2, <1>3, <1>4 DEF System

\* The lines of the headers that are recorded.
LinesOf(lists) == {e.line : e \in Range(FlattenSeq(lists))}
Members(lists) == UNION {Range(lists[i]) : i \in 1 .. Len(lists)}

LEMMA RecordedAre ==
  ASSUME ListsOK
  PROVE  \A n : IsRecorded(n) <=> n \in LinesOf(includeList)
<1>1. PICK S : includeList \in Seq(Entries(S))
  BY DEF ListsOK
<1>2. FlattenSeq(includeList) \in Seq([name : S, line : Nat])
  BY <1>1, FlattenIs DEF Entries
<1> QED
  BY <1>2 DEF IsRecorded, Recorded, LinesOf, Range

LEMMA MembersAppend ==
  ASSUME NEW E, NEW lists \in Seq(E), NEW list \in E
  PROVE  Members(Append(lists, list)) = Members(lists) \cup Range(list)
<1> DEFINE n == Len(lists)
           longer == Append(lists, list)
<1>1. n \in Nat /\ Len(longer) = n + 1 /\ longer[n + 1] = list
      /\ \A i \in 1 .. n : longer[i] = lists[i]
  BY AppendProperties, LenProperties
<1> HIDE DEF longer, n
<1>2. 1 .. n + 1 = (1 .. n) \cup {n + 1}
  BY <1>1
<1>3. Members(longer) = (UNION {Range(longer[i]) : i \in 1 .. n}) \cup Range(longer[n + 1])
  BY <1>1, <1>2 DEF Members
<1>4. {Range(longer[i]) : i \in 1 .. n} = {Range(lists[i]) : i \in 1 .. n}
  BY <1>1
<1> QED
  BY <1>1, <1>3, <1>4 DEF Members, n, longer

LEMMA MembersFront ==
  ASSUME NEW E, NEW lists \in Seq(E), lists # <<>>
  PROVE  Members(lists) = Members(Front(lists)) \cup Range(Last(lists))
<1> DEFINE n == Len(lists)
           shorter == Front(lists)
<1>1. n \in Nat \ {0} /\ Len(shorter) = n - 1 /\ \A i \in 1 .. n - 1 : shorter[i] = lists[i]
  BY EmptySeq, FrontIs
<1>2. Last(lists) = lists[n]
  BY DEF Last
<1> HIDE DEF shorter, n
<1>3. 1 .. n = (1 .. n - 1) \cup {n}
  BY <1>1
<1>4. UNION {Range(lists[i]) : i \in 1 .. n} =
        (UNION {Range(lists[i]) : i \in 1 .. n - 1}) \cup Range(lists[n])
  BY <1>3
<1>5. {Range(shorter[i]) : i \in 1 .. n - 1} = {Range(lists[i]) : i \in 1 .. n - 1}
  BY <1>1
<1> QED
  BY <1>1, <1>2, <1>4, <1>5 DEF Members, n, shorter

LEMMA LinesAre ==
  ASSUME NEW S, NEW lists \in Seq(Entries(S))
  PROVE  LinesOf(lists) = {e.line : e \in Members(lists)}
BY FlattenIs DEF LinesOf, Members, Entries

\* An #include adds its line, a directive adds none.
LEMMA LinesAdded ==
  ASSUME ListsOK, NEW name, NEW n \in Nat
  PROVE  LinesOf(Append(Front(includeList),
                        Append(Last(includeList), [name |-> name, line |-> n])))
           = LinesOf(includeList) \cup {n}
<1>1. PICK S : includeList \in Seq(Entries(S))
  BY DEF ListsOK
<1> DEFINE T == S \cup {name}
           E == Entries(T)
           entry == [name |-> name, line |-> n]
           last == Last(includeList)
           front == Front(includeList)
           list == Append(last, entry)
<1>2. includeList \in Seq(E) /\ includeList # <<>>
  <2>1. [name : S, line : Nat] \subseteq [name : T, line : Nat]
    OBVIOUS
  <2>2. Entries(S) \subseteq E
    BY <2>1, SeqMonotonic DEF Entries
  <2> QED
    BY <1>1, <2>2, SeqMonotonic DEF ListsOK
<1>3. entry \in [name : T, line : Nat] /\ entry.line = n
  OBVIOUS
<1>4. last \in E /\ front \in Seq(E)
  BY <1>2, LastIs
<1> HIDE DEF entry, last, front
<1>5. list \in E /\ Range(list) = Range(last) \cup {entry}
  <2> DEFINE F == [name : T, line : Nat]
  <2>1. last \in Seq(F) /\ entry \in F
    BY <1>3, <1>4 DEF Entries
  <2> HIDE DEF F
  <2>2. /\ list \in Seq(F) /\ Len(list) = Len(last) + 1 /\ list[Len(last) + 1] = entry
        /\ Len(last) \in Nat /\ \A i \in 1 .. Len(last) : list[i] = last[i]
    BY <2>1, AppendProperties, LenProperties
  <2>3. Range(list) = {list[i] : i \in 1 .. Len(list)} /\ Range(last) = {last[i] : i \in 1 .. Len(last)}
    BY <2>1, <2>2, RangeIs
  <2> HIDE DEF list
  <2>4. 1 .. Len(list) = (1 .. Len(last)) \cup {Len(last) + 1}
    BY <2>2
  <2> QED
    BY <2>2, <2>3, <2>4 DEF F, Entries
<1> HIDE DEF list
<1>6. Append(front, list) \in Seq(E)
  BY <1>4, <1>5, AppendProperties
<1>7. Members(Append(front, list)) = Members(includeList) \cup {entry}
  <2>1. Members(Append(front, list)) = Members(front) \cup Range(list)
    BY <1>4, <1>5, MembersAppend
  <2>2. Members(includeList) = Members(front) \cup Range(last)
    BY <1>2, MembersFront DEF front, last
  <2> QED
    BY <1>5, <2>1, <2>2
<1>8. LinesOf(Append(front, list)) = {e.line : e \in Members(Append(front, list))}
  BY <1>6, LinesAre
<1>9. LinesOf(includeList) = {e.line : e \in Members(includeList)}
  BY <1>2, LinesAre
<1> QED
  BY <1>3, <1>7, <1>8, <1>9 DEF list, front, last, entry

LEMMA LinesReset ==
  ASSUME ListsOK, NEW directive
  PROVE  LinesOf(ResetLists(directive)) \subseteq LinesOf(includeList)
<1>1. PICK S : includeList \in Seq(Entries(S))
  BY DEF ListsOK
<1> DEFINE E == Entries(S)
           front == Front(includeList)
<1> DEFINE none == <<>>
<1>2. none \in E /\ Range(none) = {}
  BY DEF Entries, Range
<1>3. includeList # <<>> /\ includeList \in Seq(E)
  BY <1>1 DEF ListsOK
<1> HIDE DEF E
<1>4. front \in Seq(E) /\ Members(front) \subseteq Members(includeList)
  BY <1>3, FrontIs, MembersFront
<1>5. LinesOf(includeList) = {e.line : e \in Members(includeList)}
  BY <1>3, LinesAre DEF E
<1>6. ASSUME NEW lists \in Seq(E), Members(lists) \subseteq Members(includeList)
      PROVE  LinesOf(Append(lists, none)) \subseteq LinesOf(includeList)
  <2>1. Append(lists, none) \in Seq(E)
    BY <1>2, AppendProperties
  <2>2. Members(Append(lists, none)) = Members(lists) \cup Range(none)
    BY <1>2, MembersAppend
  <2>3. Members(Append(lists, none)) = Members(lists)
    BY <1>2, <2>2
  <2>4. LinesOf(Append(lists, none)) = {e.line : e \in Members(Append(lists, none))}
    BY <2>1, LinesAre DEF E
  <2> QED
    BY <1>5, <1>6, <2>3, <2>4
<1>7. ResetLists(directive) \in {Append(includeList, none), Append(front, none), includeList}
  BY DEF ResetLists
<1> QED
  BY <1>3, <1>4, <1>6, <1>7

\* Inline assembly begins with a word for it.
LEMMA RangeAfter ==
  ASSUME NEW text \in Line, NEW n \in 0 .. Len(text)
  PROVE  Range(After(text, n)) \subseteq Range(text)
<1> DEFINE rest == After(text, n)
<1>1. Len(text) \in Nat /\ DOMAIN text = 1 .. Len(text)
  BY DEF Line
<1>2. /\ rest \in Line /\ Len(rest) = Len(text) - n
      /\ \A i \in 1 .. Len(rest) : rest[i] = text[n + i]
  BY DEF After, Line
<1>3. DOMAIN rest = 1 .. Len(rest) /\ \A i \in 1 .. Len(rest) : n + i \in 1 .. Len(text)
  BY <1>1, <1>2 DEF Line
<1> HIDE DEF rest
<1> QED
  BY <1>1, <1>2, <1>3 DEF Range, rest

LEMMA RangeTail ==
  ASSUME NEW text \in Line, text # <<>>
  PROVE  Tail(text) \in Line /\ Range(Tail(text)) \subseteq Range(text)
<1> DEFINE rest == Tail(text)
<1>1. Len(text) \in Nat /\ DOMAIN text = 1 .. Len(text)
  BY DEF Line
<1>2. /\ rest \in Line /\ Len(rest) = Len(text) - 1
      /\ \A i \in 1 .. Len(rest) : rest[i] = text[i + 1]
  BY DEF Line
<1>3. DOMAIN rest = 1 .. Len(rest) /\ \A i \in 1 .. Len(rest) : i + 1 \in 1 .. Len(text)
  BY <1>1, <1>2 DEF Line
<1> HIDE DEF rest
<1> QED
  BY <1>1, <1>2, <1>3 DEF Range, rest

LEMMA AsmBegins ==
  ASSUME NEW text \in Line, "asm" \notin Range(text)
  PROVE  ~BeginsAsm(text)
<1> DEFINE head == Strip(text)
<1>1. head \in Line /\ Range(head) \subseteq Range(text)
  BY StripIs, IndentLevelIs, RangeAfter DEF Strip
<1> HIDE DEF head
<1>2. ASSUME NEW token, StartsWith(text, <<"asm", token>>) PROVE FALSE
  <2>1. IsPrefix(<<"asm", token>>, head)
    BY <1>2 DEF StartsWith, head
  <2>2. 1 \in DOMAIN head /\ head[1] = "asm"
    BY <1>1, <2>1 DEF IsPrefix, Line
  <2> QED
    BY <1>1, <2>2 DEF Range
<1> QED
  BY <1>2 DEF BeginsAsm

\* What is left of a line has no words that the line has not.
LEMMA RestIsThere ==
  ASSUME ShapeInv, InLines,
         \/ Namespace(line)
         \/ ClassHead(line, IndentLevel(Raw), FromHere) \/ Brace(line) \/ EndUpdate
  PROVE  Range(todo') \subseteq Range(todo)
<1>0. todo \in Line
  BY DEF ShapeInv
<1>1. CASE Namespace(line)
  <2> DEFINE head == Tail(Strip(todo))
             named == head # <<>> /\ Head(head) \in Words
             body == IF named THEN Tail(head) ELSE head
             braces == Positions(body, "{")
  <2>1. Strip(todo) \in Line /\ Strip(todo) # <<>> /\ Range(Strip(todo)) \subseteq Range(todo)
    <3>1. IsNamespace(todo)
      BY <1>1 DEF Namespace
    <3>2. Strip(todo) # <<>>
      BY <3>1 DEF IsNamespace, First
    <3> QED
      BY <1>0, <3>2, StripIs, IndentLevelIs, RangeAfter DEF Strip
  <2>2. head \in Line /\ Range(head) \subseteq Range(todo)
    BY <2>1, RangeTail
  <2>3. todo' = IF braces = {} THEN body ELSE After(body, Min(braces))
    BY <1>1 DEF Namespace, AfterNamespace
  <2> HIDE DEF head
  <2>4. body \in Line /\ Range(body) \subseteq Range(todo)
    BY <2>2, RangeTail
  <2> HIDE DEF body
  <2>5. braces # {} => Min(braces) \in 0 .. Len(body)
    <3>1. braces \in SUBSET (1 .. Len(body)) /\ Len(body) \in Nat
      BY <2>4, PositionsAre, LineLen
    <3> HIDE DEF braces
    <3>2. braces \in SUBSET Nat
      BY <3>1
    <3> DEFINE m == Min(braces)
    <3>3. braces # {} => m \in braces
      BY <3>2, MinOf
    <3> HIDE DEF m
    <3>4. ASSUME braces # {} PROVE m \in 0 .. Len(body)
      <4>1. m \in 1 .. Len(body)
        BY <3>1, <3>3, <3>4
      <4> QED
        BY <3>1, <4>1
    <3> QED
      BY <3>4 DEF m
  <2> HIDE DEF braces
  <2> QED
    BY <2>3, <2>4, <2>5, RangeAfter
<1>2. CASE ClassHead(line, IndentLevel(Raw), FromHere)
  <2>1. todo' \in {todo, After(todo, ClassHeadEnd(todo))}
    BY <1>2 DEF ClassHead, AfterClassHead
  <2> QED
    BY <1>0, <2>1, ClassHeadEndIs, RangeAfter
<1>3. CASE Brace(line)
  <2> DEFINE m == FirstConsumed(todo)
  <2>1. todo' = After(todo, m) /\ NextConsumed(todo) # {}
    BY <1>3 DEF Brace, AfterBrace
  <2>2. m \in 0 .. Len(todo)
    <3>1. Len(todo) \in Nat /\ NextConsumed(todo) \in SUBSET (1 .. Len(todo))
      BY <1>0, LineLen DEF NextConsumed, Line
    <3>2. NextConsumed(todo) \in SUBSET Nat
      BY <3>1
    <3>3. m \in NextConsumed(todo)
      BY <2>1, <3>2, MinOf DEF FirstConsumed
    <3> HIDE DEF m
    <3> QED
      BY <3>1, <3>3
  <2> HIDE DEF m
  <2> QED
    BY <1>0, <2>1, <2>2, RangeAfter
<1>4. CASE EndUpdate
  BY <1>4 DEF EndUpdate
<1> QED
  BY <1>1, <1>2, <1>3, <1>4

\* While a file is read.
Reading == phase \in {"ifndef", "endif", "lines"}

LEMMA ReadingStep ==
  ASSUME LintNext
  PROVE  \/ ~Reading'
         \/ OpenFile
         \/ (Ifndef \/ Endif) /\ Reading /\ UNCHANGED <<nestingVars, includeVars, clean, line, run>>
         \/ /\ UpdateLine /\ InLines
            /\ UNCHANGED <<includeVars, clean, line, run, phase>>
            /\ \/ StartUpdate(Elided) \/ Namespace(line)
               \/ ClassHead(line, IndentLevel(Raw), FromHere) \/ Brace(line) \/ EndUpdate
         \/ CheckLine /\ InLines
<1>1. CASE ParseArguments \/ NextFile \/ ConfigDirectory \/ ApplyOverrides \/ SkipFile
             \/ FinishFile \/ ExitMain
  <2>1. phase' \in {"next", "config", "override", "open", "exit"}
    BY <1>1 DEF ParseArguments, NextFile, ConfigDirectory, ApplyOverrides, SkipFile,
       FinishFile, ExitMain, Exit, Leave
  <2> QED
    BY <2>1 DEF Reading
<1>2. CASE Ifndef \/ Endif
  BY <1>2 DEF Ifndef, Endif, guardUnchanged, Reading
<1>3. CASE UpdateLine
  BY <1>3 DEF UpdateLine, StartLine, LineNamespace, LineClassHead, LineBrace, LineEnd,
     lineUnchanged
<1>4. CASE CheckLine
  BY <1>4 DEF CheckLine
<1> QED
  BY <1>1, <1>2, <1>3, <1>4 DEF LintNext

\* Where in the file the program is: before its first line until the header
\* guard is checked.
PlaceInv ==
    /\ phase \in {"ifndef", "endif"} => line = 1 /\ step = "idle"
    /\ phase = "lines" /\ step # "idle" => line <= Len(clean.raw)

LEMMA PlaceStep ==
  ASSUME ShapeInv, PlaceInv, LintNext
  PROVE  PlaceInv'
<1>1. CASE ~Reading'
  BY <1>1 DEF Reading, PlaceInv
<1>2. CASE OpenFile
  BY <1>2 DEF OpenFile, NestingReset, PlaceInv
<1>3. CASE (Ifndef \/ Endif) /\ Reading /\ UNCHANGED <<nestingVars, clean, line>>
  <2>1. line' = 1 /\ step' = "idle"
    BY <1>3 DEF Ifndef, Endif, nestingVars, PlaceInv
  <2> QED
    BY <2>1 DEF PlaceInv
<1>4. CASE InLines /\ UNCHANGED <<clean, line, phase>>
  BY <1>4 DEF InLines, PlaceInv
<1>5. CASE CheckLine
  BY <1>5 DEF CheckLine, InLines, PlaceInv
<1> QED
  BY <1>1, <1>2, <1>3, <1>4, <1>5, ReadingStep

\* Without a word for it, no block is inline assembly, nor is a block that
\* was put aside.
AssemblyInv ==
    Reading =>
      IF step = "idle" THEN ~HasAssembly(line - 1) => StacksOK({"no"})
      ELSE ~HasAssembly(line) => StacksOK({"no"}) /\ "asm" \notin Range(todo)

LEMMA AssemblyStep ==
  ASSUME ShapeInv, AssemblyInv, LintNext
  PROVE  AssemblyInv'
<1>1. CASE ~Reading'
  BY <1>1 DEF AssemblyInv
<1>2. CASE OpenFile
  <2>1. stack' = <<>> /\ pp' = <<>> /\ step' = "idle"
    BY <1>2 DEF OpenFile, NestingReset
  <2>2. StacksOK({"no"})'
    BY <2>1 DEF StacksOK
  <2> QED
    BY <2>1, <2>2 DEF AssemblyInv
<1>3. CASE Reading /\ UNCHANGED <<nestingVars, clean, line>>
  BY <1>3 DEF AssemblyInv, HasAssembly, StacksOK, nestingVars
<1>4. CASE /\ UpdateLine /\ InLines /\ UNCHANGED <<clean, line, phase>>
           /\ \/ StartUpdate(Elided) \/ Namespace(line)
              \/ ClassHead(line, IndentLevel(Raw), FromHere) \/ Brace(line) \/ EndUpdate
  <2> SUFFICES ASSUME ~HasAssembly(line) PROVE StacksOK({"no"})' /\ "asm" \notin Range(todo')
    <3>1. HasAssembly(line)' <=> HasAssembly(line)
      BY <1>4 DEF HasAssembly
    <3>2. step' # "idle"
      BY <1>4 DEF StartUpdate, Namespace, ClassHead, Brace, EndUpdate
    <3> QED
      BY <3>1, <3>2 DEF AssemblyInv
  <2>1. /\ Elided \in Line /\ line \in Nat \ {0} /\ todo \in Line /\ Reading
    BY <1>4, ElidedIs DEF ShapeInv, Reading, InLines
  <2>2. "asm" \notin Range(Elided) /\ ~HasAssembly(line - 1)
    <3>1. line \in 1 .. line /\ \A i \in 1 .. line - 1 : i \in 1 .. line
      BY <2>1
    <3> QED
      BY <3>1 DEF HasAssembly, Elided
  <2>3. StacksOK({"no"}) /\ (step # "idle" => "asm" \notin Range(todo))
    BY <2>1, <2>2 DEF AssemblyInv
  <2>4. ~BeginsAsm(Elided) /\ (step # "idle" => ~BeginsAsm(todo))
    BY <2>1, <2>2, <2>3, AsmBegins
  <2>5. StacksOK({"no"})'
    BY <1>4, <2>3, <2>4, UpdateBlocks DEF KnowsAsm
  <2>6. CASE StartUpdate(Elided)
    BY <2>2, <2>5, <2>6 DEF StartUpdate
  <2>7. CASE \/ Namespace(line) \/ ClassHead(line, IndentLevel(Raw), FromHere)
             \/ Brace(line) \/ EndUpdate
    <3>1. Range(todo') \subseteq Range(todo)
      BY <1>4, <2>7, RestIsThere
    <3>2. step # "idle"
      BY <2>7 DEF Namespace, ClassHead, Brace, EndUpdate
    <3> QED
      BY <2>3, <2>5, <3>1, <3>2
  <2> QED
    BY <1>4, <2>6, <2>7
<1>5. CASE CheckLine /\ InLines
  <2>1. line \in Nat \ {0} /\ Reading
    BY <1>5, ElidedIs DEF Reading, InLines
  <2>2. /\ step = "done" /\ step' = "idle" /\ line' = line + 1
        /\ UNCHANGED <<clean, phase, stack, pp>>
    BY <1>5 DEF CheckLine
  <2>3. line' - 1 = line
    BY <2>1, <2>2
  <2>4. HasAssembly(line - 1)' <=> HasAssembly(line)
    BY <2>2, <2>3 DEF HasAssembly
  <2>5. ~HasAssembly(line) => StacksOK({"no"})
    BY <2>1, <2>2 DEF AssemblyInv
  <2> QED
    BY <2>2, <2>4, <2>5 DEF AssemblyInv, StacksOK
<1> QED
  BY <1>1, <1>2, <1>3, <1>4, <1>5, ReadingStep

\* What is printed of includes so far: none of this file before
\* its lines are read, then none of a line to come.
PrintedInv ==
    \A p \in Range(printed) : p.category \in OfIncludes =>
      /\ p.run \in 0 .. run
      /\ phase \in {"config", "override", "open", "ifndef", "endif"} => p.run # run
      /\ phase = "lines" /\ p.run = run => p.line \in 1 .. line - 1

LEMMA PrintedStep ==
  ASSUME ShapeInv, NestingTypeOK, ErrorsInv, PrintedInv, LintNext
  PROVE  PrintedInv'
<1>0. /\ ErrorList(printed) /\ CountsOK /\ run \in Nat /\ line \in Nat \ {0}
      /\ phase \in {"config", "override", "open", "ifndef", "endif", "lines"} => run # 0
  <2>1. Len(Args) \in Nat /\ Len(clean.raw) \in Nat
    BY DEF ShapeInv, JobOK, Args, Copies
  <2> QED
    BY <2>1 DEF ErrorsInv, ShapeInv
<1>1. ASSUME NEW errors, ErrorsOf(Others, errors), Report(run, errors)
      PROVE  \A p \in Range(printed') : p.category \in OfIncludes => p \in Range(printed)
  <2>1. ErrorList(errors) /\ \A e \in Range(errors) : e.category \notin OfIncludes
    BY <1>1, AllCategories
  <2>2. Range(printed') = Range(printed) \cup Printed(run, errors)
    BY <1>0, <1>1, <2>1, ReportIs
  <2>3. \A p \in Printed(run, errors) : p.category \notin OfIncludes
    BY <2>1 DEF Printed
  <2> QED
    BY <2>2, <2>3
<1>2. CASE CheckLine /\ ~InAsmBlock(stack) /\ Report(run, LineErrorList)
  <2>1. ErrorList(LineErrorList)
        /\ \A e \in Range(LineErrorList) :
             e.category \in OfIncludes => e = Found(line, e.category, 4)
    BY LineChecks
  <2>2. Range(printed') = Range(printed) \cup Printed(run, LineErrorList)
    BY <1>0, <1>2, <2>1, ReportIs
  <2>3. \A p \in Printed(run, LineErrorList) :
          p.category \in OfIncludes => p.run = run /\ p.line = line
    BY <2>1 DEF Printed, Found
  <2>4. phase = "lines" /\ phase' = phase /\ run' = run /\ line' = line + 1
    BY <1>2 DEF CheckLine, InLines
  <2>5. \A p \in Range(printed) : p.category \in OfIncludes =>
          p.run \in 0 .. run /\ (p.run = run => p.line \in 1 .. line - 1)
    BY <2>4 DEF PrintedInv
  <2>6. \A p \in Range(printed') : p.category \in OfIncludes =>
          p.run \in 0 .. run /\ (p.run = run => p.line \in 1 .. line)
    BY <1>0, <2>2, <2>3, <2>5
  <2>7. line' - 1 = line
    BY <1>0, <2>4
  <2> QED
    BY <2>4, <2>6, <2>7 DEF PrintedInv
<1>3. CASE /\ ~(CheckLine /\ ~InAsmBlock(stack))
           /\ \/ UNCHANGED <<printed, byCategory>>
              \/ \E errors : ErrorsOf(Others, errors) /\ Report(run, errors)
  <2>1. \A p \in Range(printed') : p.category \in OfIncludes => p \in Range(printed)
    BY <1>1, <1>3
  <2>2. \/ NextFile /\ run' = run + 1 /\ phase = "next" /\ phase' = "config"
        \/ run' = run /\ phase' \notin {"config", "override", "open", "ifndef", "endif", "lines"}
        \/ /\ run' = run /\ phase' \in {"config", "override", "open", "ifndef", "endif", "lines"}
           /\ phase \in {"config", "override", "open", "ifndef", "endif"}
        \/ run' = run /\ phase = "lines" /\ phase' = "lines" /\ line' \in {line, line + 1}
    <3>1. CASE NextFile
      BY <3>1 DEF NextFile
    <3>2. CASE ConfigDirectory \/ ApplyOverrides \/ SkipFile \/ OpenFile \/ Ifndef \/ Endif
      BY <3>2 DEF ConfigDirectory, ApplyOverrides, SkipFile, OpenFile, Ifndef, Endif,
         guardUnchanged, Exit, Leave
    <3>3. CASE UpdateLine \/ CheckLine
      BY <3>3 DEF UpdateLine, StartLine, LineNamespace, LineClassHead, LineBrace, LineEnd,
         lineUnchanged, CheckLine, InLines
    <3>4. CASE ParseArguments \/ FinishFile \/ ExitMain
      BY <3>4 DEF ParseArguments, FinishFile, ExitMain, Exit, Leave
    <3> QED
      BY <3>1, <3>2, <3>3, <3>4 DEF LintNext
  <2> SUFFICES ASSUME NEW p \in Range(printed'), p.category \in OfIncludes
               PROVE  /\ p.run \in 0 .. run'
                      /\ phase' \in {"config", "override", "open", "ifndef", "endif"} => p.run # run'
                      /\ phase' = "lines" /\ p.run = run' => p.line \in 1 .. line' - 1
    BY DEF PrintedInv
  <2>3. /\ p.run \in 0 .. run
        /\ phase \in {"config", "override", "open", "ifndef", "endif"} => p.run # run
        /\ phase = "lines" /\ p.run = run => p.line \in 1 .. line - 1
    BY <2>1 DEF PrintedInv
  <2>4. CASE run' = run + 1 /\ phase' = "config"
    <3>1. p.run \in 0 .. run' /\ p.run # run'
      BY <1>0, <2>3, <2>4
    <3> QED
      BY <2>4, <3>1
  <2>5. CASE run' = run /\ phase' \notin {"config", "override", "open", "ifndef", "endif", "lines"}
    BY <2>3, <2>5
  <2>6. CASE run' = run /\ phase \in {"config", "override", "open", "ifndef", "endif"}
    BY <2>3, <2>6
  <2>7. CASE run' = run /\ phase = "lines" /\ phase' = "lines" /\ line' \in {line, line + 1}
    <3>1. p.run = run => p.line \in 1 .. line' - 1
      <4>1. \A k \in {line, line + 1} : 1 .. line - 1 \subseteq 1 .. k - 1
        <5>1. line \in Nat \ {0}
          BY <1>0
        <5> QED
          BY <5>1
      <4> QED
        BY <2>3, <2>7, <4>1
    <3> QED
      BY <2>3, <2>7, <3>1
  <2> QED
    BY <2>2, <2>4, <2>5, <2>6, <2>7
<1>4. CASE FinishFile /\ \E errors : ErrorList(errors) /\ Report(run, errors)
  <2>1. PICK errors : ErrorList(errors) /\ Report(run, errors)
    BY <1>4
  <2>2. Range(printed') = Range(printed) \cup Printed(run, errors)
    BY <1>0, <2>1, ReportIs
  <2>3. run' = run /\ phase' \notin {"config", "override", "open", "ifndef", "endif", "lines"}
    BY <1>4 DEF FinishFile, Leave, Exit
  <2>4. \A p \in Range(printed) : p.category \in OfIncludes => p.run \in 0 .. run
    BY DEF PrintedInv
  <2>5. \A p \in Printed(run, errors) : p.run \in 0 .. run
    <3>1. run \in 0 .. run
      BY <1>0
    <3> QED
      BY <3>1 DEF Printed
  <2> QED
    BY <2>2, <2>3, <2>4, <2>5 DEF PrintedInv
<1> QED
  BY <1>2, <1>3, <1>4, StepReports

\* The lines that are directives, and the kinds of the headers on lines.
DirectiveLines == {n \in Nat : IsDirective(n)}
Kinds == [n \in Nat |-> KindAt(n)]

LEMMA SameText ==
  ASSUME UNCHANGED <<clean, run, job>>
  PROVE  DirectiveLines' = DirectiveLines /\ Kinds' = Kinds
BY DEF DirectiveLines, IsDirective, Kinds, KindAt, HeaderAt, File, Args

LEMMA StretchIs ==
  ASSUME ListsOK, NEW n \in Nat
  PROVE  /\ Stretch(n) = StretchIn(LinesOf(includeList), DirectiveLines, n)
         /\ IsLate(n) <=> LateIn(LinesOf(includeList), DirectiveLines, Kinds, n)
<1>1. \A i \in 1 .. n - 1 : i \in Nat /\ \A j \in i .. n - 1 : j \in Nat
  OBVIOUS
<1>2. Stretch(n) = StretchIn(LinesOf(includeList), DirectiveLines, n)
  BY <1>1, RecordedAre DEF Stretch, StretchIn, DirectiveLines
<1>3. \A i \in Stretch(n) : i \in Nat
  BY <1>1 DEF Stretch
<1> QED
  BY <1>2, <1>3 DEF IsLate, IsMine, LateIn, Kinds, Mine, System

\* What was recorded is on the lines before, and section tells what was there.
RecordedInv == Reading => LinesOf(includeList) \subseteq 1 .. line - 1
SectionInv ==
    Reading /\ ~DirectiveAfterAssembly(line - 1) =>
      SectionIs(section, LinesOf(includeList), DirectiveLines, Kinds, line)

\* What the check of a line does with an #include, a directive, another line.
LEMMA CheckedLine ==
  ASSUME ShapeInv, IncludesInv, CheckLine
  PROVE  \/ /\ ~InAsmBlock(stack) /\ IncludesAt(line) /\ Records(File, HeaderAt(line))
            /\ LinesOf(includeList') = LinesOf(includeList) \cup {line}
            /\ section' = NextSection(KindAt(line)) /\ ~IsDirective(line)
         \/ /\ ~InAsmBlock(stack) /\ IsDirective(line) /\ ~IncludesAt(line)
            /\ LinesOf(includeList') \subseteq LinesOf(includeList) /\ section' = 0
         \/ /\ ~(IncludesAt(line) /\ Records(File, HeaderAt(line)))
            /\ ~IsDirective(line) /\ UNCHANGED includeVars
         \/ InAsmBlock(stack) /\ UNCHANGED includeVars
<1>0. line \in Nat /\ ListsOK
  BY ElidedIs DEF CheckLine, IncludesInv
<1>1. CASE InAsmBlock(stack)
  BY <1>1 DEF CheckLine
<1>2. CASE ~InAsmBlock(stack) /\ IncludesHeader(Elided) /\ Include(clean.lines[line], line, File)
  <2> DEFINE text == clean.lines[line]
             header == HeaderOf(text)
  <2>1. ~IsDirective(line)
    BY <1>2 DEF IncludesHeader, IsInclude, IsDirective, Elided, Directives
  <2>2. IncludesAt(line) <=> IncludesHeader(text)
    BY <1>2 DEF IncludesAt, Elided
  <2>3. HeaderAt(line) = header
    BY DEF HeaderAt
  <2>4. CASE ~IncludesHeader(text) \/ ~Records(File, header)
    BY <1>2, <2>1, <2>2, <2>3, <2>4 DEF Include
  <2>5. CASE IncludesHeader(text) /\ Records(File, header)
    <3>1. /\ includeList' = Append(Front(includeList),
                              Append(Last(includeList), [name |-> Name(header), line |-> line]))
          /\ section' = NextSection(KindAt(line))
      BY <1>2, <2>3, <2>5 DEF Include, KindAt
    <3>2. LinesOf(includeList') = LinesOf(includeList) \cup {line}
      <4> HIDE DEF header
      <4> QED
        BY <1>0, <3>1, LinesAdded
    <3> QED
      BY <1>2, <2>1, <2>2, <2>3, <2>5, <3>1, <3>2
  <2> QED
    BY <2>4, <2>5
<1>3. CASE ~InAsmBlock(stack) /\ First(Elided) \in Directives /\ ResetSection(First(Elided))
  <2>1. includeList' = ResetLists(First(Elided)) /\ section' = 0
    BY <1>3 DEF ResetSection, InitialSection
  <2>2. LinesOf(includeList') \subseteq LinesOf(includeList)
    BY <1>0, <2>1, LinesReset
  <2>3. IsDirective(line) /\ ~IncludesAt(line)
    BY <1>3 DEF IsDirective, IncludesAt, IncludesHeader, IsInclude, Elided, Directives
  <2> QED
    BY <1>3, <2>1, <2>2, <2>3
<1>4. CASE /\ ~InAsmBlock(stack) /\ ~IncludesHeader(Elided) /\ First(Elided) \notin Directives
           /\ UNCHANGED includeVars
  BY <1>4 DEF IsDirective, IncludesAt, Elided
<1> QED
  BY <1>1, <1>2, <1>3, <1>4 DEF CheckLine

LEMMA RecordedStep ==
  ASSUME ShapeInv, IncludesInv, RecordedInv, LintNext
  PROVE  RecordedInv'
<1>1. CASE ~Reading'
  BY <1>1 DEF RecordedInv
<1>2. CASE OpenFile
  <2>1. includeList' = <<<<>>>>
    BY <1>2 DEF OpenFile, IncludeReset
  <2>2. LinesOf(<<<<>>>>) = {}
    <3> DEFINE none == <<>>
    <3>1. none \in Entries({}) /\ Range(none) = {}
      BY DEF Entries, Range
    <3>2. <<none>> \in Seq(Entries({})) /\ Len(<<none>>) = 1 /\ <<none>>[1] = none
      BY <3>1
    <3>3. Members(<<none>>) = {}
      BY <3>1, <3>2 DEF Members
    <3> QED
      BY <3>2, <3>3, LinesAre
  <2> QED
    BY <2>1, <2>2 DEF RecordedInv
<1>3. CASE Reading /\ UNCHANGED <<includeVars, line>>
  BY <1>3 DEF RecordedInv, includeVars
<1>4. CASE CheckLine /\ InLines
  <2>1. line \in Nat \ {0} /\ Reading /\ line' = line + 1
    BY <1>4, ElidedIs DEF Reading, InLines, CheckLine
  <2>2. LinesOf(includeList') \subseteq LinesOf(includeList) \cup {line}
    BY <1>4, CheckedLine DEF includeVars
  <2>3. line' - 1 = line /\ \A i \in 1 .. line - 1 : i \in 1 .. line
    BY <2>1
  <2>4. line \in 1 .. line
    BY <2>1
  <2> QED
    BY <2>1, <2>2, <2>3, <2>4 DEF RecordedInv
<1> QED
  BY <1>1, <1>2, <1>3, <1>4, ReadingStep DEF InLines, Reading

LEMMA SectionStep ==
  ASSUME ShapeInv, IncludesInv, AssemblyInv, RecordedInv, SectionInv, LintNext, job' = job
  PROVE  SectionInv'
<1>1. CASE ~Reading'
  BY <1>1 DEF SectionInv
<1>2. CASE OpenFile
  <2>1. section' = 0 /\ line' = 1
    BY <1>2 DEF OpenFile, IncludeReset, InitialSection
  <2> QED
    BY <2>1, SectionBegins DEF SectionInv
<1>3. CASE Reading /\ UNCHANGED <<includeVars, clean, line, run>>
  <2>1. DirectiveAfterAssembly(line - 1)' <=> DirectiveAfterAssembly(line - 1)
    BY <1>3 DEF DirectiveAfterAssembly, HasAssembly, IsDirective
  <2> QED
    BY <1>3, <2>1, SameText DEF SectionInv, includeVars
<1>4. CASE CheckLine /\ InLines
  <2> DEFINE R == LinesOf(includeList)
  <2>1. line \in Nat \ {0} /\ Reading /\ step = "done"
    BY <1>4, ElidedIs DEF Reading, InLines, CheckLine
  <2>2. line' = line + 1 /\ line' - 1 = line /\ UNCHANGED <<clean, run>>
    BY <1>4, <2>1 DEF CheckLine
  <2>3. DirectiveLines' = DirectiveLines /\ Kinds' = Kinds /\ Kinds[line] = KindAt(line)
        /\ (line \in DirectiveLines <=> IsDirective(line))
    BY <2>1, <2>2, SameText DEF Kinds, DirectiveLines
  <2> SUFFICES ASSUME ~DirectiveAfterAssembly(line)
               PROVE  SectionIs(section', LinesOf(includeList'), DirectiveLines, Kinds, line + 1)
    <3>1. DirectiveAfterAssembly(line - 1)' <=> DirectiveAfterAssembly(line)
      BY <2>2 DEF DirectiveAfterAssembly, HasAssembly, IsDirective
    <3> QED
      BY <2>2, <2>3, <3>1 DEF SectionInv
  <2>4. SectionIs(section, R, DirectiveLines, Kinds, line)
    <3>1. \A i \in 1 .. line - 1 : i \in 1 .. line
      BY <2>1
    <3>2. ~DirectiveAfterAssembly(line - 1)
      BY <3>1 DEF DirectiveAfterAssembly
    <3> QED
      BY <2>1, <3>2 DEF SectionInv
  <2>5. line \notin R
    <3>1. line \notin 1 .. line - 1
      BY <2>1
    <3> QED
      BY <2>1, <3>1 DEF RecordedInv
  <2>6. IsDirective(line) => ~InAsmBlock(stack)
    <3> SUFFICES ASSUME IsDirective(line) PROVE ~InAsmBlock(stack)
      OBVIOUS
    <3>1. line \in 1 .. line
      BY <2>1
    <3>2. ~HasAssembly(line)
      BY <3>1 DEF DirectiveAfterAssembly
    <3>3. stack \in Seq(BlocksIn({"no"}))
      BY <2>1, <3>2 DEF AssemblyInv, StacksOK
    <3>4. stack # <<>> => Last(stack) \in BlocksIn({"no"})
      BY <3>3, LastIs
    <3> QED
      BY <3>4 DEF InAsmBlock, BlocksIn
  <2>7. CASE /\ LinesOf(includeList') = R \cup {line}
             /\ section' = NextSection(KindAt(line)) /\ ~IsDirective(line)
    BY <2>1, <2>3, <2>4, <2>5, <2>7, SectionAdds
  <2>8. CASE IsDirective(line) /\ section' = 0
    BY <2>1, <2>3, <2>8, SectionEnded
  <2>9. CASE ~IsDirective(line) /\ UNCHANGED includeVars
    BY <2>1, <2>3, <2>4, <2>5, <2>9, SectionKept DEF includeVars
  <2> QED
    BY <1>4, <2>6, <2>7, <2>8, <2>9, CheckedLine
<1> QED
  BY <1>1, <1>2, <1>3, <1>4, ReadingStep DEF InLines, Reading

\* What the check of a line says of its #include is found in what is printed,
\* if it is wanted.
LEMMA IncludeReported ==
  ASSUME ShapeInv, NestingTypeOK, ErrorsInv, PrintedInv, LintNext, CheckLine,
         NEW c \in OfIncludes, verbose <= 4, ~IsFiltered(c),
         {<<c, line>>, <<"*", line>>} \cap suppressions = {}
  PROVE  ReportedAt(line - 1, c)' <=>
           ~InAsmBlock(stack) /\ Found(line, c, 4) \in Range(LineErrorList)
<1> DEFINE wanted == [run |-> run, line |-> line, category |-> c, confidence |-> 4]
           found == Found(line, c, 4)
<1>0. /\ ErrorList(printed) /\ CountsOK /\ line \in Nat \ {0} /\ phase = "lines"
      /\ line' - 1 = line /\ run' = run /\ suppressions' = suppressions
  <2>1. line \in Nat \ {0}
    BY ElidedIs DEF CheckLine
  <2> QED
    BY <2>1 DEF ErrorsInv, CheckLine, InLines
<1>1. \A p \in Range(printed) : ~(p.category = c /\ p.run = run /\ p.line = line)
  <2>1. line \notin 1 .. line - 1
    BY <1>0
  <2>2. \A p \in Range(printed) : p.category \in OfIncludes =>
          (p.run = run => p.line \in 1 .. line - 1)
    BY <1>0 DEF PrintedInv
  <2> QED
    BY <2>1, <2>2
<1>2. ReportedAt(line - 1, c)' <=>
        \E p \in Range(printed') : /\ p.run = run /\ p.line = line
                                   /\ p.category = c /\ p.confidence = 4
  BY <1>0 DEF ReportedAt, Range
<1>3. CASE InAsmBlock(stack)
  <2>1. printed' = printed
    BY <1>3 DEF CheckLine
  <2> QED
    BY <1>1, <1>2, <1>3, <2>1
<1>4. CASE ~InAsmBlock(stack)
  <2>1. /\ ErrorList(LineErrorList)
        /\ \A e \in Range(LineErrorList) : e.category = c => e = found
    BY LineChecks
  <2>2. Range(printed') = Range(printed) \cup Printed(run, LineErrorList)
    <3>1. Report(run, LineErrorList)
      BY <1>4 DEF CheckLine, LineErrorList
    <3> QED
      BY <1>0, <2>1, <3>1, ReportIs
  <2>3. ShouldPrintError(c, 4, line)
    <3>1. 4 >= verbose
      OBVIOUS
    <3> QED
      BY <1>0, <3>1 DEF ShouldPrintError, IsErrorSuppressedByNolint
  <2>4. found.line = line /\ found.category = c /\ found.confidence = 4
    BY DEF Found
  <2> HIDE DEF found
  <2>5. (\E p \in Printed(run, LineErrorList) :
            /\ p.run = run /\ p.line = line /\ p.category = c /\ p.confidence = 4)
          <=> found \in Range(LineErrorList)
    <3>1. ASSUME found \in Range(LineErrorList)
          PROVE  wanted \in Printed(run, LineErrorList)
      BY <2>3, <2>4, <3>1 DEF Printed
    <3>2. ASSUME NEW p \in Printed(run, LineErrorList), p.category = c
          PROVE  found \in Range(LineErrorList)
      BY <2>1, <3>2 DEF Printed
    <3> QED
      BY <3>1, <3>2
  <2> QED
    BY <1>1, <1>2, <1>4, <2>1, <2>2, <2>5 DEF found
<1> QED
  BY <1>3, <1>4

LEMMA OrderReported ==
  ASSUME ShapeInv, NestingTypeOK, ErrorsInv, PrintedInv, LintNext, CheckLine,
         verbose <= 4, ~IsFiltered("include_order"),
         {<<"include_order", line>>, <<"*", line>>} \cap suppressions = {}
  PROVE  ReportedAt(line - 1, "include_order")' <=> ~InAsmBlock(stack) /\ IsOutOfOrder
<1>1. "include_order" \in OfIncludes
  BY DEF OfIncludes
<1> QED
  BY <1>1, IncludeReported, LineChecks

LEMMA RepeatReported ==
  ASSUME ShapeInv, NestingTypeOK, ErrorsInv, PrintedInv, LintNext, CheckLine,
         verbose <= 4, ~IsFiltered("include"),
         {<<"include", line>>, <<"*", line>>} \cap suppressions = {}
  PROVE  ReportedAt(line - 1, "include")' <=> ~InAsmBlock(stack) /\ IsRepeated
<1>1. "include" \in OfIncludes
  BY DEF OfIncludes
<1> QED
  BY <1>1, IncludeReported, LineChecks

\* The same of the state after a step.
LEMMA RecordedNext ==
  (ListsOK => \A n : IsRecorded(n) <=> n \in LinesOf(includeList))'
<1>1. ListsOK => \A n : IsRecorded(n) <=> n \in LinesOf(includeList)
  BY RecordedAre
<1> QED
  BY <1>1, PTL

LEMMA StretchNext ==
  (ListsOK => \A n \in Nat :
     /\ Stretch(n) = StretchIn(LinesOf(includeList), DirectiveLines, n)
     /\ IsLate(n) <=> LateIn(LinesOf(includeList), DirectiveLines, Kinds, n))'
<1>1. ListsOK => \A n \in Nat :
        /\ Stretch(n) = StretchIn(LinesOf(includeList), DirectiveLines, n)
        /\ IsLate(n) <=> LateIn(LinesOf(includeList), DirectiveLines, Kinds, n)
  BY StretchIs
<1> QED
  BY <1>1, PTL

LEMMA LinesBefore ==
  ASSUME NEW n \in Nat
  PROVE  \A i \in 1 .. n - 1 : i \in Nat /\ \A j \in i .. n - 1 : j \in Nat
OBVIOUS

\* The includes, their order and what was said of it.
OrderInv ==
    PlaceInv /\ AssemblyInv /\ PrintedInv /\ RecordedInv /\ SectionInv /\ IncludeOrder

LEMMA OrderStep ==
  ASSUME ShapeInv, TypeInv, OrderInv, CheckLine, LintNext, job' = job
  PROVE  IncludeOrder'
<1> DEFINE R == LinesOf(includeList)
           S == LinesOf(includeList')
           D == DirectiveLines
           K == Kinds
           early(T) == \E i \in StretchIn(T, D, line) :
                         \/ LateIn(T, D, K, i)
                         \/ K[line] = "c system" /\ K[i] = "cpp system"
<1>0. /\ line \in Nat \ {0} /\ line' = line + 1 /\ line' - 1 = line /\ Reading /\ step = "done"
      /\ UNCHANGED <<clean, run, verbose, filters, suppressions>>
  <2>1. line \in Nat \ {0}
    BY ElidedIs DEF CheckLine
  <2> QED
    BY <2>1 DEF CheckLine, Reading, InLines
<1>1. NestingTypeOK /\ IncludesInv /\ ErrorsInv /\ ListsOK
      /\ AssemblyInv /\ PrintedInv /\ RecordedInv /\ SectionInv
  BY DEF TypeInv, OrderInv, IncludesInv
<1>2. ListsOK' /\ DirectiveLines' = D /\ Kinds' = K /\ K[line] = KindAt(line)
  BY <1>0, <1>1, IncludesStep, SameText DEF IncludesInv, Kinds
<1> SUFFICES ASSUME Reports("include_order", line - 1)', ~DirectiveAfterAssembly(line)
             PROVE  ReportedAt(line - 1, "include_order")' <=>
                      /\ line \in S /\ K[line] \in System /\ early(S)
  <2>1. DirectiveAfterAssembly(line - 1)' <=> DirectiveAfterAssembly(line)
    BY <1>0 DEF DirectiveAfterAssembly, HasAssembly, IsDirective
  <2>2. IsRecorded(line - 1)' <=> line \in S
    BY <1>0, <1>2, RecordedNext DEF IsRecorded
  <2>3. KindAt(line - 1)' = K[line]
    BY <1>0, <1>2 DEF KindAt, HeaderAt, File, Args
  <2>4. Stretch(line - 1)' = StretchIn(S, D, line)
    <3>1. Stretch(line - 1)' = {i \in 1 .. line - 1 :
                                 IsRecorded(i)' /\ \A j \in i .. line - 1 : ~IsDirective(j)'}
      BY <1>0 DEF Stretch
    <3>2. \A i \in 1 .. line - 1 : IsRecorded(i)' <=> i \in S
      BY <1>2, RecordedNext
    <3>3. \A i \in 1 .. line - 1 : \A j \in i .. line - 1 :
            IsDirective(j)' <=> j \in DirectiveLines'
      <4>1. \A i \in 1 .. line - 1 : \A j \in i .. line - 1 : j \in Nat
        BY <1>0, LinesBefore
      <4> QED
        BY <4>1 DEF DirectiveLines
    <3> QED
      BY <1>2, <3>1, <3>2, <3>3 DEF StretchIn
  <2>5. \A i \in StretchIn(S, D, line) :
          (IsLate(i)' <=> LateIn(S, D, K, i)) /\ KindAt(i)' = K[i]
    <3> TAKE i \in StretchIn(S, D, line)
    <3>1. i \in Nat
      <4>1. i \in 1 .. line - 1
        BY DEF StretchIn
      <4> QED
        BY <1>0, <4>1, LinesBefore
    <3>2. IsLate(i)' <=> LateIn(S, D, K, i)
      BY <1>2, <3>1, StretchNext
    <3>3. KindAt(i)' = Kinds'[i]
      BY <3>1 DEF Kinds
    <3> QED
      BY <1>2, <3>2, <3>3
  <2>6. (\E i \in Stretch(line - 1) :
           \/ IsLate(i)
           \/ KindAt(line - 1) = "c system" /\ KindAt(i) = "cpp system")' <=> early(S)
    BY <2>3, <2>4, <2>5
  <2> QED
    BY <2>1, <2>2, <2>3, <2>6 DEF IncludeOrder, System
<1>3. ReportedAt(line - 1, "include_order")' <=> ~InAsmBlock(stack) /\ IsOutOfOrder
  <2>1. verbose <= 4 /\ ~IsFiltered("include_order")
        /\ {<<"include_order", line>>, <<"*", line>>} \cap suppressions = {}
    BY <1>0 DEF Reports, IsFiltered
  <2> QED
    BY <1>1, <2>1, OrderReported
<1>4. SectionIs(section, R, D, K, line)
  <2>1. \A i \in 1 .. line - 1 : i \in 1 .. line
    BY <1>0
  <2>2. ~DirectiveAfterAssembly(line - 1)
    BY <2>1 DEF DirectiveAfterAssembly
  <2> QED
    BY <1>0, <1>1, <2>2 DEF SectionInv
<1>5. OutOfOrder(K[line]) <=> K[line] \in System /\ early(R)
  BY <1>4, OrderDecides
<1>6. line \notin R
  <2>1. line \notin 1 .. line - 1
    BY <1>0
  <2> QED
    BY <1>0, <1>1, <2>1 DEF RecordedInv
<1>7. CASE /\ ~InAsmBlock(stack) /\ IncludesAt(line) /\ Records(File, HeaderAt(line))
           /\ S = R \cup {line}
  <2>1. StretchIn(S, D, line) = StretchIn(R, D, line)
        /\ \A i \in StretchIn(R, D, line) : LateIn(S, D, K, i) <=> LateIn(R, D, K, i)
    <3>1. line \in 1 .. line /\ \A i \in 1 .. line - 1 : i \in 1 .. line
      BY <1>0
    <3>2. \A i \in StretchIn(R, D, line) : i \in 1 .. line
      BY <3>1 DEF StretchIn
    <3>3. \A m \in 1 .. line : /\ StretchIn(S, D, m) = StretchIn(R, D, m)
                               /\ LateIn(S, D, K, m) <=> LateIn(R, D, K, m)
      BY <1>0, <1>7, SameStretch
    <3> QED
      BY <3>1, <3>2, <3>3
  <2>2. early(S) <=> early(R)
    BY <2>1
  <2>3. IsOutOfOrder <=> OutOfOrder(K[line])
    BY <1>2, <1>7 DEF IsOutOfOrder
  <2> HIDE DEF early, K
  <2> QED
    BY <1>3, <1>5, <1>7, <2>2, <2>3
<1>8. CASE /\ InAsmBlock(stack) \/ ~(IncludesAt(line) /\ Records(File, HeaderAt(line)))
           /\ S \subseteq R
  BY <1>3, <1>6, <1>8 DEF IsOutOfOrder
<1> QED
  BY <1>1, <1>7, <1>8, CheckedLine DEF includeVars

\* THEOREM: whatever file is read, under whatever options: when the order of
\* includes is to be reported, an #include of a system header is reported just
\* if on one of the lines before, since the last #if, #else or #endif, a header
\* was recorded that should come later. This compares what
\* _IncludeState.CheckNextIncludeOrder knows of the past, one number, with the
\* lines of the file.
THEOREM IncludesOrdered == Spec => []IncludeOrder
<1>1. Init => OrderInv
  <2> SUFFICES ASSUME Init PROVE OrderInv
    OBVIOUS
  <2>1. phase = "arguments" /\ Range(printed) = {}
    <3>1. phase = "arguments" /\ printed = <<>>
      BY DEF Init, LintInit, ReportInit
    <3> QED
      BY <3>1 DEF Range
  <2>2. ~Reading /\ ~BetweenLines
    BY <2>1 DEF Reading, BetweenLines
  <2>3. PlaceInv /\ PrintedInv
    BY <2>1 DEF PlaceInv, PrintedInv
  <2> QED
    BY <2>2, <2>3 DEF OrderInv, AssemblyInv, RecordedInv, SectionInv, IncludeOrder
<1>2. ShapeInv /\ TypeInv /\ OrderInv /\ [Next]_vars => OrderInv'
  <2> SUFFICES ASSUME ShapeInv, TypeInv, OrderInv, [Next]_vars PROVE OrderInv'
    OBVIOUS
  <2>0. /\ NestingTypeOK /\ IncludesInv /\ ErrorsInv
        /\ PlaceInv /\ AssemblyInv /\ PrintedInv /\ RecordedInv /\ SectionInv
    BY DEF TypeInv, OrderInv
  <2>1. job' = job
    BY SameJob
  <2>2. CASE RunLint
    <3>1. LintNext
      BY <2>2 DEF RunLint
    <3>2. PlaceInv' /\ AssemblyInv' /\ PrintedInv' /\ RecordedInv' /\ SectionInv'
      BY <2>0, <2>1, <3>1, PlaceStep, AssemblyStep, PrintedStep, RecordedStep, SectionStep
    <3>3. CASE CheckLine
      BY <2>1, <3>1, <3>2, <3>3, OrderStep DEF OrderInv
    <3>4. CASE ~CheckLine
      <4>1. ~BetweenLines' \/ line' = 1
        <5>1. CASE ~Reading'
          BY <5>1 DEF Reading, BetweenLines
        <5>2. CASE OpenFile
          BY <5>2 DEF OpenFile
        <5>3. CASE (Ifndef \/ Endif) /\ UNCHANGED line
          BY <2>0, <5>3 DEF PlaceInv, Ifndef, Endif
        <5>4. CASE \/ StartUpdate(Elided) \/ Namespace(line)
                   \/ ClassHead(line, IndentLevel(Raw), FromHere) \/ Brace(line) \/ EndUpdate
          BY <5>4 DEF StartUpdate, Namespace, ClassHead, Brace, EndUpdate, BetweenLines
        <5> QED
          BY <3>1, <3>4, <5>1, <5>2, <5>3, <5>4, ReadingStep
      <4>2. IncludeOrder'
        <5>1. ~(BetweenLines /\ line > 1)'
          BY <4>1
        <5> QED
          BY <5>1 DEF IncludeOrder
      <4> QED
        BY <3>2, <4>2 DEF OrderInv
    <3> QED
      BY <3>3, <3>4
  <2>3. CASE UNCHANGED lintVars
    <3>1. PlaceInv' /\ PrintedInv' /\ RecordedInv'
      BY <2>0, <2>3 DEF lintVars, nestingVars, includeVars, reportVars, driverVars, PlaceInv,
         PrintedInv, RecordedInv, Reading
    <3>2. AssemblyInv'
      BY <2>0, <2>3 DEF lintVars, nestingVars, driverVars, AssemblyInv, Reading, HasAssembly,
         StacksOK
    <3>3. SectionInv'
      <4>1. UNCHANGED <<clean, run, job, section, includeList, phase, line>>
        BY <2>3 DEF lintVars, includeVars, driverVars
      <4>2. DirectiveAfterAssembly(line - 1)' <=> DirectiveAfterAssembly(line - 1)
        BY <4>1 DEF DirectiveAfterAssembly, HasAssembly, IsDirective
      <4> QED
        BY <2>0, <4>1, <4>2, SameText DEF SectionInv, Reading
    <3>4. IncludeOrder'
      <4>1. UNCHANGED <<clean, run, job, includeList, phase, line, step, printed, verbose,
                        filters, suppressions>>
        BY <2>3 DEF lintVars, nestingVars, includeVars, reportVars, driverVars
      <4>2. \A n : /\ KindAt(n)' = KindAt(n)
                   /\ IsRecorded(n)' <=> IsRecorded(n)
                   /\ IsDirective(n)' <=> IsDirective(n)
        BY <4>1 DEF KindAt, HeaderAt, File, Args, IsRecorded, Recorded, IsDirective
      <4>3. \A n : Stretch(n)' = Stretch(n)
        BY <4>2 DEF Stretch
      <4>4. \A n : IsLate(n)' <=> IsLate(n)
        BY <4>2, <4>3 DEF IsLate, IsMine
      <4>5. Stretch(line - 1)' = Stretch(line - 1)
        BY <4>1, <4>2 DEF Stretch
      <4>6. KindAt(line - 1)' = KindAt(line - 1) /\ (IsRecorded(line - 1)' <=> IsRecorded(line - 1))
        BY <4>1 DEF KindAt, HeaderAt, File, Args, IsRecorded, Recorded
      <4>7. DirectiveAfterAssembly(line - 1)' <=> DirectiveAfterAssembly(line - 1)
        BY <4>1 DEF DirectiveAfterAssembly, HasAssembly, IsDirective
      <4>8. /\ Reports("include_order", line - 1)' <=> Reports("include_order", line - 1)
            /\ ReportedAt(line - 1, "include_order")' <=> ReportedAt(line - 1, "include_order")
        BY <4>1 DEF Reports, IsFiltered, ReportedAt
      <4>9. (\E i \in Stretch(line - 1) :
               \/ IsLate(i)
               \/ KindAt(line - 1) = "c system" /\ KindAt(i) = "cpp system")'
            <=> \E i \in Stretch(line - 1) :
                  \/ IsLate(i)
                  \/ KindAt(line - 1) = "c system" /\ KindAt(i) = "cpp system"
        BY <4>2, <4>4, <4>5, <4>6
      <4>10. (BetweenLines /\ line > 1)' <=> BetweenLines /\ line > 1
        BY <4>1 DEF BetweenLines
      <4>11. IncludeOrder' <=> IncludeOrder
        BY <4>6, <4>7, <4>8, <4>9, <4>10 DEF IncludeOrder
      <4> QED
        BY <4>11 DEF OrderInv
    <3> QED
      BY <3>1, <3>2, <3>3, <3>4 DEF OrderInv
  <2> QED
    BY <2>2, <2>3 DEF Next, RunUnit, EndUnits, SystemTests, Cppcheck, EndLint, vars
<1> QED
  BY <1>1, <1>2, ShapeInvariant, TypeInvariant, PTL DEF Spec, OrderInv

-----------------------------------------------------------------------------
(* The braces of a file                                                      *)

\* The copies of the file that is looked at are those of the lines it has: they
\* are made when it is opened and nothing touches them until the next one is.
CleansedInv ==
    phase \in {"ifndef", "endif", "lines"} =>
      /\ File \in DOMAIN Files
      /\ clean = CleansedLines(RemoveMultiLineComments(Marked(Files[File])))

LEMMA CleansedStep ==
  ASSUME CleansedInv, [Next]_vars
  PROVE  CleansedInv'
<1>0. job' = job
  BY SameJob
<1>1. ASSUME UNCHANGED <<phase, run, clean>> PROVE CleansedInv'
  BY <1>0, <1>1 DEF CleansedInv, File, Files, Args
<1>2. ASSUME phase' \notin {"ifndef", "endif", "lines"} PROVE CleansedInv'
  BY <1>2 DEF CleansedInv
<1>3. CASE LintNext
  <2>1. CASE ParseArguments
    <3>1. phase' \in {"exit", "next"}
      BY <2>1, Zenon DEF ParseArguments, Exit
    <3> QED
      BY <1>2, <3>1
  <2>2. CASE NextFile \/ ConfigDirectory \/ ApplyOverrides \/ SkipFile \/ FinishFile \/ ExitMain
    <3>1. CASE NextFile \/ SkipFile \/ FinishFile \/ ExitMain
      BY <1>2, <3>1 DEF NextFile, SkipFile, FinishFile, ExitMain, Leave, Exit
    <3>2. CASE ConfigDirectory
      <4>1. phase' \in {"config", "next", "override"}
        BY <3>2, Zenon DEF ConfigDirectory, Leave
      <4> QED
        BY <1>2, <4>1
    <3>3. CASE ApplyOverrides
      BY <1>2, <3>3 DEF ApplyOverrides, Exit
    <3> QED
      BY <2>2, <3>1, <3>2, <3>3
  <2>3. CASE OpenFile
    <3>1. /\ clean' = CleansedLines(RemoveMultiLineComments(Marked(Files[File])))
          /\ File \in DOMAIN Files /\ run' = run
      BY <2>3 DEF OpenFile, IsDirectoryOrMissing
    <3> QED
      BY <1>0, <3>1 DEF CleansedInv, File, Files, Args
  <2>4. CASE Ifndef \/ Endif \/ CheckLine
    <3>1. UNCHANGED <<run, clean>> /\ phase \in {"ifndef", "endif", "lines"}
      BY <2>4 DEF Ifndef, Endif, guardUnchanged, CheckLine, InLines
    <3> QED
      BY <1>0, <3>1 DEF CleansedInv, File, Files, Args
  <2>5. CASE UpdateLine
    BY <1>1, <2>5 DEF UpdateLine, StartLine, LineNamespace, LineClassHead,
       LineBrace, LineEnd, lineUnchanged
  <2> QED
    BY <1>3, <2>1, <2>2, <2>3, <2>4, <2>5 DEF LintNext
<1>4. CASE ~LintNext
  <2>1. CASE UNCHANGED vars
    BY <1>1, <2>1 DEF vars, lintVars, driverVars
  <2>2. CASE RunUnit \/ EndUnits \/ SystemTests \/ Cppcheck \/ RunLint \/ EndLint
    <3>1. ~RunLint
      BY <1>4 DEF RunLint
    <3>2. UNCHANGED lintVars
      BY <2>2, <3>1 DEF RunUnit, EndUnits, SystemTests, Cppcheck, EndLint
    <3> QED
      BY <1>1, <3>2 DEF lintVars, driverVars
  <2> QED
    BY <1>4, <2>1, <2>2 DEF Next
<1> QED
  BY <1>3, <1>4

\* What the properties call a file of which nothing is in doubt is what the
\* lemmas about the text call one.
LEMMA NotWarned ==
  ASSUME NEW lines, Len(clean.elided) = Len(lines), clean.elided \in Seq(Line), ~Warned(lines)
  PROVE  Unwarned(lines, clean)
<1>1. DOMAIN clean.elided = 1 .. Len(lines)
  BY DEF Line
<1> QED
  BY <1>1 DEF Warned, Unwarned

\* On every line of a file that is read the program is left with just the
\* braces that are code, unless it warns that it may give up: the reader forgets
\* raw strings, strings and comments in the order in which CleansedLines takes
\* them out.
THEOREM BracesFound == Spec => []BracesAreCode
<1>1. Init => CleansedInv
  <2>1. Init => phase = "arguments"
    BY Zenon DEF Init, LintInit
  <2> QED
    BY <2>1 DEF CleansedInv
<1>2. CleansedInv /\ [Next]_vars => CleansedInv'
  BY CleansedStep
<1>3. ShapeInv /\ CleansedInv => BracesAreCode
  <2> SUFFICES ASSUME ShapeInv, CleansedInv PROVE BracesAreCode
    OBVIOUS
  <2> DEFINE lines == Marked(Files[File])
  <2>1. CASE Opened
    <3>1. /\ File \in DOMAIN Files
          /\ clean = CleansedLines(RemoveMultiLineComments(lines))
      BY <2>1 DEF Opened, CleansedInv
    <3>2. lines \in Seq(Line)
      BY <3>1, FileIs, MarkedIs DEF ShapeInv
    <3>3. clean.elided \in Seq(Line) /\ Len(clean.elided) = Len(lines)
      BY <3>1, <3>2, RemoveMultiLineCommentsAre, CleansedLinesAre DEF Copies, SameLength
    <3>4. DOMAIN lines = 1 .. Len(lines)
      BY <3>2
    <3> HIDE DEF lines
    <3>5. ASSUME Plain(lines), ~Warned(lines)
          PROVE  \A n \in 1 .. Len(lines) : Braces(clean.elided[n]) = CodeBraces(lines, n)
      <4>1. Unwarned(lines, clean)
        BY <3>3, <3>5, NotWarned
      <4> QED
        BY <3>1, <3>2, <3>5, <4>1, BracesLeft
    <3> QED
      BY <3>4, <3>5 DEF BracesAreCode, lines
  <2> QED
    BY <2>1 DEF BracesAreCode
<1> QED
  BY <1>1, <1>2, <1>3, ShapeInvariant, PTL DEF Spec

=============================================================================
