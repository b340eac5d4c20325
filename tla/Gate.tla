-------------------------------- MODULE Gate --------------------------------
(***************************************************************************)
(* The gate of the repository, tools/all-tests.py, which the continuous    *)
(* integration runs: unit-tests.py, system-tests.py, cppcheck and cpplint, *)
(* one after the other whatever the result of the others. cpplint may also *)
(* be run by hand.                                                         *)
(***************************************************************************)
EXTENDS Lint

VARIABLES
    gate,       \* the command that runs, or "hand" or "done"
    unit,       \* how many test programs unit-tests.py has run
    unitCode,   \* code of unit-tests.py
    code,       \* code of all-tests.py
    failed      \* what failed so far, for the properties

gateVars == <<gate, unit, unitCode, code, failed>>
vars == <<lintVars, gateVars>>

Units == job.units       \* the test programs

Init ==
    /\ LintInit
    /\ gate = IF job.gated THEN "unit" ELSE "hand"
    /\ unit = 0
    /\ unitCode = 0
    /\ code = 0
    /\ failed = {}

Worst(old, result) == IF result # 0 THEN 1 ELSE old

\* Mutant: the status of a command replaces that of the ones before it.
Called_Last(result) == code' = result

\* all-tests.py after a command.
Called(result) == code' = Worst(code, result)

RunUnit ==
    /\ gate = "unit"
    /\ unit < Len(Units)
    /\ unit' = unit + 1
    /\ \E result \in {0, 1} :
         /\ unitCode' = Worst(unitCode, result)
         /\ failed' = IF result # 0 THEN failed \cup {Units[unit + 1]} ELSE failed
    /\ UNCHANGED <<lintVars, gate, code>>

EndUnits ==
    /\ gate = "unit"
    /\ unit = Len(Units)
    /\ Called(unitCode)
    /\ gate' = "system"
    /\ UNCHANGED <<lintVars, unit, unitCode, failed>>

\* The only test of system-tests.py is commented out, and what a test would
\* do is to set a local variable: the script fails only if it cannot start
\* the server.
SystemTests ==
    /\ gate = "system"
    /\ \E started \in BOOLEAN :
         /\ Called(IF started THEN 0 ELSE 1)
         /\ failed' = IF started THEN failed ELSE failed \cup {"server"}
    /\ gate' = "cppcheck"
    /\ UNCHANGED <<lintVars, unit, unitCode>>

Cppcheck ==
    /\ gate = "cppcheck"
    /\ \E result \in {0, 2} :
         /\ Called(result)
         /\ failed' = IF result # 0 THEN failed \cup {"cppcheck"} ELSE failed
    /\ gate' = "lint"
    /\ UNCHANGED <<lintVars, unit, unitCode>>

RunLint ==
    /\ gate \in {"hand", "lint"}
    /\ LintNext
    /\ UNCHANGED gateVars

EndLint ==
    /\ gate = "lint"
    /\ phase = "exit"
    /\ Called(status)
    /\ gate' = "done"
    /\ UNCHANGED <<lintVars, unit, unitCode, failed>>

Over == phase = "exit" /\ gate \in {"hand", "done"}

Next ==
    \/ RunUnit \/ EndUnits \/ SystemTests \/ Cppcheck \/ RunLint \/ EndLint
    \/ Over /\ UNCHANGED vars

Spec == Init /\ [][Next]_vars
=============================================================================
