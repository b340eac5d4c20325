--------------------------- MODULE LintFunctions ----------------------------
(***************************************************************************)
(* The length of functions: _FunctionState and CheckForFunctionLengths of  *)
(* cpplint. They read the lines without comments but with their strings,   *)
(* so that a brace or semicolon inside a string counts.                    *)
(***************************************************************************)
EXTENDS LintReport, LintBlocks

CONSTANTS NormalTrigger, TestTrigger     \* lines, for verbosity 0

ASSUME FunctionsAssumption ==
    NormalTrigger \in Nat \ {0} /\ TestTrigger \in Nat \ {0}

VARIABLES
    inFunction,        \* whether a function body was begun and not ended
    linesInFunction,   \* the lines counted since the last one was begun
    currentFunction    \* its name

functionVars == <<inFunction, linesInFunction, currentFunction>>

FunctionInit ==
    inFunction = FALSE /\ linesInFunction = 0 /\ currentFunction = ""
FunctionReset ==
    inFunction' = FALSE /\ linesInFunction' = 0 /\ currentFunction' = ""

-----------------------------------------------------------------------------

\* The name before the parenthesis of a declaration that is not indented.
DeclaredName(line) ==
    LET open == Positions(line, "(")
    IN IF /\ open # {} /\ Min(open) > 1
          /\ \A i \in 1 .. Min(open) - 1 : line[i] \in Words
         THEN line[Min(open) - 1] ELSE ""

StartingFunc(line) ==
    DeclaredName(line) # "" /\ DeclaredName(line) \notin Macros \ {"TEST"}

\* Where the search for the body stops: a line that ends a declaration or a
\* trivial function, or one that only opens a body.
BodyAt(lines, n) ==
    {i \in n .. Len(lines) : {";", "}", "{"} \cap Range(lines[i]) # {}}
BodyFound(lines, n) == BodyAt(lines, n) # {}
BodyBegins(lines, n) ==
    BodyFound(lines, n) /\ {";", "}"} \cap Range(lines[Min(BodyAt(lines, n))]) = {}

EndsFunction(line) == line = <<"}">>

BaseTrigger == IF currentFunction = "TEST" THEN TestTrigger ELSE NormalTrigger

\* The logarithm of how many times too long the function is, at most 5.
FunctionLevel == Max({k \in 0 .. 5 : linesInFunction \div BaseTrigger >= 2^k})

\* Check does not ask whether a function is open: the lines of the last one
\* are looked at again at every later brace in the first column.
FunctionErrors(lines, n) ==
    LET line == lines[n]
    IN If(StartingFunc(line) /\ ~BodyFound(lines, n), Found(n, "fn_size", 5))
         \o If(/\ ~StartingFunc(line) /\ EndsFunction(line)
               /\ linesInFunction > BaseTrigger * 2^verbose,
               Found(n, "fn_size", FunctionLevel))

Function(lines, n) ==
    LET line == lines[n]
    IN CASE StartingFunc(line) /\ BodyBegins(lines, n) ->
              /\ inFunction' = TRUE
              /\ linesInFunction' = 0
              /\ currentFunction' = DeclaredName(line)
         [] ~StartingFunc(line) /\ EndsFunction(line) ->
              inFunction' = FALSE /\ UNCHANGED <<linesInFunction, currentFunction>>
         [] ~StartingFunc(line) /\ ~EndsFunction(line) /\ ~IsBlank(line) ->
              /\ linesInFunction' = linesInFunction + (IF inFunction THEN 1 ELSE 0)
              /\ UNCHANGED <<inFunction, currentFunction>>
         [] OTHER -> UNCHANGED functionVars

FunctionTypeOK ==
    /\ inFunction \in BOOLEAN
    /\ linesInFunction \in Nat
    /\ currentFunction \in Words \cup {""}
=============================================================================
