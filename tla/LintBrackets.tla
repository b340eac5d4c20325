---------------------------- MODULE LintBrackets ----------------------------
(***************************************************************************)
(* How cpplint finds the end, or the beginning, of an expression in        *)
(* brackets: FindEndOfExpressionInLine and CloseExpression, their reverse, *)
(* and the search for template arguments that uses them.                   *)
(*                                                                         *)
(* The text is one sequence of tokens, line after line with their ends. An *)
(* angle bracket may be an operator, which nothing but its surroundings on *)
(* the line can tell; ">=" is that operator with blanks around it.         *)
(***************************************************************************)
EXTENDS LintText

Opening == {"(", "[", "{"}
Closing == {")", "]", "}"}
Partner == [b \in Opening \cup Closing |->
              CASE b = "(" -> ")" [] b = "[" -> "]" [] b = "{" -> "}"
                [] b = ")" -> "(" [] b = "]" -> "[" [] b = "}" -> "{"]

TextOf(lines) == FlattenSeq([n \in DOMAIN lines |-> Append(lines[n], EndOfLine)])

Previous(text, i) == IF i > 1 THEN text[i - 1] ELSE ""

\* The stack without the angle brackets on its top, which were operators.
DropAngles(stack, angle) ==
    LET kept == {k \in DOMAIN stack : stack[k] # angle}
    IN SubSeq(stack, 1, IF kept = {} THEN 0 ELSE Max(kept))

\* A scan is the brackets it waits for and how it stands: it goes on, the
\* expression is complete, or it has no end.
Go(stack)   == [stack |-> stack, is |-> "open"]
Done        == [stack |-> <<>>, is |-> "complete"]
NoEnd       == [stack |-> <<>>, is |-> "failed"]

\* After the bracket on top was taken away.
Popped(stack) == IF Len(stack) = 1 THEN Done ELSE Go(Front(stack))

TopIs(stack, b) == stack # <<>> /\ Last(stack) = b

\* Mutant: the pending angle brackets are kept when a bracket closes.
CloseBracket_KeepsAngles(stack, char, angle) ==
    IF stack = <<>> THEN NoEnd
    ELSE IF Last(stack) = Partner[char] THEN Popped(stack)
    ELSE NoEnd

CloseBracket(stack, char, angle) ==
    LET rest == DropAngles(stack, angle)
    IN IF rest = <<>> THEN NoEnd
       ELSE IF Last(rest) = Partner[char] THEN Popped(rest)
       ELSE NoEnd

EndStatement(stack, angle) ==
    LET rest == DropAngles(stack, angle)
    IN IF rest = <<>> THEN NoEnd ELSE Go(rest)

\* One character of FindEndOfExpressionInLine. A ">" is passed over when the
\* word operator ends one character before the character before it. The scan
\* goes on in the next line only if there is something to wait for.
StepForward(stack, text, i) ==
    LET char == text[i]
        prev == Previous(text, i)
    IN CASE char \in Opening -> Go(Append(stack, char))
         [] char = "<" /\ prev = "<" ->
              IF ~TopIs(stack, "<") THEN Go(stack)
              ELSE IF Len(stack) = 1 THEN NoEnd ELSE Go(Front(stack))
         [] char = "<" /\ prev \notin {"<", "operator"} -> Go(Append(stack, "<"))
         [] char \in Closing -> CloseBracket(stack, char, "<")
         [] char \in {">", ">="} /\ prev # "-"
              /\ (prev = EndOfLine \/ Previous(text, i - 1) # "operator")
              /\ TopIs(stack, "<") -> Popped(stack)
         [] char = ";" -> EndStatement(stack, "<")
         [] char = EndOfLine /\ stack = <<>> -> NoEnd
         [] OTHER -> Go(stack)

\* The position of the bracket that closes the one at pos, 0 if none does.
CloseExpression(text, pos) ==
    LET scan[i \in pos - 1 .. Len(text)] ==
          IF i = pos - 1 THEN Go(<<>>) ELSE LET before == scan[i-1] IN
          IF before.is # "open" THEN before
          ELSE StepForward(before.stack, text, i)
        ends == {i \in pos .. Len(text) : scan[i].is = "complete"}
    IN IF \/ text[pos] \notin Opening \cup {"<"}
          \/ text[pos] = "<" /\ pos < Len(text) /\ text[pos + 1] \in {"<", "="}
          \/ ends = {}
         THEN 0 ELSE Min(ends)

\* One character of FindStartOfExpressionInLine. The first characters of
\* operators are stepped over, a ">=" has no effect.
StepBackward(stack, text, i) ==
    LET char == text[i]
        prev == Previous(text, i)
    IN CASE char \in Closing -> Go(Append(stack, char))
         [] char = ">" /\ prev \notin {"-", "operator"} -> Go(Append(stack, ">"))
         [] char = "<" /\ prev # "<" /\ TopIs(stack, ">") -> Popped(stack)
         [] char \in Opening -> CloseBracket(stack, char, ">")
         [] char = ";" -> EndStatement(stack, ">")
         [] char = EndOfLine /\ stack = <<>> -> NoEnd
         [] OTHER -> Go(stack)

\* Whether i is stepped over: the code moves past the first character of an
\* operator together with its second.
SteppedOver(text, pos) ==
    LET over[i \in Nat] ==
          /\ i < pos
          /\ ~over[i + 1]
          /\ \/ text[i + 1] = ">" /\ text[i] \in {"-", "operator"}
             \/ text[i + 1] = "<" /\ text[i] = "<"
    IN {i \in 1 .. pos : over[i]}

\* The position of the bracket that opens the one at pos, 0 if none does.
ReverseCloseExpression(text, pos) ==
    LET over == SteppedOver(text, pos)
        scan[i \in 1 .. pos + 1] ==
          IF i = pos + 1 THEN Go(<<>>) ELSE LET after == scan[i+1] IN
          IF after.is # "open" \/ i \in over THEN after
          ELSE StepBackward(after.stack, text, i)
        starts == {i \in 1 .. pos : scan[i].is = "complete"}
    IN IF text[pos] \notin Closing \cup {">"} \/ starts = {} THEN 0 ELSE Max(starts)

\* InTemplateArgumentList: whether what stands before pos may be a template
\* argument.
InTemplateArgumentList(text, pos) ==
    LET tells == {"{", "}", ";", "=", "[", "]", ".", "<", ">", ">="}
        inside[i \in Nat] ==
          LET next == {j \in i .. Len(text) : text[j] \in tells}
              j    == Min(next)
              end  == CloseExpression(text, j)
          IN CASE next = {} -> FALSE
               [] next # {} /\ text[j] \in {"{", "}", ";"} -> FALSE
               [] next # {} /\ text[j] = "<" -> end # 0 /\ inside[end + 1]
               [] OTHER -> TRUE
    IN inside[pos]
=============================================================================
