-------------------------- MODULE LintNestingSpec ---------------------------
(***************************************************************************)
(* What NestingState promises about conditional code: the lines of an      *)
(* #else "do not affect nesting stack" (UpdatePreprocessor). There is one  *)
(* stack, no copy of it is made, and only the lines of the first branches  *)
(* are taken into account; the others are read over.                       *)
(***************************************************************************)
EXTENDS Naturals, Sequences

CONSTANTS       \* what a line and its pieces do to a stack, see LintBlocks
    First(_), IndentLevel(_), CountParentheses(_, _),
    IsNamespace(_), AfterNamespace(_, _, _),
    AfterClassHead(_, _, _, _, _),
    NextConsumed(_), AfterBrace(_, _, _)

VARIABLES
    clean,      \* the copies of the file that is read
    line,       \* the line that is read
    nest,       \* the blocks around it
    branches,   \* for every open #if whether an #else was seen
    todo,       \* what is left of the line
    step        \* "idle", "heads", "braces" or "done"

specVars == <<clean, line, nest, branches, todo, step>>

InElse(list) == \E i \in DOMAIN list : list[i]

Branches(directive) ==
    CASE directive = "#if" -> Append(branches, FALSE)
      [] directive = "#else" /\ branches # <<>> -> [branches EXCEPT ![Len(branches)] = TRUE]
      [] directive = "#endif" /\ branches # <<>> -> SubSeq(branches, 1, Len(branches) - 1)
      [] OTHER -> branches

Init == nest = <<>> /\ branches = <<>> /\ todo = <<>> /\ step = "idle"

\* Another file is read from its beginning.
Begin ==
    nest' = <<>> /\ branches' = <<>> /\ todo' = <<>> /\ step' = "idle"

Start ==
    LET text == clean.elided[line]
    IN /\ step = "idle" /\ line <= Len(clean.raw)
       /\ branches' = Branches(First(text))
       /\ nest' = IF InElse(branches') THEN nest ELSE CountParentheses(nest, text)
       /\ todo' = text
       /\ step' = "heads"
       /\ UNCHANGED <<clean, line>>

\* A line of an #else: how much of it is read does not matter, for nothing is
\* kept.
ReadOver ==
    /\ InElse(branches)
    /\ step \in {"heads", "braces"}
    /\ \/ step' = step
       \/ step = "heads" /\ step' = "braces"
    /\ UNCHANGED <<clean, line, nest, branches>>

Take(after) == nest' = after.stack /\ todo' = after.rest

Read ==
    /\ ~InElse(branches)
    /\ \/ /\ step = "heads" /\ IsNamespace(todo)
          /\ Take(AfterNamespace(nest, todo, line))
          /\ UNCHANGED step
       \/ /\ step = "heads" /\ ~IsNamespace(todo)
          /\ \E is \in BOOLEAN :
               Take(AfterClassHead(nest, todo, line, IndentLevel(clean.raw[line]), is))
          /\ step' = "braces"
       \/ /\ step = "braces" /\ NextConsumed(todo) # {}
          /\ Take(AfterBrace(nest, todo, line))
          /\ UNCHANGED step
    /\ UNCHANGED <<clean, line, branches>>

End ==
    /\ \/ step = "braces" /\ NextConsumed(todo) = {} /\ step' = "done" /\ UNCHANGED line
       \/ step = "done" /\ step' = "idle" /\ line' = line + 1
    /\ UNCHANGED <<clean, nest, branches, todo>>

Next == Begin \/ Start \/ ReadOver \/ Read \/ End

Spec == Init /\ [][Next]_specVars
=============================================================================
