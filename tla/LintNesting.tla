---------------------------- MODULE LintNesting -----------------------------
(***************************************************************************)
(* NestingState of cpplint. Update takes a line in steps: the preprocessor *)
(* and the parentheses (StartUpdate), namespaces at its beginning          *)
(* (Namespace), a class and its access (ClassHead), then brace after brace *)
(* (Brace, EndUpdate). The #else branches of the preprocessor are parsed   *)
(* as well, on a copy of the stack that is thrown away.                    *)
(***************************************************************************)
EXTENDS LintBlocks

VARIABLES
    stack,      \* the blocks around the current place, the innermost last
    previous,   \* where in stack the block is that was on top before the line
    pp,         \* one checkpoint of the stack for every open #if
    todo,       \* what Update has not consumed of the current line
    step        \* where Update is: "idle", "heads", "braces" or "done"

nestingVars == <<stack, previous, pp, todo, step>>

NestingInit ==
    /\ stack = <<>>
    /\ previous = 0
    /\ pp = <<>>
    /\ todo = <<>>
    /\ step = "idle"

NestingReset ==
    /\ stack' = <<>>
    /\ previous' = 0
    /\ pp' = <<>>
    /\ todo' = <<>>
    /\ step' = "idle"

-----------------------------------------------------------------------------
(* UpdatePreprocessor                                                      *)

\* Whether a directive puts back a copy of the stack.
Restores(line) ==
    /\ pp # <<>>
    /\ First(line) = "#else" \/ (First(line) = "#endif" /\ Last(pp).seen)

\* Mutant: the branch after #else goes on from the end of the first one.
Restored_KeepsFirst(line) ==
    IF First(line) = "#endif" /\ pp # <<>> /\ Last(pp).seen
      THEN Last(pp).kept ELSE stack

\* The stack that the line finds.
Restored(line) ==
    IF ~Restores(line) THEN stack
    ELSE IF First(line) = "#else" THEN Last(pp).before ELSE Last(pp).kept

\* Mutant: every #else or #elif stores the stack, not only the first.
Checkpoints_EveryElse(line) ==
    CASE First(line) = "#if" ->
           Append(pp, [before |-> stack, seen |-> FALSE, kept |-> <<>>])
      [] First(line) = "#else" /\ pp # <<>> ->
           SetTop(pp, [before |-> Last(pp).before, seen |-> TRUE, kept |-> stack])
      [] First(line) = "#endif" /\ pp # <<>> -> Front(pp)
      [] OTHER -> pp

Checkpoints(line) ==
    CASE First(line) = "#if" ->
           Append(pp, [before |-> stack, seen |-> FALSE, kept |-> <<>>])
      [] First(line) = "#else" /\ pp # <<>> /\ ~Last(pp).seen ->
           SetTop(pp, [before |-> Last(pp).before, seen |-> TRUE, kept |-> stack])
      [] First(line) = "#endif" /\ pp # <<>> -> Front(pp)
      [] OTHER -> pp

-----------------------------------------------------------------------------
(* Update                                                                  *)

\* The copies a directive restores are other objects than the block that was
\* on top, so nothing is found to be inside that block any more.
StartUpdate(line) ==
    /\ step = "idle"
    /\ stack' = CountParentheses(Restored(line), line)
    /\ pp' = Checkpoints(line)
    /\ previous' = IF Restores(line) THEN 0 ELSE Len(stack)
    /\ todo' = line
    /\ step' = "heads"

Namespace(n) ==
    /\ step = "heads"
    /\ IsNamespace(todo)
    /\ stack' = AfterNamespace(stack, todo, n).stack
    /\ todo' = AfterNamespace(stack, todo, n).rest
    /\ UNCHANGED <<previous, pp, step>>

ClassHead(n, indent, text) ==
    LET after == AfterClassHead(stack, todo, n, indent, IsClassHead(stack, todo, text))
    IN
    /\ step = "heads"
    /\ ~IsNamespace(todo)
    /\ stack' = after.stack
    /\ todo' = after.rest
    /\ step' = "braces"
    /\ UNCHANGED <<previous, pp>>

Brace(n) ==
    /\ step = "braces"
    /\ NextConsumed(todo) # {}
    /\ stack' = AfterBrace(stack, todo, n).stack
    /\ todo' = AfterBrace(stack, todo, n).rest
    /\ UNCHANGED <<previous, pp, step>>

EndUpdate ==
    /\ step = "braces"
    /\ NextConsumed(todo) = {}
    /\ step' = "done"
    /\ UNCHANGED <<stack, previous, pp, todo>>

-----------------------------------------------------------------------------
(* What the checks of a line ask.                                          *)

\* CheckForNamespaceIndentation
IsForwardClassDeclaration(line) ==
    /\ Len(line) >= 3
    /\ line[Len(line)] = ";"
    /\ line[Len(line) - 1] \in Words
    /\ line[Len(line) - 2] = "class"
IsBlockInNameSpace(forward) ==
    IF forward THEN stack # <<>> /\ Last(stack).kind = "namespace"
    ELSE /\ Len(stack) > 1
         /\ Last(stack).kind \in {"class", "namespace"}
         /\ stack[Len(stack) - 1].kind = "namespace"
IndentedInNamespace(line) ==
    LET item == /\ Len(stack) > 1
                /\ Last(stack).kind \in {"class", "namespace"}
                /\ previous = Len(stack) - 1
                /\ stack[previous].kind = "namespace"
        forward == IsForwardClassDeclaration(line)
    IN /\ item \/ forward
       /\ line = <<>> \/ Head(line) # "#define"
       /\ IsBlockInNameSpace(forward)
       /\ IndentLevel(line) > 0

\* CheckAccess
PublicDisallow(line) ==
    /\ First(line) = "DISALLOW"
    /\ InClassDeclaration(stack)
    /\ Last(stack).access # "private:"

\* CheckCompletedBlocks
Incomplete ==
    FlattenSeq([i \in DOMAIN stack |->
                  IF stack[i].kind \in {"class", "namespace"} THEN <<stack[i]>> ELSE <<>>])

BlockRecords ==
    [kind : {"block", "extern", "namespace", "class"}, name : Words \cup {""},
     start : Nat, open : BOOLEAN, parens : Int, asm : {"no", "inside", "end", "block"},
     access : AccessLabels \cup {""}, indent : Nat]
NestingTypeOK ==
    /\ stack \in Seq(BlockRecords)
    /\ previous \in Nat
    /\ pp \in Seq([before : Seq(BlockRecords), seen : BOOLEAN, kept : Seq(BlockRecords)])
    /\ todo \in Seq(STRING)
    /\ step \in {"idle", "heads", "braces", "done"}
=============================================================================
