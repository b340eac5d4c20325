----------------------------- MODULE LintBlocks -----------------------------
(***************************************************************************)
(* The blocks that NestingState of cpplint keeps around a line, what each  *)
(* piece of a line does to the stack of them, and what the ends of blocks  *)
(* are checked for. s is a stack, rest what is left of the line, n the     *)
(* line's number; text is everything from that line on.                    *)
(*                                                                         *)
(* "#if" stands for #if, #ifdef and #ifndef, "#else" also for #elif.       *)
(***************************************************************************)
EXTENDS LintBrackets, Integers

CONSTANT ShortNamespace       \* lines up to which no end comment is needed

ASSUME BlocksAssumption == ShortNamespace \in Nat

Macros == {"TEST", "MACRO", "R", "DISALLOW"}
Words == Macros \cup {"x", "a", "b", "asm", "class", "struct", "namespace",
                      "template", "extern", "operator"}
AccessLabels == {"public:", "private:"}
Consumed == {"{", "}", ";", ")"}

\* The records of _BlockInfo and its subclasses, in one shape.
Block(kind, name, n, open) ==
    [kind |-> kind, name |-> name, start |-> n, open |-> open,
     parens |-> 0, asm |-> "no", access |-> "", indent |-> 0]
BlockInfo(n) == Block("block", "", n, TRUE)
ExternCInfo(n) == Block("extern", "", n, TRUE)
NamespaceInfo(name, n, open) == Block("namespace", name, n, open)
ClassInfo(keyword, name, n, indent) ==
    [Block("class", name, n, FALSE) EXCEPT
       !.access = IF keyword = "struct" THEN "public:" ELSE "private:",
       !.indent = indent]

SetTop(s, block) == [s EXCEPT ![Len(s)] = block]

SeenOpenBrace(s) == s = <<>> \/ Last(s).open
InClassDeclaration(s) == s # <<>> /\ Last(s).kind = "class"
InAsmBlock(s) == s # <<>> /\ Last(s).asm # "no"

-----------------------------------------------------------------------------
(* Parentheses and inline assembly.                                        *)

BeginsAsm(line) == StartsWith(line, <<"asm", "(">>) \/ StartsWith(line, <<"asm", "{">>)

\* The block on top counts the parentheses of the line, and inline assembly
\* begins and ends with them.
CountParentheses(s, line) ==
    LET change == Count(line, "(") - Count(line, ")")
        top    == Last(s)
        parens == top.parens + change
        asm    == CASE top.asm \in {"no", "end"} ->
                         IF change # 0 /\ parens = 1 /\ BeginsAsm(line)
                           THEN "inside" ELSE "no"
                    [] top.asm = "inside" /\ parens = 0 -> "end"
                    [] OTHER -> top.asm
    IN IF s = <<>> THEN s
       ELSE SetTop(s, [top EXCEPT !.parens = parens, !.asm = asm])

-----------------------------------------------------------------------------
(* Namespaces and classes.                                                 *)

IsNamespace(rest) == First(rest) = "namespace"

AfterNamespace(s, rest, n) ==
    LET head   == Tail(Strip(rest))
        named  == head # <<>> /\ Head(head) \in Words
        body   == IF named THEN Tail(head) ELSE head
        braces == Positions(body, "{")
    IN [stack |-> Append(s, NamespaceInfo(IF named THEN Head(head) ELSE "",
                                          n, braces # {})),
        rest  |-> IF braces = {} THEN body ELSE After(body, Min(braces))]

\* Where the head of a class ends in what is left of the line, 0 if there is
\* none; macros may decorate the class. The token "template<>" is a template
\* header on the same line.
ClassHeadEnd(rest) ==
    LET key  == IndentLevel(rest)
                  + (IF First(rest) = "template<>" THEN 2 ELSE 1)
        ends == {i \in key + 1 .. Len(rest) :
                   /\ rest[i] \in Words
                   /\ \A j \in key + 1 .. i - 1 : rest[j] \in Macros}
    IN IF key <= Len(rest) /\ rest[key] \in {"class", "struct"} /\ ends # {}
         THEN Max(ends) ELSE 0

\* The place after the head is looked up in the whole line, from whose
\* beginning a namespace may be gone.
IsClassHead(s, rest, text) ==
    /\ ClassHeadEnd(rest) # 0
    /\ s = <<>> \/ Last(s).parens = 0
    /\ ~InTemplateArgumentList(text, ClassHeadEnd(rest) + 1)

\* The last access label on the rest of the line, if it is inside a class.
AccessLabel(s, rest) ==
    LET labels == {i \in DOMAIN rest : rest[i] \in AccessLabels}
    IN IF InClassDeclaration(s) /\ labels # {} THEN Max(labels) ELSE 0

\* Whether an access label is preceded by nothing but another indentation
\* than that of the class and one more.
Misplaced(s, rest) ==
    LET label == AccessLabel(s, rest)
    IN /\ label # 0
       /\ IsBlank(Before(rest, label))
       /\ label - 1 # Last(s).indent + 1

WithAccess(s, rest) ==
    LET label == AccessLabel(s, rest)
    IN IF label = 0 THEN s
       ELSE SetTop(s, [Last(s) EXCEPT !.access = rest[label]])

\* is tells whether a class head was found, indent is that of the line as it
\* stands in the file.
AfterClassHead(s, rest, n, indent, is) ==
    LET end  == ClassHeadEnd(rest)
        body == IF is THEN After(rest, end) ELSE rest
        with == IF is THEN Append(s, ClassInfo(IF "class" \in Range(Before(rest, end))
                                                 THEN "class" ELSE "struct",
                                               rest[end], n, indent))
                ELSE s
    IN [stack     |-> WithAccess(with, body),
        rest      |-> body,
        misplaced |-> Misplaced(with, body)]

-----------------------------------------------------------------------------
(* Braces, semicolons and closed parentheses.                              *)

NextConsumed(rest) == {i \in DOMAIN rest : rest[i] \in Consumed}
FirstConsumed(rest) == Min(NextConsumed(rest))

\* Mutant: what was consumed is found again.
AfterBrace_Rescans(s, rest, n) ==
    LET i     == FirstConsumed(rest)
        token == rest[i]
    IN [stack |->
          CASE token = "{" /\ ~SeenOpenBrace(s) ->
                 SetTop(s, [Last(s) EXCEPT !.open = TRUE])
            [] token = "{" /\ SeenOpenBrace(s) ->
                 IF IsPrefix(<<"extern">> \o EmptyString \o <<"{">>, rest)
                   THEN Append(s, ExternCInfo(n))
                   ELSE Append(s, [BlockInfo(n) EXCEPT
                                     !.asm = IF BeginsAsm(rest) THEN "block" ELSE "no"])
            [] token \in {";", ")"} /\ ~SeenOpenBrace(s) -> Front(s)
            [] token = "}" /\ s # <<>> -> Front(s)
            [] OTHER -> s,
        rest |-> After(rest, i - 1)]

AfterBrace(s, rest, n) ==
    LET i     == FirstConsumed(rest)
        token == rest[i]
    IN [stack |->
          CASE token = "{" /\ ~SeenOpenBrace(s) ->
                 SetTop(s, [Last(s) EXCEPT !.open = TRUE])
            [] token = "{" /\ SeenOpenBrace(s) ->
                 IF IsPrefix(<<"extern">> \o EmptyString \o <<"{">>, rest)
                   THEN Append(s, ExternCInfo(n))
                   ELSE Append(s, [BlockInfo(n) EXCEPT
                                     !.asm = IF BeginsAsm(rest) THEN "block" ELSE "no"])
            [] token \in {";", ")"} /\ ~SeenOpenBrace(s) -> Front(s)
            [] token = "}" /\ s # <<>> -> Front(s)
            [] OTHER -> s,
        rest |-> After(rest, i)]

-----------------------------------------------------------------------------
(* What the end of a block is checked for.                                 *)

ClosesBlock(s, rest) == rest[FirstConsumed(rest)] = "}" /\ s # <<>>

\* CheckEnd of a class: something stands between its last DISALLOW macro and
\* its end, or the brace is not where the class began. Only spaces may stand
\* before that brace, while indent counts tabs.
DisallowLines(class, n, elided) ==
    {i \in class.start + 1 .. n - 1 :
       Occurs(<<"DISALLOW", "(", class.name, ")">>, elided[i]) # {}}
DisallowNotLast(class, n, elided) ==
    LET macro == DisallowLines(class, n, elided)
    IN macro # {} /\ \E i \in Max(macro) + 1 .. n - 1 : ~IsBlank(elided[i])
MisplacedEnd(class, n, elided) ==
    elided[n] # <<>> /\ Head(elided[n]) = "}" /\ class.indent # 0

\* CheckEnd of a namespace: the comment at its end names it.
EndComments(raw) ==
    {i \in DOMAIN raw : /\ Head(raw) = "}"
                        /\ raw[i] = "namespace"
                        /\ \E j \in 2 .. i - 1 :
                             /\ raw[j] \in {"//", "/*"}
                             /\ \A k \in 2 .. j - 1 : raw[k] = ";"}
NamedBy(comment, name) ==
    LET rest == IF name = "" THEN comment ELSE Tail(comment)
    IN /\ name # "" => comment # <<>> /\ Head(comment) = name
       /\ \A i \in DOMAIN rest : rest[i] = "*/"
BadNamespaceEnd(space, n, raw) ==
    /\ n - space.start >= ShortNamespace \/ EndComments(raw) # {}
    /\ ~ \E i \in EndComments(raw) : NamedBy(After(raw, i), space.name)
=============================================================================
