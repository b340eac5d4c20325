--------------------------- MODULE LintProperties ---------------------------
(***************************************************************************)
(* What is true of cpplint and of the gate that calls it. What the program *)
(* finds out line by line is compared with definitions that look at the    *)
(* whole file.                                                             *)
(***************************************************************************)
EXTENDS Gate, LintReader

\* The file's lines are about to be read, or one was and the next was not.
Opened == phase = "lines" /\ step = "idle" /\ line = 1
BetweenLines == phase = "lines" /\ step = "idle"

\* The type of the state: in particular there is a list of includes to add to
\* whatever #if, #else and #endif came before (_IncludeState.ResetSection).
TypeOK ==
    /\ NestingTypeOK /\ IncludeTypeOK /\ FunctionTypeOK /\ ReportTypeOK
    /\ phase \in {"arguments", "next", "config", "override", "open",
                  "ifndef", "endif", "lines", "exit"}
    /\ run \in 0 .. Len(Args)
    /\ line \in Nat \ {0} /\ lineLength \in Int /\ status \in {0, 1}
    /\ gate \in {"hand", "unit", "system", "cppcheck", "lint", "done"}
    /\ unit \in Nat /\ {unitCode, code} \subseteq {0, 1}

-----------------------------------------------------------------------------
(* Text.                                                                   *)

Warned(lines) ==
    \/ Unterminated(lines) # {}
    \/ \E i \in DOMAIN clean.elided :
         ComplexComment(clean.elided[i]) \/ ComplexString(clean.elided[i])

\* Taking raw strings, comments and strings out of a file line by line and in
\* that order (CleansedLines) leaves on every line just the braces that are
\* code, unless the program warns that it may give up.
BracesAreCode ==
    Opened =>
      LET lines == Marked(Files[File])
      IN Plain(lines) /\ ~Warned(lines) =>
           \A n \in DOMAIN lines :
             Braces(clean.elided[n]) = CodeBraces(lines, n)

\* Looking for the end of an expression in parentheses, brackets or braces
\* (CloseExpression) and looking for its beginning (ReverseCloseExpression)
\* agree on what belongs together, whatever angle brackets and operators
\* stand in between.
BracketsPair ==
    Opened =>
      LET text == TextOf(clean.elided)
          At(kind) == {i \in DOMAIN text : text[i] \in kind}
      IN /\ \A i \in At(Opening) : LET end == CloseExpression(text, i) IN
              end # 0 => ReverseCloseExpression(text, end) = i
         /\ \A i \in At(Closing) : LET start == ReverseCloseExpression(text, i) IN
              start # 0 => CloseExpression(text, start) = i

-----------------------------------------------------------------------------
(* The blocks around a line.                                               *)

\* The stack of the first branches: the one that was put aside for the
\* outermost #else, if there is one.
Elses == {i \in DOMAIN pp : pp[i].seen}
MainStack == IF Elses = {} THEN stack ELSE pp[Min(Elses)].kept
MainBranches == [i \in DOMAIN pp |-> pp[i].seen]

\* The stack that UpdatePreprocessor copies and puts back for every #else is,
\* as its comment promises, the stack of a reader of the first branches only.
Main == INSTANCE LintNestingSpec WITH nest <- MainStack, branches <- MainBranches
FirstBranch == Main!Spec

\* How many #if are open after line n.
Level ==
    LET level[n \in 0 .. Len(clean.elided)] ==
          IF n = 0 THEN 0
          ELSE CASE First(clean.elided[n]) = "#if" -> level[n-1] + 1
                 [] First(clean.elided[n]) = "#endif" -> Max({level[n-1] - 1, 0})
                 [] OTHER -> level[n-1]
    IN level

\* From line i to line j no conditional of this level is left.
Inside(i, j, level) == \A k \in i .. j : Level[k] >= level

\* Whether line i counts for what follows line n: of a conditional that is
\* over by then only the first branch, of one that is open only the last.
OnPath(i, n) ==
    \A j \in 1 .. n :
      First(clean.elided[j]) = "#else" /\ Level[j] > 0 =>
        /\ j <= i /\ Inside(j, i, Level[j]) => Inside(j, n, Level[j])
        /\ i < j => ~Inside(i, n, Level[j])

PathText(n) ==
    FlattenSeq([i \in 1 .. n |-> IF OnPath(i, n) THEN clean.elided[i] ELSE <<>>])

Depth(text) ==
    LET depth[i \in 0 .. Len(text)] ==
          IF i = 0 THEN 0
          ELSE CASE text[i] = "{" -> depth[i-1] + 1
                 [] text[i] = "}" /\ depth[i-1] > 0 -> depth[i-1] - 1
                 [] OTHER -> depth[i-1]
    IN depth[Len(text)]

\* Every class and namespace has a body, or is but declared.
HeadsComplete(text) ==
    LET heads == {"class", "struct", "namespace"}
        Following(i) == {j \in i + 1 .. Len(text) : text[j] \in heads \cup {"{", "}", ";"}}
    IN \A i \in DOMAIN text :
         text[i] \in heads /\ Following(i) # {} =>
           \/ text[Min(Following(i))] = "{"
           \/ text[Min(Following(i))] = ";" /\ text[i] # "namespace"

\* A stack of blocks that is kept with patterns for classes, namespaces,
\* macros and assembly (NestingState.Update) and copied for the branches of
\* #if (UpdatePreprocessor) is as deep as the braces before it.
DepthIsBraces ==
    BetweenLines /\ HeadsComplete(PathText(line - 1)) =>
      Cardinality({i \in DOMAIN stack : stack[i].open}) = Depth(PathText(line - 1))

-----------------------------------------------------------------------------
(* Includes. The line that was just read is line - 1.                      *)

ReportedAt(n, category) ==
    \E i \in DOMAIN printed :
      /\ printed[i].run = run /\ printed[i].line = n
      /\ printed[i].category = category /\ printed[i].confidence = 4
Reports(category, n) ==
    /\ verbose <= 4
    /\ ~IsFiltered(category)
    /\ {<<category, n>>, <<"*", n>>} \cap suppressions = {}

IsDirective(n) == First(clean.elided[n]) \in Directives
IncludesAt(n) == IncludesHeader(clean.elided[n]) /\ IncludesHeader(clean.lines[n])
HeaderAt(n) == HeaderOf(clean.lines[n])
KindAt(n) == ClassifyInclude(File, HeaderAt(n))
IsMine(n) == KindAt(n) \in {"likely mine", "possibly mine"}
IsRecorded(n) == \E i \in DOMAIN Recorded : Recorded[i].line = n

\* The lines before n with an #include that counts, since the last directive.
Stretch(n) ==
    {i \in 1 .. n - 1 : IsRecorded(i) /\ \A j \in i .. n - 1 : ~IsDirective(j)}

\* A header that system headers should come before.
IsLate(n) ==
    /\ KindAt(n) \notin {"c system", "cpp system"}
    /\ ~(IsMine(n) /\ \A i \in Stretch(n) : IsMine(i))

\* Whether there is inline assembly, or a word for it, in the first n lines, and
\* a directive from there on. In inline assembly no line is checked, so that a
\* directive there is one for NestingState only.
HasAssembly(n) == \E i \in 1 .. n : "asm" \in Range(clean.elided[i])
DirectiveAfterAssembly(n) == \E i \in 1 .. n : IsDirective(i) /\ HasAssembly(i)

\* Among the #include lines between two directives, a system header is
\* reported just if one that should come later was there before, also when
\* that one was itself reported (_IncludeState.CheckNextIncludeOrder).
IncludeOrder ==
    BetweenLines /\ line > 1 /\ Reports("include_order", line - 1) =>
      LET n == line - 1
      IN ~DirectiveAfterAssembly(n) =>
         (ReportedAt(n, "include_order") <=>
            /\ IsRecorded(n)
            /\ KindAt(n) \in {"c system", "cpp system"}
            /\ \E i \in Stretch(n) :
                 \/ IsLate(i)
                 \/ KindAt(n) = "c system" /\ KindAt(i) = "cpp system")

SameHeader(n) ==
    {i \in 1 .. n - 1 : IncludesAt(i) /\ Name(HeaderAt(i)) = Name(HeaderAt(n))}

\* One way through the directives passes both lines.
OnOnePath(i, n) ==
    ~ \E j \in i + 1 .. n :
        First(clean.elided[j]) = "#else" /\ Inside(i, n, Level[j])

\* Directives as they should be: an #else or #endif has its #if.
Balanced ==
    \A n \in 1 .. line - 1 : First(clean.elided[n]) \in {"#else", "#endif"} => Level[n-1] > 0
Nested == \E n \in 1 .. line - 1 : Level[n] > 1

\* A header that is included on every way to this line is reported, and only
\* one that is included on some way (FindHeader, ResetSection). With one #if
\* inside another the second half is not so.
DuplicateOnPath ==
    BetweenLines /\ line > 1 /\ IncludesAt(line - 1) /\ Reports("include", line - 1) =>
        LET n == line - 1
            header == HeaderAt(n)
        IN (/\ header.dir # <<>> /\ ~Foreign(File, header) /\ ~header.thirdParty
            /\ Balanced /\ ~HasAssembly(n)) =>
             /\ (\E i \in SameHeader(n) : Level[i] = 0) => ReportedAt(n, "include")
             /\ ReportedAt(n, "include") /\ ~Nested =>
                  \E i \in SameHeader(n) : OnOnePath(i, n)

-----------------------------------------------------------------------------
(* File after file.                                                        *)

\* Whatever the configurations of a file did to the filters, and wherever the
\* file was left (excluded, unreadable, of another extension, read to its
\* end), the next file begins with those of the command line.
FiltersRestored == phase = "next" => filters = ArgumentFilters

Verdict(n) ==
    {<<printed[i].line, printed[i].category, printed[i].confidence>> :
       i \in {k \in DOMAIN printed : /\ printed[k].run = n
                                     /\ printed[k].category # "line_length"}}

\* A file that is given twice is told the same twice: what was read before it
\* leaves nothing behind in the filters, the NOLINT comments, the blocks, the
\* includes or the functions. The length of lines is another matter.
SameVerdict ==
    phase \in {"next", "exit"} =>
      \A i, j \in 1 .. run : Args[i] = Args[j] => Verdict(i) = Verdict(j)

\* The directories of the file whose configuration is read, by their depth.
Governing ==
    {d \in 0 .. Len(File.dir) :
       \A e \in d + 1 .. Len(File.dir) :
         SubSeq(File.dir, 1, e) \in DOMAIN Configs =>
           \A i \in DOMAIN Configs[SubSeq(File.dir, 1, e)] :
             Configs[SubSeq(File.dir, 1, e)][i].name # "set noparent"}
LengthsIn(d) ==
    LET config == IF SubSeq(File.dir, 1, d) \in DOMAIN Configs
                    THEN Configs[SubSeq(File.dir, 1, d)] ELSE <<>>
    IN {config[i].val : i \in {k \in DOMAIN config : /\ config[k].name = "linelength"
                                                     /\ config[k].val # <<>>}}

\* The usage text: a configuration "has an effect on files in the same
\* directory and all sub-directories, unless overridden by a nested
\* configuration file". It is not so: the outer one comes last, and the
\* length stays for the files after it.
NestedLengthWins ==
    phase = "lines" =>
      LET given == {d \in Governing : LengthsIn(d) # {}}
      IN IF given = {} THEN <<lineLength>> = ValueOf("linelength", <<LineLength>>)
         ELSE <<lineLength>> \in LengthsIn(Max(given))

-----------------------------------------------------------------------------
(* The gate.                                                               *)

\* The gate succeeds just if every command did, however early one failed, and
\* then the style check printed nothing.
GateHonest ==
    gate = "done" =>
      /\ code = 0 <=> failed = {} /\ status = 0
      /\ code = 0 => printed = <<>>

\* What a run has left, the most significant first: commands, files,
\* directories to look for configurations in, lines, and of a line what
\* NestingState.Update has not consumed.
GateOrder == <<"hand", "done", "lint", "cppcheck", "system", "unit">>
PhaseOrder == <<"exit", "next", "lines", "endif", "ifndef", "open", "override",
                "config", "arguments">>
StepOrder == <<"done", "braces", "heads", "idle">>
Place(order, x) == CHOOSE i \in DOMAIN order : order[i] = x
Remaining ==
    <<Place(GateOrder, gate),
      IF gate = "unit" THEN Len(Units) - unit ELSE 0,
      Len(Args) - run,
      Place(PhaseOrder, phase),
      Len(look.dir),
      Len(clean.raw) - line,
      Place(StepOrder, step),
      Len(todo)>>
Less(a, b) ==
    \E i \in DOMAIN a : a[i] \in -1 .. b[i] - 1 /\ \A j \in 1 .. i - 1 : a[j] = b[j]

\* Every step of a run leaves less to do, so that no line is read for ever
\* and every run, which never waits for anything, comes to its end.
Progresses == [][Less(Remaining', Remaining)]_vars
=============================================================================
