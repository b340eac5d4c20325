-------------------------------- MODULE Lint --------------------------------
(***************************************************************************)
(* A run of cpplint (tools/cpplint.py), the style check of the gate, on    *)
(* the files it is given: ParseArguments, then for every file              *)
(* ProcessConfigOverrides, ProcessFile and ProcessFileData with            *)
(* ProcessLine, then the exit status.                                      *)
(*                                                                         *)
(* Of the checks of a line those are modelled that remember something from *)
(* line to line or file to file, or that depend on what is remembered; the *)
(* others look at one line, or at the text around it, and keep nothing.    *)
(*                                                                         *)
(* Lines count from 1, which is the marker that the code puts before the   *)
(* file as line 0.                                                         *)
(***************************************************************************)
EXTENDS LintNesting, LintIncludes, LintFunctions, LintGuard

CONSTANTS
    Jobs,          \* runs, by name: [options, args, files, configs, gated, units]
    LineLength,    \* the default of _line_length
    TopLines       \* among how many lines the copyright is expected

\* The value of an option or of a line of a configuration.
FilterType == [sign : {"+", "-", ""}, pattern : Seq(STRING)]
ValueOK(name, val) ==
    CASE name \in {"verbose", "linelength"} -> val \in Seq(Int)
      [] name = "filter" -> val \in Seq(FilterType)
      [] OTHER -> TRUE
IsSequence(list) == Len(list) \in Nat /\ DOMAIN list = 1 .. Len(list)
JobOK(given) ==
    /\ given.args \in Seq([dir : Seq(STRING), stem : Seq(STRING), ext : STRING])
    /\ \A file \in DOMAIN given.files : given.files[file] \in Seq(Seq(STRING))
    /\ IsSequence(given.options)
    /\ \A i \in DOMAIN given.options : ValueOK(given.options[i].opt, given.options[i].val)
    /\ \A dir \in DOMAIN given.configs :
         /\ IsSequence(given.configs[dir])
         /\ \A i \in DOMAIN given.configs[dir] :
              ValueOK(given.configs[dir][i].name, given.configs[dir][i].val)
    /\ given.units \in Seq(STRING)

ASSUME LintAssumption ==
    /\ LineLength \in Nat /\ TopLines \in Nat
    /\ \A name \in DOMAIN Jobs : JobOK(Jobs[name])

VARIABLES
    job,           \* the run, one of Jobs
    phase,         \* "arguments", "next", "config", "override", "open",
                   \* "ifndef", "endif", "lines" or "exit"
    run,           \* the number of the file in the arguments
    look,          \* the directory whose configuration is read, and the name
                   \* in it on the way to the file
    overrides,     \* the filters of the configurations read, innermost first
    lineLength,    \* _line_length
    clean,         \* the copies of the file's lines
    line,          \* the line that is processed
    status         \* the exit status

driverVars == <<phase, run, look, overrides, lineLength, clean, line, status>>
lintVars == <<nestingVars, includeVars, functionVars, reportVars, driverVars, job>>

Args == job.args
File == Args[run]
Files == job.files           \* from the names of files to their lines
Configs == job.configs       \* from directories to lines of options

NoText == [raw |-> <<>>, unraw |-> <<>>, lines |-> <<>>, elided |-> <<>>]
Marker == <<"//", "x">>

LintInit ==
    /\ NestingInit /\ IncludeInit /\ FunctionInit /\ ReportInit
    /\ \E name \in DOMAIN Jobs : job = Jobs[name]
    /\ phase = "arguments"
    /\ run = 0
    /\ look = [dir |-> <<>>, base |-> [stem |-> <<>>, ext |-> ""]]
    /\ overrides = <<>>
    /\ lineLength = LineLength
    /\ clean = NoText
    /\ line = 1
    /\ status = 0

\* The file the run is at is done with.
Leave == phase' = "next" /\ RestoreFilters

Exit(code) == phase' = "exit" /\ status' = code

-----------------------------------------------------------------------------
(* ParseArguments. The value of an option is a sequence: of filters, of    *)
(* extensions, of one number or word, empty if it cannot be read.          *)

Options == job.options
Given(opt) == {i \in DOMAIN Options : Options[i].opt = opt}
ValueOf(opt, default) ==
    IF Given(opt) = {} THEN default ELSE Options[Max(Given(opt))].val

Usage(option) ==
    \/ option.opt = "help"
    \/ option.opt \in {"verbose", "linelength"} /\ option.val = <<>>
    \/ /\ option.opt = "counting"
       /\ option.val \notin {<<"total">>, <<"toplevel">>, <<"detailed">>}
    \/ /\ option.opt = "output"
       /\ option.val \notin {<<"emacs">>, <<"vs7">>, <<"eclipse">>}
PrintCategories(option) == option.opt = "filter" /\ option.val = <<>>

\* The first option that ends the program, 0 if none does.
Stopping ==
    LET stop == {i \in DOMAIN Options : Usage(Options[i]) \/ PrintCategories(Options[i])}
    IN IF stop = {} THEN 0 ELSE Min(stop)

ArgumentFilters == DefaultFilters \o ValueOf("filter", <<>>)
Extensions == ValueOf("extensions", <<"cc", "h", "cpp", "cu", "cuh">>)

Refused ==
    \/ Given("unknown") # {}
    \/ Stopping # 0 /\ ~PrintCategories(Options[Stopping])
    \/ Stopping = 0 /\ Args = <<>>
    \/ Stopping = 0 /\ ~Signed(ArgumentFilters)

ParseArguments ==
    /\ phase = "arguments"
    /\ \/ Refused /\ Exit(1) /\ UNCHANGED <<filters, verbose, counting, lineLength>>
       \/ ~Refused /\ Stopping # 0 /\ Exit(0)
            /\ UNCHANGED <<filters, verbose, counting, lineLength>>
       \/ /\ ~Refused /\ Stopping = 0
          /\ filters' = ArgumentFilters
          /\ verbose' = Head(ValueOf("verbose", <<verbose>>))
          /\ counting' = Head(ValueOf("counting", <<"">>))
          /\ lineLength' = Head(ValueOf("linelength", <<LineLength>>))
          /\ phase' = "next"
          /\ UNCHANGED status
    /\ UNCHANGED <<nestingVars, includeVars, functionVars, backup, suppressions,
                   printed, byCategory, run, look, overrides, clean, line, job>>

-----------------------------------------------------------------------------
(* ProcessConfigOverrides                                                  *)

\* ProcessFile begins by saving the filters.
NextFile ==
    /\ phase = "next"
    /\ run < Len(Args)
    /\ run' = run + 1
    /\ BackupFilters
    /\ look' = [dir  |-> Args[run + 1].dir,
                base |-> [stem |-> Args[run + 1].stem, ext |-> Args[run + 1].ext]]
    /\ overrides' = <<>>
    /\ phase' = "config"
    /\ UNCHANGED <<nestingVars, includeVars, functionVars, filters, verbose,
                   counting, suppressions, printed, byCategory, lineLength,
                   clean, line, status, job>>

\* What one CPPLINT.cfg does: options are read in order until one excludes
\* the file; a file that cannot be opened ends the search, as does the root.
ReadOption(acc, option) ==
    IF acc.excluded THEN acc ELSE
    CASE option.name = "set noparent" -> [acc EXCEPT !.more = FALSE]
      [] option.name = "filter" -> [acc EXCEPT !.filters = Append(@, option.val)]
      [] option.name = "exclude_files" ->
           [acc EXCEPT !.excluded = look.base \in Range(option.val)]
      [] option.name = "linelength" /\ option.val # <<>> ->
           [acc EXCEPT !.length = Head(option.val)]
      [] option.name = "cannot open" -> [acc EXCEPT !.more = FALSE]
      [] OTHER -> acc
ReadConfig ==
    LET config == IF look.dir \in DOMAIN Configs THEN Configs[look.dir] ELSE <<>>
        read[i \in 0 .. Len(config)] ==
          IF i = 0 THEN [filters |-> overrides, more |-> TRUE, excluded |-> FALSE,
                         length |-> lineLength]
          ELSE ReadOption(read[i-1], config[i])
    IN read[Len(config)]

ConfigDirectory ==
    /\ phase = "config"
    /\ overrides' = ReadConfig.filters
    /\ lineLength' = ReadConfig.length
    /\ \/ ReadConfig.excluded /\ Leave /\ UNCHANGED look
       \/ /\ ~ReadConfig.excluded /\ ReadConfig.more /\ look.dir # <<>>
          /\ look' = [dir  |-> Front(look.dir),
                      base |-> [stem |-> <<Last(look.dir)>>, ext |-> ""]]
          /\ UNCHANGED <<phase, filters>>
       \/ /\ ~ReadConfig.excluded /\ ~(ReadConfig.more /\ look.dir # <<>>)
          /\ phase' = "override"
          /\ UNCHANGED <<look, filters>>
    /\ UNCHANGED <<nestingVars, includeVars, functionVars, backup, verbose,
                   counting, suppressions, printed, byCategory, run, clean,
                   line, status, job>>

\* The filters of the outer directories come first, those of one directory
\* from its last line to its first.
ApplyOverrides ==
    LET all == filters \o FlattenSeq(Reverse(overrides))
    IN /\ phase = "override"
       /\ filters' = all
       /\ IF Signed(all) THEN phase' = "open" /\ UNCHANGED status ELSE Exit(1)
       /\ UNCHANGED <<nestingVars, includeVars, functionVars, backup, verbose,
                      counting, suppressions, printed, byCategory, run, look,
                      overrides, lineLength, clean, line, job>>

-----------------------------------------------------------------------------
(* ProcessFile and the beginning of ProcessFileData                        *)

IsDirectoryOrMissing == File \notin DOMAIN Files
IsIgnored == ~IsDirectoryOrMissing /\ File.ext \notin Range(Extensions)

SkipFile ==
    /\ phase = "open"
    /\ IsDirectoryOrMissing \/ IsIgnored
    /\ Leave
    /\ UNCHANGED <<nestingVars, includeVars, functionVars, backup, verbose,
                   counting, suppressions, printed, byCategory, run, look,
                   overrides, lineLength, clean, line, status, job>>

\* Carriage returns are taken off all lines but what follows the last end of
\* line, which is empty if the file ends with one.
EndsInReturn(text) ==
    {i \in 1 .. Len(text) - 1 : text[i] # <<>> /\ Last(text[i]) = "\r"}
WithoutReturns(text) ==
    [i \in DOMAIN text |-> IF i \in EndsInReturn(text) THEN Front(text[i]) ELSE text[i]]
Marked(text) == <<Marker>> \o WithoutReturns(text) \o <<Marker>>

\* CheckForCopyright
CopyrightErrors(lines) ==
    If(\A i \in 2 .. Min({Len(lines), TopLines + 1}) :
          Positions(lines[i], "Copyright") = {},
       Found(1, "copyright", 5))

\* RemoveMultiLineComments reports the line after the one it means.
CommentErrors(lines) ==
    IF Unterminated(lines) = {} THEN <<>>
    ELSE <<Found(Min(Unterminated(lines)) + 1, "multiline_comment", 5)>>

OpenFile ==
    LET lines == Marked(Files[File])
    IN /\ phase = "open"
       /\ ~IsDirectoryOrMissing /\ ~IsIgnored
       /\ NestingReset /\ IncludeReset /\ FunctionReset
       /\ suppressions' = AfterReset
       /\ Report(run, CopyrightErrors(lines) \o CommentErrors(lines))
       /\ clean' = CleansedLines(RemoveMultiLineComments(lines))
       /\ line' = 1
       /\ phase' = IF File.ext = "h" THEN "ifndef" ELSE "lines"
       /\ UNCHANGED <<filters, backup, verbose, counting, run, look, overrides,
                      lineLength, status, job>>

guardUnchanged == <<nestingVars, includeVars, functionVars, filters, backup, verbose,
                    counting, run, look, overrides, lineLength, clean, line, status,
                    job>>

\* CheckForHeaderGuard reads the NOLINT comments of the lines it reports before
\* their turn comes.
Ifndef ==
    LET lines == clean.unraw
        at    == IfndefAt(lines)
    IN /\ phase = "ifndef"
       /\ \/ /\ GuardOff(lines)
             /\ phase' = "lines"
             /\ UNCHANGED <<suppressions, printed, byCategory>>
          \/ /\ ~GuardOff(lines) /\ ~IsGuarded(lines)
             /\ phase' = "lines"
             /\ UNCHANGED suppressions
             /\ Report(run, <<Found(1, "header_guard", 5)>>)
          \/ /\ ~GuardOff(lines) /\ IsGuarded(lines)
             /\ phase' = "endif"
             /\ IF IfndefErrors(lines) = <<>>
                  THEN UNCHANGED <<suppressions, printed, byCategory>>
                  ELSE /\ suppressions' = suppressions \cup Nolint(lines[at], at)
                       /\ Report(run, UnknownNolint(lines[at], at) \o IfndefErrors(lines))
       /\ UNCHANGED guardUnchanged

Endif ==
    LET at == EndifAt(clean.unraw)
    IN /\ phase = "endif"
       /\ phase' = "lines"
       /\ suppressions' = suppressions \cup Nolint(clean.unraw[at], at)
       /\ Report(run, UnknownNolint(clean.unraw[at], at) \o EndifErrors(clean.unraw))
       /\ UNCHANGED guardUnchanged

-----------------------------------------------------------------------------
(* ProcessLine                                                             *)

InLines == phase = "lines" /\ line <= Len(clean.raw)
Raw == clean.raw[line]
Elided == clean.elided[line]

\* The text from this line on. The name of a header stays in it, and its dot
\* is one; pointed brackets around a name are in a pair and without effect.
Visible(tokens) ==
    IF IncludesHeader(tokens)
      THEN IF HeaderOf(tokens).system \/ HeaderOf(tokens).ext = ""
             THEN <<"#include">> ELSE <<"#include", ".">>
      ELSE tokens
FromHere ==
    TextOf([i \in 1 .. Len(clean.elided) - line + 1 |->
              Visible(clean.elided[line + i - 1])])

lineUnchanged == <<includeVars, functionVars, filters, backup, verbose, counting,
                   phase, run, look, overrides, lineLength, clean, status, job>>

StartLine ==
    /\ InLines
    /\ StartUpdate(Elided)
    /\ suppressions' = suppressions \cup Nolint(Raw, line)
    /\ Report(run, UnknownNolint(Raw, line))
    /\ UNCHANGED <<lineUnchanged, line>>

LineNamespace ==
    /\ InLines
    /\ Namespace(line)
    /\ UNCHANGED <<lineUnchanged, line, suppressions, printed, byCategory>>

LineClassHead ==
    /\ InLines
    /\ ClassHead(line, IndentLevel(Raw), FromHere)
    /\ UNCHANGED suppressions
    /\ Report(run, If(AfterClassHead(stack, todo, line, IndentLevel(Raw),
                                     IsClassHead(stack, todo, FromHere)).misplaced,
                      Found(line, "indent", 3)))
    /\ UNCHANGED <<lineUnchanged, line>>

\* The checks of the block that a brace closes.
EndErrors ==
    LET block == Last(stack)
    IN CASE ~ClosesBlock(stack, todo) -> <<>>
         [] ClosesBlock(stack, todo) /\ block.kind = "class" ->
              If(DisallowNotLast(block, line, clean.elided),
                 Found(Max(DisallowLines(block, line, clean.elided)), "constructors", 3))
                \o If(MisplacedEnd(block, line, clean.elided), Found(line, "indent", 3))
         [] ClosesBlock(stack, todo) /\ block.kind = "namespace" ->
              If(BadNamespaceEnd(block, line, Raw), Found(line, "namespace", 5))
         [] OTHER -> <<>>

LineBrace ==
    /\ InLines
    /\ Brace(line)
    /\ UNCHANGED suppressions
    /\ Report(run, EndErrors)
    /\ UNCHANGED <<lineUnchanged, line>>

LineEnd ==
    /\ InLines
    /\ EndUpdate
    /\ UNCHANGED suppressions
    /\ Report(run, If(IndentedInNamespace(Elided), Found(line, "indentation_namespace", 4)))
    /\ UNCHANGED <<lineUnchanged, line>>

\* Of CheckStyle: the length of the line, a tab counting for one column.
StyleErrors ==
    LET text  == clean.unraw[line]
        width == Len(text)
    IN If(Positions(text, Tab) # {}, Found(line, "tab", 1))
         \o If(/\ text = <<>> \/ Head(text) # "#include"
               /\ ~(File.ext = "h" /\ IsGuardLine(text))
               /\ width > lineLength,
               Found(line, "line_length",
                     IF width > (lineLength * 5) \div 4 THEN 4 ELSE 2))
         \o If(PublicDisallow(Elided), Found(line, "constructors", 3))

Directives == {"#if", "#else", "#endif"}

\* All the other checks, which inline assembly is exempt from.
CheckLine ==
    /\ InLines
    /\ step = "done"
    /\ step' = "idle"
    /\ line' = line + 1
    /\ UNCHANGED suppressions
    /\ \/ /\ InAsmBlock(stack)
          /\ UNCHANGED <<includeVars, functionVars, printed, byCategory>>
       \/ /\ ~InAsmBlock(stack)
          /\ Function(clean.lines, line)
          /\ Report(run,
               FunctionErrors(clean.lines, line)
                 \o If(ComplexComment(Elided), Found(line, "multiline_comment", 5))
                 \o If(ComplexString(Elided), Found(line, "multiline_string", 5))
                 \o StyleErrors
                 \o (IF IncludesHeader(Elided)
                       THEN IncludeErrors(clean.lines[line], line, File,
                                          clean.elided[line - 1])
                       ELSE <<>>))
          /\ \/ IncludesHeader(Elided) /\ Include(clean.lines[line], line, File)
             \/ First(Elided) \in Directives /\ ResetSection(First(Elided))
             \/ /\ ~IncludesHeader(Elided) /\ First(Elided) \notin Directives
                /\ UNCHANGED includeVars
    /\ UNCHANGED <<stack, previous, pp, todo, filters, backup, verbose, counting,
                   phase, run, look, overrides, lineLength, clean, status, job>>

-----------------------------------------------------------------------------
(* The end of ProcessFileData and of ProcessFile                           *)

\* For every line of a set its error, in the order of the lines.
ForEach(lines, category, confidence) ==
    FlattenSeq([i \in 1 .. Len(clean.raw) |->
                  If(i \in lines, Found(i, category, confidence))])

EndOfFileErrors ==
    LET returns == EndsInReturn(Files[File])
    IN [i \in DOMAIN Incomplete |->
          Found(Incomplete[i].start,
                IF Incomplete[i].kind = "class" THEN "class" ELSE "namespaces", 5)]
         \o MissesOwnHeader(File, DOMAIN Files)
         \o ForEach({i \in DOMAIN clean.raw : Positions(clean.raw[i], "invalid utf8") # {}},
                    "utf8", 5)
         \o ForEach({i \in DOMAIN clean.raw : Positions(clean.raw[i], "NUL") # {}}, "nul", 5)
         \o If(clean.raw[Len(clean.raw) - 1] # <<>>,
               Found(Len(clean.raw) - 1, "ending_newline", 5))
         \o (IF returns = 1 .. Len(Files[File]) - 1 THEN <<>>
             ELSE ForEach({i + 1 : i \in returns}, "newline", 1))

FinishFile ==
    /\ phase = "lines"
    /\ line > Len(clean.raw)
    /\ UNCHANGED suppressions
    /\ Report(run, EndOfFileErrors)
    /\ Leave
    /\ UNCHANGED <<nestingVars, includeVars, functionVars, backup, verbose,
                   counting, run, look, overrides, lineLength, clean, line,
                   status, job>>

ExitMain ==
    /\ phase = "next"
    /\ run = Len(Args)
    /\ Exit(IF printed # <<>> THEN 1 ELSE 0)
    /\ UNCHANGED <<nestingVars, includeVars, functionVars, reportVars, run, look,
                   overrides, lineLength, clean, line, job>>

-----------------------------------------------------------------------------

UpdateLine == StartLine \/ LineNamespace \/ LineClassHead \/ LineBrace \/ LineEnd

LintNext ==
    \/ ParseArguments
    \/ NextFile \/ ConfigDirectory \/ ApplyOverrides \/ SkipFile \/ OpenFile
    \/ Ifndef \/ Endif
    \/ UpdateLine \/ CheckLine
    \/ FinishFile \/ ExitMain
=============================================================================
