------------------------------- MODULE MCLint -------------------------------
(***************************************************************************)
(* Instances of LintProperties for TLC: families of runs of cpplint. A run *)
(* has a key, its family and what varies in that family, and what it is    *)
(* follows from the key.                                                   *)
(***************************************************************************)
EXTENDS LintProperties

FileName(dir, stem, ext) == [dir |-> dir, stem |-> stem, ext |-> ext]
A == FileName(<<"m", "src">>, <<"a">>, "cc")
ATest == FileName(<<"m", "src">>, <<"a", "test">>, "cc")
B == FileName(<<"m">>, <<"b">>, "cpp")
H == FileName(<<"m", "src">>, <<"a">>, "h")
Directory == FileName(<<"m">>, <<"line">>, "")

HeaderRecord(dir, stem, ext, order) ==
    [dir |-> dir, stem |-> stem, ext |-> ext, order |-> order,
     system |-> FALSE, cpp |-> FALSE, thirdParty |-> FALSE]
Headers ==
    [h \in {"stdio", "vector", "string", "own", "public", "other", "source",
            "bare", "lua"} |->
       CASE h = "stdio"  -> [HeaderRecord(<<>>, <<"stdio">>, "h", 6) EXCEPT !.system = TRUE]
         [] h = "vector" -> [HeaderRecord(<<>>, <<"vector">>, "", 8) EXCEPT
                               !.system = TRUE, !.cpp = TRUE]
         [] h = "string" -> [HeaderRecord(<<>>, <<"string">>, "", 7) EXCEPT
                               !.system = TRUE, !.cpp = TRUE]
         [] h = "own"    -> HeaderRecord(<<"m", "src">>, <<"a", "inl">>, "h", 3)
         [] h = "public" -> HeaderRecord(<<"m", "public">>, <<"a">>, "h", 2)
         [] h = "other"  -> HeaderRecord(<<"m", "src">>, <<"z">>, "hpp", 4)
         [] h = "source" -> HeaderRecord(<<"m">>, <<"b">>, "cc", 1)
         [] h = "bare"   -> HeaderRecord(<<>>, <<"q">>, "h", 5)
         [] h = "lua"    -> [HeaderRecord(<<>>, <<"lua">>, "h", 9) EXCEPT
                               !.thirdParty = TRUE]]

Copyright == <<"//", "Copyright">>
Lines(lines) == <<Copyright>> \o lines \o <<<<>>>>
OneFile(lines) ==
    [options |-> <<>>, args |-> <<A>>, files |-> (A :> Lines(lines)),
     configs |-> <<>>, gated |-> FALSE, units |-> <<>>]
With(given, option, val) ==
    [given EXCEPT !.options = Append(@, [opt |-> option, val |-> val])]

\* A sequence of tokens cut at the ends of lines.
CutLines(tokens) ==
    FoldLeft(LAMBDA lines, token :
               IF token = "\n" THEN Append(lines, <<>>)
               ELSE [lines EXCEPT ![Len(lines)] = Append(@, token)],
             <<<<>>>>, tokens)

-----------------------------------------------------------------------------

\* Marks of comments, strings and raw strings in every order, with braces in
\* them and after them.
Marks == {<<"\n">>, <<"/*", "{">>, <<"*/">>, <<Quote, "{">>,
          <<"R", Quote, "(", "{">>, <<")", Quote, "{">>}
Pieces == Marks \cup {<<"//", "{">>, <<Quote, "/*", Quote, "{">>, <<Quote, "*/", Quote>>}
Texts == [1 .. 3 -> Pieces] \cup [1 .. 4 -> Marks]
Text(pieces) == Lines(CutLines(FlattenSeq(pieces) \o <<"\n", "{">>))

BracketTexts ==
    [1 .. 3 -> {"(", ")", "[", "]", "<", ">", ">=", ";", "-", "operator", "\n"}]

BlockLines == {<<"namespace", "a", "{">>, <<"class", "a">>, <<"class", "a", ";">>,
               <<Tab, "class", "MACRO", "b", "{">>, <<"{">>, <<"}">>,
               <<"x", "(", ")", "{">>, <<")", ";">>, <<Tab, Tab, "public:">>,
               <<"extern", Quote, Quote, "{">>, <<"asm", "(">>, <<"asm", "{">>}
Blocks == [1 .. 3 -> BlockLines]

BranchLines == {<<"{">>, <<"}">>, <<"class", "a">>, <<"#if">>, <<"#else">>, <<"#endif">>}
Branches == [1 .. 4 -> BranchLines]

\* Ends of classes, with or without a line after the DISALLOW macro, and of
\* namespaces, with their name and that in the comment.
ClassEnds == {<<"}", ";">>, <<Tab, "}", ";">>, <<"x", ";">>} \X BOOLEAN
ClassText(key) ==
    <<<<Tab, "class", "a", "{">>, <<Tab, "DISALLOW", "(", "a", ")", ";">>>>
      \o (IF key[2] THEN <<<<"x", ";">>>> ELSE <<>>) \o <<key[1]>>
NamespaceEnds == {<<>>, <<"a">>} \X {<<>>, <<"a">>, <<"b">>}
NamespaceText(key) ==
    <<<<"namespace">> \o key[1] \o <<"{">>,
      <<"class", "x", ";">>, <<Tab, "class", "x", ";">>, <<>>,
      <<"}", "//", "namespace">> \o key[2]>>

MaybeInclude(h) == IF h = "" THEN <<>> ELSE <<"#include", h>>
Stretches == [1 .. 4 -> {"stdio", "vector", "string", "own", "other"}]
StretchText(key) == [i \in 1 .. 4 |-> MaybeInclude(key[i])]

Conditionals == [1 .. 4 -> {"vector", "other", ""}]
ConditionalText(key) ==
    <<MaybeInclude(key[1]), <<"#if">>, MaybeInclude(key[2]), <<"#else">>,
      MaybeInclude(key[3]), <<"#endif">>, MaybeInclude(key[4])>>
Nestings == [1 .. 3 -> {"vector", "other", ""}]
NestedText(key) ==
    <<<<"#if">>, MaybeInclude(key[1]), <<"#if">>, MaybeInclude(key[2]), <<"#endif">>,
      <<"#else">>, MaybeInclude(key[3]), <<"#endif">>>>

\* A block with inline assembly and a directive between two includes.
Assemblies == [1 .. 3 -> {<<"asm", "(">>, <<")", ";">>, <<"#if">>, <<"x", ";">>}]
AssemblyText(key) ==
    <<<<"x", "(", ")", "{">>, MaybeInclude("other")>> \o key \o <<MaybeInclude("vector")>>

FunctionTexts == ({<<"x", "(", ")", "{">>, <<"x", "(", ")">>, <<"x", "(", ")", ";">>,
                  <<"TEST", "(", "a", ")", "{">>, <<"MACRO", "(", ")", "{">>} \X (0 .. 5))
FunctionText(key) ==
    <<key[1]>> \o [i \in 1 .. key[2] |-> <<Tab, "x">>]
      \o <<<<"}", "//", "NOLINT">>, <<"}">>, <<"x", "(", ")">>>>

Comments == {<<"//", "NOLINT">>, <<"//", "NOLINTNEXTLINE">>,
             <<"//", "NOLINT", "(", "tab", ")">>,
             <<"//", "NOLINTNEXTLINE", "(", "copyright", ")">>,
             <<"//", "NOLINT", "(", "streams", ")">>,
             <<"//", "NOLINT", "(", "bogus", ")">>}
Silenced == [1 .. 2 -> Comments]
SilencedText(key) ==
    <<<<Tab, "x">> \o key[1], <<Tab, "x">> \o key[2], <<Tab, "x">>>>

\* Headers with and without a guard, read twice.
GuardNames == {<<"GUARD">>, <<"GUARD_">>, <<"x">>, <<>>}
GuardMarks == {<<>>, <<"//", "NOLINT">>, <<"//", "NOLINT", "(", "bogus", ")">>,
               <<"//", "NOLINT", "(", "header_guard", ")">>}
GuardEnds == {<<"//", "GUARD">>, <<"//", "GUARD_">>, <<"/*", "GUARD", "*/">>,
              <<"/*", "GUARD_", "*/">>}
GuardTexts == GuardNames \X GuardNames \X GuardMarks \X GuardEnds
GuardText(key) ==
    [OneFile(<<>>) EXCEPT
       !.args = <<H, H>>,
       !.files = (H :> <<<<"/*", "Copyright", "*/">>, <<"#if">> \o key[1] \o key[3],
                         <<"#define">> \o key[2], <<>>, <<"#endif">> \o key[4], <<>>>>)]

-----------------------------------------------------------------------------
(* Options, configurations and several files.                              *)

\* The same header twice, from different files, and one that is seen only
\* when the strings are taken out first.
HiddenInclude == <<"/*", Quote, "*/", "x", Quote, "*/", "#include", "own">>
OddIncludes == {"public", "source", "bare", "lua", "own"} \X {A, ATest, B}
OddInclude(key) ==
    [OneFile(<<>>) EXCEPT
       !.args = <<key[2]>>,
       !.files = [f \in {A, ATest, B, H} |->
                    Lines(<<MaybeInclude(key[1]), HiddenInclude, MaybeInclude(key[1])>>)]]

Long == [i \in 1 .. 6 |-> "x"]
Dirty == Lines(<<MaybeInclude("other"), MaybeInclude("stdio"), Long>>)
Suppressed == Lines(<<MaybeInclude("other"), Long \o <<"//", "NOLINT">>,
                      MaybeInclude("stdio") \o <<"//", "NOLINT">>>>)
Minus(category) == Filter("-", Category[category])

SomeOptions ==
    {<<"help", <<>>>>, <<"verbose", <<>>>>, <<"verbose", <<5>>>>,
     <<"counting", <<"some">>>>, <<"counting", <<"toplevel">>>>,
     <<"counting", <<"detailed">>>>, <<"output", <<"xml">>>>,
     <<"output", <<"vs7">>>>, <<"linelength", <<7>>>>, <<"unknown", <<>>>>,
     <<"extensions", <<"hpp", "cpp">>>>, <<"filter", <<>>>>,
     <<"filter", <<Minus("include")>>>>, <<"filter", <<Filter("+", <<>>)>>>>,
     <<"filter", <<Filter("", <<"build">>)>>>>}
CommandLines == [1 .. 2 -> SomeOptions]
CommandLine(key) ==
    With(With([OneFile(<<>>) EXCEPT !.files = (A :> Dirty)],
              key[1][1], key[1][2]), key[2][1], key[2][2])

Option(name, val) == [name |-> name, val |-> val]
SomeConfigs ==
    {<<>>,
     <<Option("filter", <<Minus("include_order")>>), Option("linelength", <<7>>)>>,
     <<Option("linelength", <<4>>), Option("linelength", <<>>),
       Option("filter", <<Filter("+", Category["include_order"])>>)>>,
     <<Option("exclude_files", <<[stem |-> <<"a">>, ext |-> "cc"]>>),
       Option("set noparent", <<>>)>>,
     <<Option("set noparent", <<>>), Option("other", <<>>),
       Option("filter", <<Minus("include")>>)>>,
     <<Option("cannot open", <<>>)>>}
Configs_ == [{<<>>, <<"m">>, <<"m", "src">>} -> SomeConfigs]
Unsigned == (<<"m">> :> <<Option("filter", <<Filter("", <<"build">>)>>)>>)
Configured(key) ==
    With([OneFile(<<>>) EXCEPT
            !.args = <<A, B, A>>,
            !.files = (A :> Dirty) @@ (B :> Dirty),
            !.configs = key],
         "filter", <<Minus("copyright"), Filter("+", <<"build">>)>>)

FileLists == [1 .. 3 -> {A, B, ATest, Directory}]
FileList(key) ==
    With([OneFile(<<>>) EXCEPT
            !.args = key,
            !.files = (A :> Dirty) @@ (B :> Suppressed)
                        @@ (ATest :> Lines(<<<<"#if">>, <<"{">>, MaybeInclude("vector"),
                                             <<"x", "(", ")", "{">>, Long>>))],
         "linelength", <<5>>)

Bytes == [1 .. 3 -> {<<"\r">>, <<>>, <<"invalid utf8">>, <<"NUL">>}]

Gated(key) ==
    [OneFile(<<>>) EXCEPT !.files = (A :> key), !.args = <<A, Directory>>,
                          !.gated = TRUE, !.units = <<"u1", "u2">>]

-----------------------------------------------------------------------------

ConfigKeys == ({"configs"} \X Configs_) \cup {<<"configs", Unsigned>>}
Keys ==
    ({"text"} \X Texts) \cup ({"brackets"} \X BracketTexts) \cup ({"blocks"} \X Blocks)
      \cup ({"branches"} \X Branches) \cup ({"class"} \X ClassEnds)
      \cup ({"namespace"} \X NamespaceEnds) \cup ({"stretch"} \X Stretches)
      \cup ({"conditional"} \X Conditionals) \cup ({"nested"} \X Nestings)
      \cup ({"assembly"} \X Assemblies)
      \cup ({"function"} \X FunctionTexts) \cup ({"nolint"} \X Silenced)
      \cup ({"guard"} \X GuardTexts)
      \cup ({"include"} \X OddIncludes) \cup ({"command"} \X CommandLines)
      \cup ConfigKeys \cup ({"files"} \X FileLists) \cup ({"bytes"} \X Bytes)
      \cup ({"gate"} \X {Lines(<<>>), Dirty}) \cup {<<"no file", <<>>>>}

Job(family, key) ==
    CASE family = "text" -> [OneFile(<<>>) EXCEPT !.files = (A :> Text(key))]
      [] family = "brackets" -> OneFile(CutLines(<<"(">> \o key \o <<")">>))
      [] family = "blocks" -> OneFile(key)
      [] family = "branches" -> OneFile(key \o <<<<"}">>>>)
      [] family = "class" -> OneFile(ClassText(key))
      [] family = "namespace" -> OneFile(NamespaceText(key))
      [] family = "stretch" -> OneFile(StretchText(key))
      [] family = "conditional" -> OneFile(ConditionalText(key))
      [] family = "nested" -> OneFile(NestedText(key))
      [] family = "assembly" -> OneFile(AssemblyText(key))
      [] family = "function" -> OneFile(FunctionText(key))
      [] family = "nolint" -> OneFile(SilencedText(key))
      [] family = "guard" -> GuardText(key)
      [] family = "include" -> OddInclude(key)
      [] family = "command" -> CommandLine(key)
      [] family = "configs" -> Configured(key)
      [] family = "files" -> FileList(key)
      [] family = "bytes" -> [OneFile(<<>>) EXCEPT !.files = (A :> key)]
      [] family = "gate" -> Gated(key)
      [] OTHER -> [OneFile(<<>>) EXCEPT !.args = <<>>]

LintJobs == [key \in Keys |-> Job(key[1], key[2])]
ConfigJobs == [key \in ConfigKeys |-> Job(key[1], key[2])]
=============================================================================
