------------------------------ MODULE LintText ------------------------------
(***************************************************************************)
(* How cpplint (tools/cpplint.py) reads a file: raw strings, comments and  *)
(* the contents of strings are taken out of its lines before any check     *)
(* looks for a brace or a keyword.                                         *)
(*                                                                         *)
(* A line is a sequence of tokens. "x" stands for any code without a       *)
(* meaning of its own; a tab token is a leading tab; R, a quote and an     *)
(* open parenthesis in a row begin a raw string, a close parenthesis and a *)
(* quote end one. Escapes, character constants, digit separators and lines *)
(* continued with a backslash are not modelled, nor are raw strings with a *)
(* delimiter.                                                              *)
(***************************************************************************)
EXTENDS Naturals, Sequences, FiniteSets, SequencesExt

Tab == "tab"
EndOfLine == "end of line"
Quote == "\""
EmptyString == <<Quote, Quote>>

\* Tokens are strings, which no prover knows of a string that is written out.
ASSUME TokensAssumption ==
    {EndOfLine, Quote, "R", "(", ")", "/*", "*/", "//", "x"} \subseteq STRING

Before(line, i) == SubSeq(line, 1, i - 1)
After(line, i) == SubSeq(line, i + 1, Len(line))
Positions(line, token) == {i \in DOMAIN line : line[i] = token}
Count(line, token) == Cardinality(Positions(line, token))
Occurs(tokens, line) ==
    {i \in DOMAIN line : IsPrefix(tokens, SubSeq(line, i, Len(line)))}

\* GetIndentLevel, which this repository changed to count tabs.
IndentLevel(line) ==
    Cardinality({i \in DOMAIN line : \A j \in 1..i : line[j] = Tab})
Strip(line) == After(line, IndentLevel(line))
StartsWith(line, tokens) == IsPrefix(tokens, Strip(line))
First(line) == IF Strip(line) = <<>> THEN "" ELSE Head(Strip(line))
IsBlank(line) == Strip(line) = <<>>

-----------------------------------------------------------------------------
(* Raw strings.                                                            *)

RawOpeners(line) == Occurs(<<"R", Quote, "(">>, line)
RawClosers(line) == Occurs(<<")", Quote>>, line)

\* The line after a raw string that was open at its beginning.
CloseRaw(line) ==
    IF RawClosers(line) = {}
      THEN [line |-> EmptyString, open |-> TRUE]
      ELSE [line |-> SubSeq(line, 1, IndentLevel(line)) \o EmptyString
                       \o After(line, Min(RawClosers(line)) + 1),
            open |-> FALSE]

\* The strings that begin on this line, the last one first (the pattern
\* that looks for them is greedy).
OpenRaw[line \in Seq(STRING)] ==
    IF RawOpeners(line) = {}
      THEN [line |-> line, open |-> FALSE]
      ELSE LET start == Max(RawOpeners(line))
               rest  == After(line, start + 2)
               ends  == RawClosers(rest)
               kept  == Before(line, start) \o EmptyString
           IN IF ends = {}
                THEN [line |-> kept, open |-> TRUE]
                ELSE OpenRaw[kept \o After(rest, Min(ends) + 1)]

CleanseRawLine(line, open) ==
    LET begun == IF open THEN CloseRaw(line) ELSE [line |-> line, open |-> FALSE]
    IN IF begun.open THEN begun ELSE OpenRaw[begun.line]

CleanseRawStrings(lines) ==
    LET open[i \in 0 .. Len(lines)] ==
          i # 0 /\ CleanseRawLine(lines[i], open[i-1]).open
    IN [i \in DOMAIN lines |-> CleanseRawLine(lines[i], open[i-1]).line]

-----------------------------------------------------------------------------
(* Comments that extend over lines. Only a comment at the beginning of a   *)
(* line is seen, and it ends with the first line that ends with its mark.  *)

OpensComment(line) == StartsWith(line, <<"/*">>) /\ Positions(line, "*/") = {}
ClosesComment(line) == line # <<>> /\ Last(line) = "*/"

CommentEnds(lines, i) == {j \in i..Len(lines) : ClosesComment(lines[j])}

\* For each line the last line of the comment it belongs to, 0 if none.
CommentOf(lines) ==
    LET end[i \in 0..Len(lines)] ==
          IF i = 0 THEN 0 ELSE LET last == end[i-1] IN
          IF last >= i THEN last
          ELSE IF OpensComment(lines[i]) /\ CommentEnds(lines, i) # {}
            THEN Min(CommentEnds(lines, i))
            ELSE 0
    IN [i \in DOMAIN lines |-> end[i]]

RemoveMultiLineComments(lines) ==
    LET comment == CommentOf(lines)
    IN [i \in DOMAIN lines |->
          IF comment[i] # 0 THEN <<"/*", "*/">> ELSE lines[i]]

\* The lines where a comment begins that has no end; the first is reported.
Unterminated(lines) ==
    LET comment == CommentOf(lines)
    IN {i \in DOMAIN lines : OpensComment(lines[i]) /\ comment[i] = 0}

-----------------------------------------------------------------------------
(* What is left of one line.                                               *)

IsCppString(start) == Count(start, Quote) % 2 = 1

\* Comments between /* and */ on one line.
RemoveComments[line \in Seq(STRING)] ==
    LET starts == Positions(line, "/*")
        ends   == {e \in Positions(line, "*/") : \E s \in starts : s < e}
    IN IF ends = {} THEN line
       ELSE RemoveComments[Before(line, Min(starts)) \o After(line, Min(ends))]

CleanseComments(line) ==
    LET marks == Positions(line, "//")
    IN RemoveComments[IF marks # {} /\ ~IsCppString(Before(line, Min(marks)))
                        THEN Before(line, Min(marks)) ELSE line]

IsInclude(line) == First(line) = "#include"

CollapseQuotes[line \in Seq(STRING)] ==
    LET quotes == Positions(line, Quote)
    IN IF Cardinality(quotes) < 2 THEN line
       ELSE LET i == Min(quotes)
                j == Min(quotes \ {i})
            IN Before(line, i) \o EmptyString \o CollapseQuotes[After(line, j)]

CollapseStrings(line) == IF IsInclude(line) THEN line ELSE CollapseQuotes[line]

\* Mutant: comments are looked for before strings are collapsed.
CleansedLines_CommentsFirst(lines) ==
    LET unraw == CleanseRawStrings(lines)
    IN [raw    |-> lines,
        unraw  |-> unraw,
        lines  |-> [i \in DOMAIN unraw |-> CleanseComments(unraw[i])],
        elided |-> [i \in DOMAIN unraw |->
                      CollapseStrings(CleanseComments(unraw[i]))]]

\* The four copies of a file. Comments over several lines are gone from all.
CleansedLines(lines) ==
    LET unraw == CleanseRawStrings(lines)
    IN [raw    |-> lines,
        unraw  |-> unraw,
        lines  |-> [i \in DOMAIN unraw |-> CleanseComments(unraw[i])],
        elided |-> [i \in DOMAIN unraw |->
                      CleanseComments(CollapseStrings(unraw[i]))]]

\* CheckForMultilineCommentsAndStrings: the warning that what is read may
\* not be what is there.
ComplexComment(line) == Count(line, "/*") > Count(line, "*/")
ComplexString(line) == Count(line, Quote) % 2 = 1
=============================================================================
