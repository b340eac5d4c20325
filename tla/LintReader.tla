----------------------------- MODULE LintReader -----------------------------
(***************************************************************************)
(* A reader of C++ that goes over a file once, token by token, and knows   *)
(* which braces are code: what the passes of cpplint over every line       *)
(* (LintText) should leave.                                                *)
(***************************************************************************)
EXTENDS LintText

IsBrace(token) == token \in {"{", "}"}
Braces(text) ==
    LET braces[i \in 0 .. Len(text)] ==
          IF i = 0 THEN <<>>
          ELSE IF IsBrace(text[i]) THEN Append(braces[i-1], text[i])
          ELSE braces[i-1]
    IN braces[Len(text)]

\* The reader: in what it is, what to remember of the token before, whether
\* there was an #include on the line, and the braces of the line that are code.
\* It is "odd" for good after what the program does not claim to understand.
Reader(mode) == [mode |-> mode, last |-> "", names |-> FALSE, braces |-> <<>>]

LastAfter(q, token) ==
    IF q.last = "R" /\ token = Quote THEN "opening"
    ELSE IF token \in {"R", ")"} THEN token
    ELSE ""

\* Marks of comments that are read although they are in a string, since the
\* names of headers are strings that are kept.
Kept(q, token) ==
    q.names /\ (IsBrace(token) \/ token \in {"//", "/*", "*/"})

\* A comment is "quoted" after an odd number of quotes, a "block" if it was
\* begun on an earlier line.
ModeAfter(q, token) ==
    CASE q.last = "opening" /\ token = "(" /\ q.mode = "string" -> "raw"
      [] q.last = "opening" /\ token = "(" /\ q.mode \notin {"string", "block"} -> "odd"
      [] q.mode = "code" /\ token = Quote -> "string"
      [] q.mode = "code" /\ token = "//" -> "line"
      [] q.mode = "code" /\ token = "/*" -> "comment"
      [] q.mode = "code" /\ token = "*/" -> "odd"
      [] q.mode = "string" /\ token = Quote -> "code"
      [] q.mode = "string" /\ Kept(q, token) -> "odd"
      [] q.mode = "comment" /\ token = "*/" -> "code"
      [] q.mode = "comment" /\ token = Quote -> "quoted"
      [] q.mode = "quoted" /\ token = Quote -> "comment"
      [] q.mode = "quoted" /\ (token = "*/" \/ Kept(q, token)) -> "odd"
      [] q.mode = "block" /\ token = "*/" -> "after"
      [] q.mode = "after" -> "odd"
      [] q.mode = "raw" /\ token = Quote /\ q.last = ")" -> "code"
      [] OTHER -> q.mode

ReadToken(q, token) ==
    [mode   |-> ModeAfter(q, token),
     last   |-> LastAfter(q, token),
     names  |-> q.names \/ (q.mode = "code" /\ token = "#include"),
     braces |-> IF q.mode = "code" /\ IsBrace(token)
                  THEN Append(q.braces, token) ELSE q.braces]

ReadTokens(q, text) ==
    LET state[i \in 0 .. Len(text)] ==
          IF i = 0 THEN q ELSE ReadToken(state[i-1], text[i])
    IN state[Len(text)]

ReadLine(mode, text) == ReadTokens(Reader(mode), text)

\* Lines that the program does not claim to understand: a string that goes on
\* after the end of the line, a comment that does and has code before it, a
\* raw string that does after others, one with a line that begins a comment.
OddLine(mode, text) ==
    LET end == ReadLine(mode, text).mode
    IN \/ end = "string"
       \/ end \in {"comment", "quoted"} /\ ~OpensComment(text)
       \/ end = "raw" /\ \E i, j \in RawOpeners(text) : i # j
       \/ mode = "raw" /\ OpensComment(text)

NextMode(mode, text) ==
    LET end == ReadLine(mode, text).mode
    IN IF OddLine(mode, text) THEN "odd"
       ELSE IF end \in {"line", "after"} THEN "code"
       ELSE IF end \in {"comment", "quoted"} THEN "block"
       ELSE end

\* In what the reader is after every line.
Modes(lines) ==
    LET mode[n \in 0 .. Len(lines)] ==
          IF n = 0 THEN "code" ELSE NextMode(mode[n-1], lines[n])
    IN mode

CodeBraces(lines, n) == ReadLine(Modes(lines)[n-1], lines[n]).braces

Plain(lines) == Modes(lines)[Len(lines)] = "code"
=============================================================================
