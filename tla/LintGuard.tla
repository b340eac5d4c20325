------------------------------ MODULE LintGuard ------------------------------
(***************************************************************************)
(* The guard of a header, CheckForHeaderGuard of cpplint: the first        *)
(* #ifndef and the first #define name a variable, the last #endif repeats  *)
(* it in a comment.                                                        *)
(*                                                                         *)
(* "GUARD" stands for the variable that the path of the file at hand asks  *)
(* for (GetHeaderGuardCPPVariable), "GUARD_" for the same with one more    *)
(* underscore, which is tolerated. "#if" with a name after it is #ifndef.  *)
(* lines are those without comments over several lines and raw strings;    *)
(* the marker before the file is their first.                              *)
(***************************************************************************)
EXTENDS LintReport

Guards == {"GUARD", "GUARD_"}

\* The comment that turns the check off, wherever in the file it is.
GuardOff(lines) ==
    \E i \in DOMAIN lines :
      Occurs(<<"//", "NOLINT", "(", "header_guard", ")">>, lines[i]) # {}

\* The first line with a directive and a name, the marker if there is none.
FirstNamed(lines, directive) ==
    LET named == {i \in DOMAIN lines :
                    First(lines[i]) = directive /\ Len(Strip(lines[i])) > 1}
    IN IF named = {} THEN 1 ELSE Min(named)
IfndefAt(lines) == FirstNamed(lines, "#if")
DefineAt(lines) == FirstNamed(lines, "#define")
NameAt(lines, i) == Strip(lines[i])[2]

EndifAt(lines) ==
    LET ends == {i \in DOMAIN lines : IsPrefix(<<"#endif">>, lines[i])}
    IN IF ends = {} THEN 1 ELSE Max(ends)

IsGuarded(lines) ==
    /\ 1 \notin {IfndefAt(lines), DefineAt(lines)}
    /\ NameAt(lines, IfndefAt(lines)) = NameAt(lines, DefineAt(lines))

HasComments(lines) ==
    \E i \in 2 .. Len(lines) - 1 : \E p \in Positions(lines[i], "//") :
      ~IsCppString(Before(lines[i], p))

\* Whether the last #endif names the variable; comments between /* and */ are
\* for files without any others.
EndifNames(lines, guard) ==
    LET endif == lines[EndifAt(lines)]
    IN \/ IsPrefix(<<"#endif", "//", guard>>, endif)
       \/ ~HasComments(lines) /\ IsPrefix(<<"#endif", "/*", guard, "*/">>, endif)

IfndefErrors(lines) ==
    LET name == NameAt(lines, IfndefAt(lines))
    IN If(name # "GUARD",
          Found(IfndefAt(lines), "header_guard", IF name = "GUARD_" THEN 0 ELSE 5))
EndifErrors(lines) ==
    If(~EndifNames(lines, "GUARD"),
       Found(EndifAt(lines), "header_guard",
             IF EndifNames(lines, "GUARD_") THEN 0 ELSE 5))

\* The lines of the guard may be long.
IsGuardLine(tokens) ==
    \E guard \in Guards :
      \/ IsPrefix(<<"#if", guard>>, tokens)
      \/ IsPrefix(<<"#define", guard>>, tokens)
      \/ IsPrefix(<<"#endif", "//", guard>>, tokens)
=============================================================================
