----------------------------- MODULE LintReport -----------------------------
(***************************************************************************)
(* What cpplint does with an error it finds: comments in the linted file   *)
(* (NOLINT), the verbosity and the filters decide whether it is printed    *)
(* and counted. The state is global: it outlives the file that is linted.  *)
(*                                                                         *)
(* A category has a short name here; Category gives its parts, of which a  *)
(* filter names the first ones: -build/include filters build/include_order *)
(* as well.                                                                *)
(***************************************************************************)
EXTENDS LintText

Category ==
    [copyright             |-> <<"legal", "copyright">>,
     header_guard          |-> <<"build", "header_guard">>,
     include               |-> <<"build", "include">>,
     include_order         |-> <<"build", "include", "_order">>,
     include_alpha         |-> <<"build", "include", "_alpha">>,
     class                 |-> <<"build", "class">>,
     namespaces            |-> <<"build", "namespaces">>,
     multiline_comment     |-> <<"readability", "multiline_comment">>,
     multiline_string      |-> <<"readability", "multiline_string">>,
     constructors          |-> <<"readability", "constructors">>,
     fn_size               |-> <<"readability", "fn_size">>,
     namespace             |-> <<"readability", "namespace">>,
     nolint                |-> <<"readability", "nolint">>,
     utf8                  |-> <<"readability", "utf8">>,
     nul                   |-> <<"readability", "nul">>,
     indentation_namespace |-> <<"runtime", "indentation_namespace">>,
     indent                |-> <<"whitespace", "indent">>,
     tab                   |-> <<"whitespace", "tab">>,
     line_length           |-> <<"whitespace", "line_length">>,
     newline               |-> <<"whitespace", "newline">>,
     ending_newline        |-> <<"whitespace", "ending_newline">>]
Categories == DOMAIN Category
LegacyCategories == {"streams"}

\* A filter: its sign ("" if it was left out) and the beginning of a category.
Filter(sign, pattern) == [sign |-> sign, pattern |-> pattern]
DefaultFilters == <<Filter("-", Category["include_alpha"])>>

VARIABLES
    filters,       \* the filters in force, the last that matches decides
    backup,        \* the filters before the file that is linted
    verbose,       \* the least confidence that is printed
    counting,      \* "total", "toplevel" or "detailed"
    suppressions,  \* pairs of a category, or "*", and a line of the file
    printed,       \* what was printed: run, line, category, confidence
    byCategory     \* the errors counted by category, or by its first part

reportVars == <<filters, backup, verbose, counting, suppressions, printed,
                byCategory>>

ReportInit ==
    /\ filters = DefaultFilters
    /\ backup = DefaultFilters
    /\ verbose = 1
    /\ counting = "total"
    /\ suppressions = {}
    /\ printed = <<>>
    /\ byCategory = <<>>

-----------------------------------------------------------------------------

\* AddFilters dies of a filter without a sign, be it new or not.
Signed(list) == \A i \in DOMAIN list : list[i].sign \in {"+", "-"}

BackupFilters == backup' = filters

\* Mutant: what a configuration file added stays in force for the next file.
RestoreFilters_Keeps == filters' = filters
RestoreFilters == filters' = backup

IsFiltered(category) ==
    LET matching == {i \in DOMAIN filters :
                       IsPrefix(filters[i].pattern, Category[category])}
    IN matching # {} /\ filters[Max(matching)].sign = "-"

\* A step that reads or forgets NOLINT comments does so before it reports.
IsErrorSuppressedByNolint(category, n) ==
    \E name \in {category, "*"} : <<name, n>> \in suppressions'

ShouldPrintError(category, confidence, n) ==
    /\ ~IsErrorSuppressedByNolint(category, n)
    /\ confidence >= verbose
    /\ ~IsFiltered(category)

\* An error as a check finds it, and the list of it if it is one.
Found(n, category, confidence) ==
    [line |-> n, category |-> category, confidence |-> confidence]
If(condition, error) == IF condition THEN <<error>> ELSE <<>>

\* What an error is counted under, if it is.
Counted(category) ==
    CASE counting = "toplevel" -> {<<Head(Category[category])>>}
      [] counting = "detailed" -> {Category[category]}
      [] OTHER -> {}

\* The errors of one step go through Error one by one; run numbers the file.
Report(run, errors) ==
    LET Shown(e) == ShouldPrintError(e.category, e.confidence, e.line)
        shown == FlattenSeq([i \in DOMAIN errors |-> If(Shown(errors[i]), errors[i])])
        keys  == UNION {Counted(shown[i].category) : i \in DOMAIN shown}
        Of(key) == Cardinality({i \in DOMAIN shown : key \in Counted(shown[i].category)})
        Already(key) == IF key \in DOMAIN byCategory THEN byCategory[key] ELSE 0
    IN /\ printed' = printed \o
             [i \in DOMAIN shown |-> [run |-> run, line |-> shown[i].line,
                                      category |-> shown[i].category,
                                      confidence |-> shown[i].confidence]]
       /\ byCategory' = [key \in DOMAIN byCategory \cup keys |-> Already(key) + Of(key)]

-----------------------------------------------------------------------------
(* ParseNolintSuppressions                                                 *)

NolintAt(raw) == {i \in DOMAIN raw : raw[i] \in {"NOLINT", "NOLINTNEXTLINE"}}

\* The category that is named in parentheses after the first NOLINT of a
\* line: "*" if there is none.
NolintCategory(raw) ==
    LET at == Min(NolintAt(raw))
    IN IF at + 3 <= Len(raw) /\ raw[at + 1] = "(" /\ raw[at + 3] = ")"
         THEN raw[at + 2] ELSE "*"

Nolint(raw, n) ==
    IF NolintAt(raw) # {} /\ NolintCategory(raw) \in Categories \cup {"*"}
      THEN {<<NolintCategory(raw),
              IF raw[Min(NolintAt(raw))] = "NOLINT" THEN n ELSE n + 1>>}
      ELSE {}

UnknownNolint(raw, n) ==
    If(/\ NolintAt(raw) # {}
       /\ NolintCategory(raw) \notin Categories \cup LegacyCategories \cup {"*"},
       Found(n, "nolint", 5))

\* Mutant: the suppressions of a file are kept for the next one.
AfterReset_Keeps == suppressions
AfterReset == {}

ReportTypeOK ==
    /\ \A list \in {filters, backup} : \A i \in DOMAIN list :
         list[i].sign \in {"+", "-", ""}
    /\ verbose \in Int
    /\ \A s \in suppressions : s[1] \in Categories \cup {"*"} /\ s[2] \in Nat
    /\ \A i \in DOMAIN printed : printed[i].category \in Categories
    /\ \A key \in DOMAIN byCategory : byCategory[key] \in Nat \ {0}
=============================================================================
