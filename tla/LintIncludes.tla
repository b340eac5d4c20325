---------------------------- MODULE LintIncludes ----------------------------
(***************************************************************************)
(* The #include lines of a file: _IncludeState, _ClassifyInclude and       *)
(* CheckIncludeLine of cpplint.                                            *)
(*                                                                         *)
(* A file name is its directory, its stem (the parts between hyphens and   *)
(* underscores) and its extension. A header is a name with what the #include *)
(* line and the alphabet say of it; an #include line holds it as one token.  *)
(***************************************************************************)
EXTENDS LintReport

CONSTANT Header       \* from the tokens of headers to [dir, stem, ext, system,
                      \* cpp, thirdParty, order]

Name(header) == [dir |-> header.dir, stem |-> header.stem, ext |-> header.ext]

ASSUME HeaderAssumption == \A token \in DOMAIN Header : Header[token].order \in Nat

\* Whose header it is, is told from its name.
ASSUME ThirdPartyAssumption ==
    \A t, u \in DOMAIN Header :
      Name(Header[t]) = Name(Header[u]) => Header[t].thirdParty = Header[u].thirdParty

VARIABLES
    includeList,   \* a list of the headers included for every #if so far
    section,       \* the last kind of header, in the order they should have
    lastHeader     \* the place in the alphabet of the last header, 0 if none

includeVars == <<includeList, section, lastHeader>>

InitialSection == 0
MyHSection == 1
CSection == 2
CppSection == 3
OtherHSection == 4

IncludeInit == includeList = <<<<>>>> /\ section = InitialSection /\ lastHeader = 0
IncludeReset == includeList' = <<<<>>>> /\ section' = InitialSection /\ lastHeader' = 0

-----------------------------------------------------------------------------
(* _ClassifyInclude                                                        *)

DropCommonSuffixes(name) ==
    LET suffixes == {"test", "regtest", "unittest"} \X {"cc"}
                      \cup {"inl", "impl", "internal"} \X {"h"}
    IN IF Len(name.stem) > 1 /\ <<Last(name.stem), name.ext>> \in suffixes
         THEN Front(name.stem) ELSE name.stem

\* The headers of dir may lie in a directory public beside it.
PublicOf(dir) == Append(IF dir = <<>> THEN dir ELSE Front(dir), "public")

ClassifyInclude(file, header) ==
    LET mine == DropCommonSuffixes(file)
        its  == DropCommonSuffixes(Name(header))
    IN CASE header.system -> IF header.cpp THEN "cpp system" ELSE "c system"
         [] /\ ~header.system
            /\ mine = its
            /\ header.dir \in {file.dir, PublicOf(file.dir)} -> "likely mine"
         [] /\ ~header.system
            /\ ~(mine = its /\ header.dir \in {file.dir, PublicOf(file.dir)})
            /\ Head(mine) = Head(its) -> "possibly mine"
         [] OTHER -> "other"

-----------------------------------------------------------------------------
(* _IncludeState                                                           *)

\* The section that a kind of header belongs to, from where the file is.
SectionOf(kind) ==
    CASE kind = "c system"   -> CSection
      [] kind = "cpp system" -> CppSection
      [] kind \in {"likely mine", "possibly mine"} ->
           IF section <= MyHSection THEN MyHSection ELSE OtherHSection
      [] OTHER -> OtherHSection

\* Mutant: a header that comes too late takes the file back to its section.
NextSection_Back(kind) == SectionOf(kind)

\* CheckNextIncludeOrder: a header of an earlier section is an error, and
\* leaves the section as it is.
NextSection(kind) ==
    IF SectionOf(kind) < section THEN section ELSE SectionOf(kind)

OutOfOrder(kind) == SectionOf(kind) < section

\* IsInAlphabeticalOrder looks at the line before only to see whether it is
\* an #include, and at the header last recorded in this section.
KeptHeader(kind) ==
    IF OutOfOrder(kind) \/ NextSection(kind) # section THEN 0 ELSE lastHeader

FindHeader(name) ==
    \E i \in DOMAIN includeList : \E j \in DOMAIN includeList[i] :
       includeList[i][j].name = name

\* Mutant: #else takes the list of the branch before it away for good.
ResetLists_DropsList(directive) ==
    CASE directive = "#if"   -> Append(includeList, <<>>)
      [] directive = "#else" -> Front(includeList)
      [] OTHER -> includeList

\* Mutant: the headers of the branch before an #else stay recorded.
ResetLists_KeepsBranch(directive) ==
    CASE directive = "#if"   -> Append(includeList, <<>>)
      [] OTHER -> includeList

\* ResetSection: #endif takes no list away, so an outer #else clears the list
\* of the last #if inside its branch.
ResetLists(directive) ==
    CASE directive = "#if"   -> Append(includeList, <<>>)
      [] directive = "#else" -> Append(Front(includeList), <<>>)
      [] OTHER -> includeList

ResetSection(directive) ==
    /\ includeList' = ResetLists(directive)
    /\ section' = InitialSection
    /\ lastHeader' = 0

-----------------------------------------------------------------------------
(* CheckIncludeLine                                                        *)

IncludesHeader(line) ==
    /\ IsInclude(line)
    /\ Len(Strip(line)) >= 2
    /\ Strip(line)[2] \in DOMAIN Header
HeaderOf(line) == Header[Strip(line)[2]]

\* Source files of another directory are not included.
Foreign(file, header) == header.ext = "cc" /\ header.dir # file.dir

\* Whether an #include is recorded, and its order looked at.
Records(file, header) ==
    ~FindHeader(Name(header)) /\ ~Foreign(file, header) /\ ~header.thirdParty

\* line has its comments taken out but not its strings, of which those in a
\* comment may hide an #include that is seen without strings. before is the
\* line before, which should be an #include as well for the alphabet to matter.
IncludeErrors(line, n, file, before) ==
    LET header == HeaderOf(line)
        kind   == ClassifyInclude(file, header)
    IN IF ~IncludesHeader(line) THEN <<>> ELSE
       If(/\ Head(line) = "#include" /\ ~header.system
          /\ header.dir = <<>> /\ header.ext = "h" /\ ~header.thirdParty,
          Found(n, "include", 4))
         \o If(FindHeader(Name(header)) \/ Foreign(file, header),
               Found(n, "include", 4))
         \o If(Records(file, header) /\ OutOfOrder(kind),
               Found(n, "include_order", 4))
         \o If(/\ Records(file, header)
               /\ KeptHeader(kind) > header.order
               /\ IsInclude(before),
               Found(n, "include_alpha", 4))

Include(line, n, file) ==
    LET header == HeaderOf(line)
        kind   == ClassifyInclude(file, header)
    IN IF ~IncludesHeader(line) \/ ~Records(file, header) THEN UNCHANGED includeVars
       ELSE /\ includeList' = Append(Front(includeList),
                  Append(Last(includeList), [name |-> Name(header), line |-> n]))
            /\ section' = NextSection(kind)
            /\ lastHeader' = header.order

-----------------------------------------------------------------------------
(* CheckHeaderFileIncluded, for files with the extension cc: the header of *)
(* the same name, if it exists, is included. One path is found in another  *)
(* directory by directory here.                                            *)

OwnHeader(file) == [file EXCEPT !.ext = "h"]
IsTest(file) == Len(file.stem) > 1 /\ Last(file.stem) \in {"test", "unittest"}

IsWithin(name, other) ==
    name.stem = other.stem /\ name.ext = other.ext /\ IsSuffix(name.dir, other.dir)

\* All headers that are recorded, the one of the first line first.
Recorded == FlattenSeq(includeList)

MissesOwnHeader(file, files) ==
    LET own == OwnHeader(file)
    IN If(/\ file.ext = "cc" /\ ~IsTest(file) /\ own \in files
          /\ \A i \in DOMAIN Recorded :
               /\ ~IsWithin(Recorded[i].name, own)
               /\ ~IsWithin(own, Recorded[i].name),
          Found(IF Recorded = <<>> THEN 1 ELSE Head(Recorded).line, "include", 5))

IncludeTypeOK ==
    /\ includeList # <<>>
    /\ \A i \in DOMAIN includeList : \A j \in DOMAIN includeList[i] :
         includeList[i][j].line \in Nat
    /\ section \in InitialSection .. OtherHSection
    /\ lastHeader \in Nat
=============================================================================
