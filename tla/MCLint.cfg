CONSTANTS
  Jobs <- LintJobs
  Header <- Headers
  ShortNamespace = 3
  NormalTrigger = 1
  TestTrigger = 2
  LineLength = 80
  TopLines = 2
SPECIFICATION Spec
INVARIANTS TypeOK BracesAreCode BracketsPair DepthIsBraces IncludeOrder DuplicateOnPath FiltersRestored SameVerdict GateHonest
PROPERTIES FirstBranch Progresses
