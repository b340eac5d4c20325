CONSTANTS
  Jobs <- ConfigJobs
  Header <- Headers
  ShortNamespace = 3
  NormalTrigger = 1
  TestTrigger = 2
  LineLength = 80
  TopLines = 2
SPECIFICATION Spec
INVARIANT NestedLengthWins
