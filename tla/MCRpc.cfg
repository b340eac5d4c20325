CONSTANTS
  c1 = c1
  c2 = c2
  Clients <- Two
  Retries = 1
  MaxCalls = 2
  MaxSessions = 2
  MaxStarts = 2
  MaxErrors = 0
SYMMETRY Symmetry
CHECK_DEADLOCK FALSE
SPECIFICATION Spec
INVARIANTS TypeOK AtMostOnce ReplyAnswersCall OneCopy
PROPERTY KeepsPromise
