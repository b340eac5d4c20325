CONSTANTS
  c1 = c1
  c2 = c2
  Clients <- Two
  Retries = 2
  MaxCalls = 2
  MaxSessions = 1
  MaxStarts = 2
  MaxErrors = 1
CHECK_DEADLOCK FALSE
SPECIFICATION FairSpec
PROPERTIES CallEnds InboxDrains
