\* Escape and another key in one turn of the loop.
CONSTANTS
  Size = 1
  Length = 1
  MaxEvents = 2
CHECK_DEADLOCK FALSE
SPECIFICATION FairSpec
PROPERTY EscapeQuits
