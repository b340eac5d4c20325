\* Two pictures of two pixels, three events.
CONSTANTS
  Size = 2
  Length = 2
  MaxEvents = 3
CHECK_DEADLOCK FALSE
SPECIFICATION FairSpec
INVARIANTS TypeOK ScreenIsWhole SentWholeAfterPrediction FreedWhenUnused
PROPERTY QuitReturns
