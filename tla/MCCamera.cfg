\* Three frames of three pixels.
CONSTANTS
  Size = 3
  MaxFrames = 3
CHECK_DEADLOCK FALSE
SPECIFICATION FairSpec
INVARIANTS TypeOK SentSpansTwo NoFrameDropped
PROPERTY QuitEnds
