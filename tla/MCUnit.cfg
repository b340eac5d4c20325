CONSTANTS
  unitsx = 1
  unitsy = 1
  uwidth = 2
  uheight = 1
  ONE = 10
  threshold = 2
  rate = 2
  linklimit = 4
  Falloff <- Narrow
  Patterns <- Frames
SPECIFICATION Spec
INVARIANTS TypeOK BestMatchLoudest WinnerTakesAll LearningIsLocal
