\* Two workers on two one-pixel units, two frames.
CONSTANTS
  w1 = w1
  w2 = w2
  Calls = {"write"}
  Workers <- Team
  unitsx = 2
  unitsy = 1
  uwidth = 1
  uheight = 1
  MaxFrame = 2
  MaxPass = 1
SPECIFICATION FairSpec
PROPERTY FrameReachesUnits
