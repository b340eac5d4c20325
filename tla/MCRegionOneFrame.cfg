\* A writer against one unit of two inputs.
CONSTANTS
  w1 = w1
  w2 = w2
  Calls = {"write"}
  Workers <- Alone
  unitsx = 1
  unitsy = 1
  uwidth = 1
  uheight = 2
  MaxFrame = 2
  MaxPass = 1
SPECIFICATION Spec
INVARIANT UnitSeesOneFrame
