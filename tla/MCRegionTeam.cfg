\* Two workers on two columns of two one-pixel units, one frame.
CONSTANTS
  w1 = w1
  w2 = w2
  Calls = {"write"}
  Workers <- Team
  unitsx = 2
  unitsy = 2
  uwidth = 1
  uheight = 1
  MaxFrame = 1
  MaxPass = 2
SYMMETRY Symmetry
SPECIFICATION Spec
INVARIANTS TypeOK ExclusiveUnit PassesComplete
