\* One unit of two inputs, written and reformed during the passes.
CONSTANTS
  w1 = w1
  w2 = w2
  Calls = {"write", "reform"}
  Workers <- Alone
  unitsx = 1
  unitsy = 1
  uwidth = 1
  uheight = 2
  MaxFrame = 2
  MaxPass = 2
SPECIFICATION Spec
INVARIANTS FrameLandsInPlace CollectRegular ActiveLinksSettled ReformRegular
PROPERTY UnitsMoveForward
