\* Every file may fail to open, every write may fail.
CONSTANTS
  x = x
  y = y
  Text = {x, y}
  Files <- Some
  Troubles = {"open", "full"}
SPECIFICATION Spec
INVARIANTS
  Divided
  Combined
  PartsBegin
