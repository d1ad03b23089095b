SPECIFICATION Spec
CONSTANTS
  Reader = {r1, r2}
  MaxRead = 3
  Horizon = 8
  NoReader = NoReader
SYMMETRY Symmetry
INVARIANTS TypeOK WindowRate
CHECK_DEADLOCK FALSE
