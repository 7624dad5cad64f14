CONSTANTS
  Streams = {"s1", "s2"}
  MaxWindow = 4
  ConnWindow = 3
  MaxFrame = 2
  MaxSettings = 1
  MaxQueue = 2
  Setups <- ZeroSetups
SPECIFICATION Spec
INVARIANTS NoZeroUpdate
CHECK_DEADLOCK FALSE
