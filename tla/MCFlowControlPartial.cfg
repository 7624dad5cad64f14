CONSTANTS
  Streams = {"s1", "s2"}
  MaxWindow = 4
  ConnWindow = 4
  MaxFrame = 3
  MaxSettings = 1
  MaxQueue = 2
  Setups <- PartialSetups
SPECIFICATION Spec
INVARIANTS NoFlowControlError
CHECK_DEADLOCK FALSE
