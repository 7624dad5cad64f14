CONSTANTS
  Streams = {"s1", "s2"}
  MaxWindow = 4
  ConnWindow = 3
  MaxFrame = 2
  MaxSettings = 1
  MaxQueue = 2
  Setups <- SafetySetups
SPECIFICATION Spec
INVARIANTS TypeOK StreamConservation DeferredOnlyWhenBlocked
PROPERTIES  ConnectionWindow
CHECK_DEADLOCK FALSE
