CONSTANTS
  Streams = {"s1", "s2"}
  MaxWindow = 7
  ConnWindow = 3
  MaxFrame = 2
  MaxSettings = 1
  MaxQueue = 2
  Setups <- LiveSetups
SPECIFICATION FairSpec
PROPERTIES AllDelivered
CHECK_DEADLOCK FALSE
