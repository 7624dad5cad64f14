CONSTANTS
  MaxWeight = 2
  DefaultWeight = 1
  MaxLen = 1
  Setups <- SafetySetups
SPECIFICATION Spec
INVARIANTS TreeShape WeightSum QueuedIffSendable EarliestFirst BoundedLag
CHECK_DEADLOCK FALSE
