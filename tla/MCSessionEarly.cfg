CONSTANT Setups <- EarlySetups
SPECIFICATION Spec
INVARIANTS NoHalfOpenLeft
CHECK_DEADLOCK FALSE
