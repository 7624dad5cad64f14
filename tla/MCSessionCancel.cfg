CONSTANT Setups <- CancelSetups
SPECIFICATION Spec
INVARIANTS NoResetOfIdle
CHECK_DEADLOCK FALSE
