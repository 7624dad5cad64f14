CONSTANT Setups <- GoawaySetups
SPECIFICATION Spec
PROPERTIES GoawayNeverIncreases
CHECK_DEADLOCK FALSE
