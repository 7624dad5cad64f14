CONSTANT Setups <- RetentionSetups
SPECIFICATION Spec
INVARIANTS RetentionAsDocumented
CHECK_DEADLOCK FALSE
