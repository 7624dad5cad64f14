CONSTANTS
  MaxWindow = 4
  InitWindow = 3
SPECIFICATION Spec
INVARIANTS TypeOK ErrorOnlyMidFrame Conservation
CHECK_DEADLOCK FALSE
