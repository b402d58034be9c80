SPECIFICATION Spec
CONSTANTS
  Fuel = 8
INVARIANTS
  AsMeant
  Restored
CHECK_DEADLOCK FALSE
