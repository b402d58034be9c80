SPECIFICATION AllSpec
CONSTANTS
  Thousands = {44}
INVARIANTS
  
  SedRight
  XargsRight
  MacrosRight
CHECK_DEADLOCK FALSE
