SPECIFICATION Spec
CONSTANTS
  s1 = s1
  s2 = s2
  Sessions = {s1, s2}
  MaxMail = 2
  MaxOpens = 2
  MaxMailCommands = 2
  MaxFaults = 1
  MaxLines = 3
  MaxCommands = 4
SYMMETRY SwapSessions
INVARIANTS
  
  EdUndoes
  ExUndoes
  
PROPERTIES
  GlobalComplete
CHECK_DEADLOCK FALSE
