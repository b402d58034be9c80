SPECIFICATION AllSpec
CONSTANTS
  Grammars <- MCGrammars
  MaxInput = 8
  Scanners <- MCScanners
  Conditions = {"INITIAL", "S"}
  Chars = {"a", "b", "nl"}
  Newline = "nl"
  MaxText = 5
  MaxCalls = 2
INVARIANTS
  ParserRight
  
PROPERTIES
  Recovers
CHECK_DEADLOCK FALSE
