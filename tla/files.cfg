SPECIFICATION AllSpec
CONSTANTS
  Dot = "."
  Undotted = ".."
  Names = {"f"}
  File = "f"
  NoName = "none"
  DevNull = "null"
  TooExpensive = {1, 99}
INVARIANTS
  Minimal
  Patches
  TreeKept
PROPERTIES
  OnlyInside
CHECK_DEADLOCK FALSE
