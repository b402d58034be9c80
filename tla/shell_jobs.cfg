SPECIFICATION Spec
CONSTANTS
  MaxPid = 2
  PruneAt = 2
  PruneTo = 1
  MaxCmds = 5
  MaxEvents = 1
INVARIANTS
  TableTrue
  ChildrenKept
PROPERTIES
  WaitEnds
CHECK_DEADLOCK FALSE
