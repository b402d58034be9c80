SPECIFICATION MCSpec
CONSTANTS
  a = a
  b = b
  ann = ann
  bob = bob
  Users <- MCUsers
  Requests <- MCRequests
  MaxCmds = 4
  MaxFaults = 1
SYMMETRY Symmetry
INVARIANTS
  VersionsKept
  FileKept
PROPERTIES
  WorkKept
CHECK_DEADLOCK FALSE
