\* timeout; at and crond to the end.
SPECIFICATION LiveSpec
CONSTANTS
  Options <- AllOptions
  Passed = {"TERM", "HUP"}
  Asked = {"TERM", "HUP"}
  MayStop = TRUE
  s1 = s1
  s2 = s2
  alice = alice
  bob = bob
  crontab = crontab
  None = None
  NoText = NoText
INVARIANTS
  TimeoutTrue
PROPERTIES
  InOrder
  Served
\* timeout ends
CHECK_DEADLOCK FALSE
