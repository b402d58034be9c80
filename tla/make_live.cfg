\* Two goals, a signal at any moment, forks that fail, tokens that other makes never give back.
SPECIFICATION Spec
CONSTANTS
  a = a
  b = b
  c = c
  Node <- MCNode
  Wait = Wait
  NoNode = NoNode
  Token = {t1}
  NoToken = NoToken
  Makefiles <- Few
  Goals <- GoalsAB
  Options <- OptionsRun
  Start = 1
  MaxTime = 2
  Signals = TRUE
  ForkFails = TRUE
INVARIANTS
  SignalCleanup
PROPERTIES
  Termination
