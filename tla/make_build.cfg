\* Every kind of graph, rule, line and mode, with -j 2 and a pool shared with other makes.
SPECIFICATION Spec
CONSTANTS
  a = a
  b = b
  c = c
  Node <- MCNode
  Wait = Wait
  NoNode = NoNode
  Token = {t1}
  NoToken = NoToken
  Makefiles <- Makes
  Goals <- GoalsBA
  Options <- OptionsAll
  Start = 2
  MaxTime = 3
  Signals = FALSE
  ForkFails = FALSE
INVARIANTS
  TypeOK
  PrereqsDone
  TokensConserved
  OneSlotEach
  Orderly
  VerdictTrue
PROPERTIES
  StopOnError
