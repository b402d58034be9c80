\* at, atd, crontab and crond that are killed and whose calls fail.
SPECIFICATION FaultsSpec
CONSTANTS
  Sub = {s1, s2}
  Queue <- Batch
  Remover = {r}
  Atd = {d, o}
  Once = {o}
  None = None
  MaxTime = 1
  MaxCrashes = 2
  TornCounter = FALSE
  AtdCrashes = TRUE
  ForkFails = TRUE
  OpenFails = FALSE
  alice = alice
  bob = bob
  crontab = crontab
  NoText = NoText
  Users <- Both
  Texts <- ThreeTexts
  Table <- PairTwice
  Crontab = {crontab}
  Requests <- Replace
  OptS = {TRUE, FALSE}
  CatchUp = 2
  LastMinute = 3
  MayKill <- Killed
  MaxFail = 1
  MayJump = FALSE
SYMMETRY Submissions
INVARIANTS
  
  CronTrue
PROPERTIES
  JobsKept
\* crond -s ends
CHECK_DEADLOCK FALSE
