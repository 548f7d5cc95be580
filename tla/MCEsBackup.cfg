SPECIFICATION Spec
CONSTANTS
  e1 = e1
  e2 = e2
  Backups = {e1, e2}
  Age <- MCAge
  NoHolder = NoHolder
  UnreachableBound = 1
  ResumeBound = 0
  MaxClusters = 1
  MaxConfig = 1
  MaxSuspensions = 0
  Obstacles = {"refused"}
  MaxFailures = 1
CHECK_DEADLOCK FALSE
INVARIANTS PausedWhileTaken SomePendingGoesFirst
