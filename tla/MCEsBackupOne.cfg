SPECIFICATION FairSpec
CONSTANTS
  e1 = e1
  e2 = e2
  Backups = {e1}
  Age <- MCAge
  NoHolder = NoHolder
  UnreachableBound = 1
  ResumeBound = 1
  MaxClusters = 2
  MaxConfig = 2
  MaxSuspensions = 1
  Obstacles = {"client", "refused", "moved"}
  MaxFailures = 1
CHECK_DEADLOCK FALSE
INVARIANTS PauseHasOwner CompletedIsConsistent CleanDeletionIsComplete
PROPERTIES PausedIsResumed DeletionEnds
