SPECIFICATION FairSpec
CONSTANTS
  r1 = r1
  r2 = r2
  Restores = {r1, r2}
  None = None
  Last = 0
  MaxFaults = 1
CHECK_DEADLOCK FALSE
INVARIANTS TypeOK NeverOverHalfRestored NoPodUnderBrokers WriterCoversRecovery
PROPERTIES WrittenVolumesKept ImplementsExclusiveUse RestoreEnds CompletedRunsAgain
