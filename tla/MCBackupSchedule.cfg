SPECIFICATION FairSpec
CONSTANTS
  Kinds = {1, 2}
  MaxTriggers = 2
  Retained <- MCRetained
  MaxActs = 2
CHECK_DEADLOCK FALSE
INVARIANTS OneRunning
PROPERTIES PrunesOldestEnded RetentionHolds
