SPECIFICATION FairSpec
CONSTANTS
  b1 = b1
  b2 = b2
  Backups = {b1}
  Age <- MCAge
  NoHolder = NoHolder
  Grace = 1
  Identities = {TRUE, FALSE}
  MaxActs = 2
  MaxLost = 1
CHECK_DEADLOCK FALSE
INVARIANTS CompletedIsOnePair DeletedLeavesNothing
PROPERTIES BackupEnds
