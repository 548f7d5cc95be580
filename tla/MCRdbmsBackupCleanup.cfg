SPECIFICATION FairSpec
CONSTANTS
  b1 = b1
  b2 = b2
  Backups = {b1}
  Age <- MCAge
  NoHolder = NoHolder
  Grace = 1
  Identities = {TRUE}
  MaxActs = 0
  MaxLost = 0
CHECK_DEADLOCK FALSE
PROPERTIES DeletionEnds
