SPECIFICATION FairSpec
CONSTANTS
  p1 = p1
  p2 = p2
  Places = {p1, p2}
  Home = p1
  None = None
  MaxActs = 2
  MaxLost = 1
CHECK_DEADLOCK FALSE
INVARIANTS RollbackIsCovered RolledBackAlone GoneLeavesNoWriter
PROPERTIES ErasesOnlyMatched DeletionEnds RollbackEnds
