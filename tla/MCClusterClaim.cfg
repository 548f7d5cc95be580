SPECIFICATION FairSpec
CONSTANTS
  b1 = b1
  b2 = b2
  Claimants = {b1, b2}
  KnownKinds = {b1, b2}
  NoLease = NoLease
  Unreadable = Unreadable
  MaxFailures = 2
  MaxForeign = 1
CHECK_DEADLOCK FALSE
PROPERTIES PendingClaimKept ImplementsExclusiveUse PendingGetsCluster
