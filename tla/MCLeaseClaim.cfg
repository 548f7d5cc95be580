SPECIFICATION FairSpec
CONSTANTS
  d1 = d1
  d2 = d2
  d3 = d3
  Claimants = {d1, d2, d3}
  Stale <- MCStale
  Keys = {k1, k2}
  k1 = k1
  k2 = k2
  Age <- MCAge
  NoLease = NoLease
  Foreign = Foreign
  NoKey = NoKey
  MaxMoves = 1
  MaxFaults = 1
CHECK_DEADLOCK FALSE
PROPERTIES HolderKeeps ImplementsOneOwner NamedKeyIsServed
