SPECIFICATION FairServer
CONSTANTS
  r1 = r1
  r2 = r2
  Requests = {r1, r2}
  NoRequest = NoRequest
  MaxArchives = 2
  MaxServerActs = 1
  MaxFaults = 1
CHECK_DEADLOCK FALSE
INVARIANTS ServerTypeOK DataKept CompletedHoldsThePoint
PROPERTIES RequestAnswered EndsOnItsData
