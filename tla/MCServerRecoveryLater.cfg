SPECIFICATION ServerSpec
CONSTANTS
  r1 = r1
  r2 = r2
  Requests = {r1, r2}
  NoRequest = NoRequest
  MaxArchives = 2
  MaxServerActs = 0
  MaxFaults = 0
CHECK_DEADLOCK FALSE
INVARIANTS CompletedAnswersTheRequest
