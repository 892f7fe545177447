SPECIFICATION FairSpec
CONSTANTS
  Slots = {s1}
  Clients = {}
  Jobs = {j1, j2}
  Backend = "redis"
  Attempts = 2
  MaxStalls = 1
  MaxFaults = 2
CHECK_DEADLOCK FALSE
INVARIANTS StampCommits
PROPERTIES JobsSettle
