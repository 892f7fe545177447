SPECIFICATION Spec
CONSTANTS
  Slots = {s1, s2}
  Clients = {}
  Jobs = {j1, j2}
  Backend = "redis"
  Attempts = 2
  MaxStalls = 1
  MaxFaults = 1
SYMMETRY Symmetry
CHECK_DEADLOCK FALSE
INVARIANTS TypeOK ReadsRespectCompletion FallbackServesCached JobsHeldOnce
PROPERTIES ImplementsResultStore
