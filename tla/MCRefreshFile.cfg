SPECIFICATION Spec
CONSTANTS
  Slots = {s1, s2}
  Clients = {c1}
  Jobs = {j1, j2}
  Backend = "file"
  Attempts = 1
  MaxStalls = 1
  MaxFaults = 0
SYMMETRY Symmetry
INVARIANTS ReadsRespectCompletion
