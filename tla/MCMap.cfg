SPECIFICATION FairSpec
CONSTANTS
  MaxInputs = 6
  Concurrency = 3
  MayReject = TRUE
CHECK_DEADLOCK FALSE
INVARIANTS TypeOK MappedOnce ResolvedComplete
PROPERTIES Settles
