SPECIFICATION FairSpec
CONSTANTS
  Clients = {c1, c2}
  Types = {t1, t2}
  Signals = {sigint, sigterm}
  HasWorker = TRUE
  Concurrency = 2
  MaxJobs = 3
  MaxEvents = 1
CHECK_DEADLOCK FALSE
INVARIANTS TypeOK GracefulExit
PROPERTIES SubscribersServed ThrowsOnlyWhileConnected ShutdownExits
