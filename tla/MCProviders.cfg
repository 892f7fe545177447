SPECIFICATION FairSpec
CONSTANTS
  Calls = {c1, c2}
  P = 2
  MaxRetries = 1
  HttpRetries = 1
  Methods <- MCMethods
  MaxBackground = 1
CHECK_DEADLOCK FALSE
INVARIANTS TypeOK GivenUpAfterAllRetries CountersExact ResponsesGenuine
PROPERTIES CallsSettle
