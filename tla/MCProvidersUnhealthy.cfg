SPECIFICATION FairSpec
CONSTANTS
  Calls = {c1}
  P = 1
  MaxRetries = 1
  HttpRetries = 0
  Methods <- MCMethods
  MaxBackground = 1
CHECK_DEADLOCK FALSE
PROPERTIES SkipsUnhealthy
