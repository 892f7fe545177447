SPECIFICATION Spec
CONSTANTS
  Slots = {s1, s2}
  Events = {e1, e2}
  MaxRetries = 3
  MaxLosses = 2
CHECK_DEADLOCK FALSE
INVARIANTS TypeOK AnnouncedAfterWritten CountedWerePublished OneMessagePerConnection
PROPERTIES SavesSettle
