SPECIFICATION FairSpec
CONSTANTS
  Messages = {m1, m2, m3}
  MaxDrains = 2
  QueueMax = 2
  MaxRetries = 1
  MaxCrashes = 1
  None = None
CHECK_DEADLOCK FALSE
INVARIANT NothingStranded
PROPERTIES Drained KeepsQueue
