SPECIFICATION FairSpec
CONSTANTS
  Runs = {1, 2}
  Keys = {"A", "B"}
  KeyOf <- MCOneEach
  DeferredMax = 1
  MaxFlushes = 2
  MaxFaults = 2
  MaxCrashes = 1
  None = None
CHECK_DEADLOCK FALSE
PROPERTY RunTold
