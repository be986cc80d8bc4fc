SPECIFICATION Spec
CONSTANTS
  Runs = {1, 2, 3}
  Keys = {"A", "B"}
  KeyOf <- MCTwoAndOne
  DeferredMax = 1
  MaxFlushes = 2
  MaxFaults = 2
  MaxCrashes = 1
  None = None
CHECK_DEADLOCK FALSE
INVARIANTS SentOnce WaitingAgrees
PROPERTY NewestWins
