SPECIFICATION Spec
CONSTANTS
  Turns = {"t1", "t2"}
  SessionOf <- MCApart
  FactKinds = {"delta", "usage", "tool-result", "confirm-requested"}
  Outcomes = {"completed", "parked", "failed", "cancelled", "timed-out", "recovered", "commit-uncertain"}
  Canonical = {"completed", "cancelled", "recovered"}
  Timeouts = TRUE
  WakeRecovers = TRUE
  MaxFacts = 1
  MaxFaults = 2
  MaxCrashes = 1
  MaxReplays = 0
INVARIANTS
  NothingLost
PROPERTIES
  StoredGrows
CHECK_DEADLOCK FALSE
