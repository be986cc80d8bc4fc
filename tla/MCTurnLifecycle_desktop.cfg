SPECIFICATION FairSpec
CONSTANTS
  Turns = {"t1", "t2"}
  SessionOf <- MCShared
  FactKinds = {"delta", "usage", "tool-result", "confirm-requested"}
  Outcomes = {"completed", "failed", "commit-uncertain"}
  Canonical = {"completed", "cancelled", "recovered"}
  Timeouts = FALSE
  WakeRecovers = FALSE
  MaxFacts = 2
  MaxFaults = 0
  MaxCrashes = 1
  MaxReplays = 1
INVARIANTS
  OneAtATime
  Agree
PROPERTIES
  FactsStored
  KeepsPromise
  CancelStands
  StoppedSettles
