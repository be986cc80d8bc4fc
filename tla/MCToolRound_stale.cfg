SPECIFICATION Spec
CONSTANTS
  CallCount = 3
  Limit = 2
  CandidateSlots = 2
  ApprovalSlots = 2
  MaxAttempts = 2
  Candidates = {1, 2}
  Clash <- MCClash
  ReturnDenied = TRUE
  Inputs = {"late-stale"}
INVARIANT ClosedOnce
