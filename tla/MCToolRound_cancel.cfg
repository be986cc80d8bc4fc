SPECIFICATION FairSpec
CONSTANTS
  CallCount = 3
  Limit = 2
  CandidateSlots = 1
  ApprovalSlots = 1
  MaxAttempts = 2
  Candidates = {1, 2}
  Clash <- MCClash
  ReturnDenied = TRUE
  Inputs = {"reject", "deny", "ask", "ask-again", "throws", "changed", "stale", "late-stale", "refused", "revoked", "deferred", "bad-checkpoint", "abort"}
INVARIANT RoundEnds
PROPERTIES ParkStops CancelEnds
