SPECIFICATION Spec
CONSTANTS
  CallCount = 3
  Limit = 2
  CandidateSlots = 1
  ApprovalSlots = 1
  MaxAttempts = 2
  Candidates = {1, 2}
  Clash <- MCClash
  ReturnDenied = FALSE
  Inputs = {"verify-only", "deny", "ask", "ask-again", "throws", "changed", "stale", "revoked", "append-fails", "abort"}
INVARIANTS ToldOnce TerminalFits NoOverlap
PROPERTIES DrainFirst
