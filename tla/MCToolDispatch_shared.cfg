SPECIFICATION Spec
CONSTANTS
  c1 = c1
  c2 = c2
  i1 = i1
  t1 = t1
  t2 = t2
  Calls = {c1, c2}
  Invocations = {i1}
  Tools = {t1, t2}
  InvOf <- Shared
  ToolOf <- OwnTool
  Asking = {c1}
  MaxAttempts = 2
  MaxVersion = 1
CHECK_DEADLOCK FALSE
INVARIANTS LiveLeaseAuthorized RefusedNeverRan NothingLeaked RunningIsLeased
PROPERTY PromiseKept
