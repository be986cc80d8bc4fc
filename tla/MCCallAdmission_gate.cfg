SPECIFICATION FairSpec
CONSTANTS
  d1 = d1
  d2 = d2
  d3 = d3
  a1 = a1
  a2 = a2
  Requests = {d1, d2, d3, a1, a2}
  Lanes = {"desktop", "automation"}
  Lane <- MCLane
  Priority <- MCPriority
  LaneMax <- MCLaneMax
  Patient = {d1, d2, a1, a2}
  GlobalMax = 2
  BackgroundMax = 1
  QueueLimit = 2
  MaxFaults = 1
  MaxCrashes = 1
CHECK_DEADLOCK FALSE
INVARIANTS Counted WithinLimits NoSlotLost NobodyIdles
PROPERTIES NoOvertaking EveryWaiterAnswered
