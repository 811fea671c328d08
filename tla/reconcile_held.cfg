CONSTANTS
  RouteCall = {}
  MultiCall = {m1}
  MayMissRecords = FALSE
  MaxCalls = 1
  MaxFaults = 0
SPECIFICATION ReconSpec
INVARIANT HeldIsNotCompleted
CHECK_DEADLOCK FALSE
