CONSTANTS
  a = a
  b = b
  m1 = m1
  m2 = m2
  RouteCall = {a, b}
  MultiCall = {m1, m2}
  MayMissRecords = TRUE
  MaxCalls = 2
  MaxFaults = 1
  Runner = {r1, r2}
  PlanSize = 3
  ScaleBatch = 2
  CreateChunk = 2
  ScaleSweeps = 3
  MaxRunnerDeaths = 1
  Deliverer = {w1, w2}
  MaxEntries = 2
  DeliverLimit = 1
  MaxAttempts = 2
  MaxReplays = 1
  MaxSlow = 1
  MaxWorkerDeaths = 1
SPECIFICATION RecoverySpec
INVARIANTS
  RecoveryTypeOK
  SettledIsConsistent
  LockKeptWhileRunning
  FailClosed
  ScaleProgressSound
  DuplicatesExplained
PROPERTIES
  MultiPassRecovers
  OutboxSettles
CHECK_DEADLOCK FALSE
