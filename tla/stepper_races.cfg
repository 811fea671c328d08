CONSTANTS
  NoWorker = NoWorker
  MaxRetries = 2
  AttemptCap = 3
  s1 = s1
  s2 = s2
  s3 = s3
  u1 = u1
  u2 = u2
  Steppers = {s1, s2}
  UserIds = {u1, u2}
  UserOf <- TwoUsers
  MaxConcurrentSteps = 2
  Total = 3
  ChunkSizes = {1, 2}
  MayCancel = TRUE
  MayExpire = TRUE
  UniqueKeys = FALSE
  InsertMayFail = FALSE
  HandlerMayThrow = TRUE
SPECIFICATION Spec
INVARIANTS
  CheckpointCovered
  CancelBlocksExecution
  InFlightExact
CHECK_DEADLOCK FALSE
