CONSTANTS
  NoWorker = NoWorker
  MaxRetries = 2
  AttemptCap = 3
  s1 = s1
  s2 = s2
  s3 = s3
  u1 = u1
  u2 = u2
  Steppers = {s1, s2}
  UserIds = {u1, u2}
  UserOf <- OneUser
  MaxConcurrentSteps = 4
  Total = 3
  ChunkSizes = {1, 2}
  MayCancel = FALSE
  MayExpire = FALSE
  UniqueKeys = TRUE
  InsertMayFail = FALSE
  HandlerMayThrow = FALSE
SPECIFICATION Spec
INVARIANT CheckpointCovered
CHECK_DEADLOCK FALSE
