CONSTANTS
  NoWorker = NoWorker
  MaxRetries = 2
  AttemptCap = 3
  s1 = s1
  s2 = s2
  s3 = s3
  u1 = u1
  u2 = u2
  Steppers = {s1, s2, s3}
  UserIds = {u1, u2}
  UserOf <- OneUser
  MaxConcurrentSteps = 2
  Total = 3
  ChunkSizes = {1, 2}
  MayCancel = FALSE
  MayExpire = FALSE
  UniqueKeys = FALSE
  InsertMayFail = FALSE
  HandlerMayThrow = FALSE
SPECIFICATION FairSpec
PROPERTY StepsFinishJob
CHECK_DEADLOCK FALSE
