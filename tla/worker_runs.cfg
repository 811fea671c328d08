CONSTANTS
  NoWorker = NoWorker
  NoJob = NoJob
  MaxRetries = 2
  AttemptCap = 3
  j1 = j1
  Jobs = {j1, j2}
  Workers = {w1, w2}
  MayExpire = FALSE
  MayCancel = FALSE
  MayCrash = FALSE
  MayReplay = FALSE
  DbMayFail = FALSE
SPECIFICATION RunsSpec
PROPERTIES
  OrphansReclaimed
  CalmJobsFinish
  BatchFollowsJob
CHECK_DEADLOCK FALSE
