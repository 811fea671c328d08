CONSTANTS
  NoWorker = NoWorker
  NoJob = NoJob
  MaxRetries = 2
  AttemptCap = 3
  Jobs = {j1}
  Workers = {w1, w2}
  MayExpire = TRUE
  MayCancel = TRUE
  MayCrash = TRUE
  MayReplay = TRUE
  DbMayFail = TRUE
SPECIFICATION Spec
SYMMETRY Symmetry
INVARIANTS
  CancelBlocksExecution
  ClaimFencing
CHECK_DEADLOCK FALSE
