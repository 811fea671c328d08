CONSTANTS
  Messages = {m1, m2, m3}
  Workers = {w1, w2}
  MaxRetries = 2
  BatchSize = 2
  MaxIdleLoops = 2
  PendingLimit = 1
  MayExpire = TRUE
  HandlerMayThrow = FALSE
  MayCrash = FALSE
SPECIFICATION RunsSpec
PROPERTIES
  AllStaged
  RunEnds
CHECK_DEADLOCK FALSE
