CONSTANTS
  Messages = {m1, m2, m3}
  Workers = {w1, w2}
  MaxRetries = 2
  BatchSize = 2
  MaxIdleLoops = 2
  PendingLimit = 1
  Streaming = TRUE
  MayExpire = TRUE
  HandlerMayThrow = TRUE
  MayCrash = TRUE
SPECIFICATION Spec
SYMMETRY Symmetry
INVARIANTS
  DeliveryBound
PROPERTY CompletedIsFinal
CHECK_DEADLOCK FALSE
