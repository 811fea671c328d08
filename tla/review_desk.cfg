CONSTANTS
  r1 = r1
  r2 = r2
  ai = ai
  Appender = {r1, r2, e1}
  InTx = {r1, r2}
  Admin = {r1}
  AIActor = {ai}
  Payload <- WorkflowPayload
  AppendRetries = 2
  MayLoseReply = TRUE
  MaxRows = 8
  MaxLog = 7
  TargetsOf <- Targets
  Reviewer = {v1, v2}
  Amount = {0, 1, 2}
  RecordVersion = {1, 2}
  AnyVersion = 0
  MaxProposals = 2
  DraftName = {d1, d2}
  Default = v0
  Person = {p1, p2}
  Override = co
  MaxPolicies = 3
SPECIFICATION DeskSpec
INVARIANTS
  ChainVerifies
  AnswersHold
  AuditWalk
  ResolvedWasVerified
  LineageMatchesAudit
  ApprovalsSound
  InForceIsSound
PROPERTY
  ChainIsLog
CHECK_DEADLOCK FALSE
