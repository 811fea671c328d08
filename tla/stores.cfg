CONSTANTS
  NoWorker = NoWorker
  NoPartition = NoPartition
  NoSettlement = NoSettlement
  s1 = s1
  s2 = s2
  s3 = s3
  u1 = u1
  u2 = u2
  Settlements = {s1, s2, s3}
  Utrs = {u1, u2}
  UtrOf <- SharedUtr
  Workers = {w1, w2}
  Partitions = {p1, p2}
  VersionCap = 4
  MayReRegister = FALSE
  DirectUtrs = {u1}
  Consumer = {c1, c2}
  Producer = {d1, d2}
  PartitionCount = 2
  HighWatermark = 1
  LowWatermark = 0
  QueueRetries = 2
  PollLimit = 1
  PublishSize = 1
  MaxEvents = 2
  MaxRebalances = 3
  n1 = n1
  n2 = n2
  n3 = n3
  host1 = host1
  host2 = host2
  Enqueuer = {n1, n2, n3}
  Process = {host1, host2}
  ProcessOf <- TwoHosts
  MaxDbErrors = 2
  MaxLostReplies = 1
  CacheLimit = 2
  StoreLimit = 3
  ReplayLimit = 2
  MaxPublished = 4
  MaxReconnects = 3
  Batches <- AllBatches
  ScalePaths = {TRUE, FALSE}
  ClusterMaxItems = 6
  MaxGroupSize = 3
  MaxCandidates = 4
  MaxGroups = 10
  Requests <- AllRequests
  CandidatesCap = 3
  PolicySplit = 3
SPECIFICATION StoresSpec
SYMMETRY Symmetry
INVARIANTS
  StoresTypeOK
  SingleConsumption
  CommitFenced
  LiveLeaseHeld
  BackpressureSound
  IdempotentEnqueue
  GapOnlyWhenExcused
  MatchesSound
  GroupsSound
  AccountedFor
  SolverAnswersHold
CHECK_DEADLOCK FALSE
