---------------------------- MODULE MCClusterRuns ----------------------------
(* Both run loops of PartitionCluster in one model-checking instance:      *)
(* which of them a behaviour is one of is chosen at the start.  No worker  *)
(* dies here (Crash, MayCrash): with a death AllStaged fails.              *)
EXTENDS Naturals

CONSTANTS Messages, Workers, MaxRetries, BatchSize, MaxIdleLoops, PendingLimit,
          MayExpire, HandlerMayThrow, MayCrash

VARIABLES msg, pending, active, wk, staged,
          loop  \* runReconciliation ("batch") or runStreamingReconciliation ("stream")

Batch == INSTANCE PartitionCluster WITH Streaming <- FALSE
Stream == INSTANCE PartitionCluster WITH Streaming <- TRUE

RunsInit == loop \in {"batch", "stream"} /\ Batch!Init

BatchWorker(w) == loop = "batch" /\ Batch!WorkerStep(w)
StreamWorker(w) == loop = "stream" /\ Stream!WorkerStep(w)
BatchProducer(m) == loop = "batch" /\ Batch!Produce(m)
StreamProducer(m) == loop = "stream" /\ Stream!Produce(m)

RunsNext ==
  /\ UNCHANGED loop
  /\ \/ \E w \in Workers : BatchWorker(w) \/ StreamWorker(w)
     \/ \E m \in Messages : BatchProducer(m) \/ StreamProducer(m) \/ Batch!TimePasses(m)

\* The fairness of FairSpec, for either loop.
RunsSpec ==
  /\ RunsInit /\ [][RunsNext]_<<Batch!vars, loop>>
  /\ \A w \in Workers : WF_(Batch!vars)(BatchWorker(w)) /\ WF_(Batch!vars)(StreamWorker(w))
  /\ \A m \in Messages :
       /\ WF_(Batch!vars)(BatchProducer(m)) /\ WF_(Batch!vars)(StreamProducer(m))
       /\ WF_(Batch!vars)(Batch!TimePasses(m))

\* The properties of PartitionCluster, which do not mention the loop.

\* Every partition's result is staged.
AllStaged == Batch!AllStaged

\* The run ends.
RunEnds == Batch!RunEnds
=============================================================================
