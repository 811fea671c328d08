-------------------------- MODULE PartitionCluster --------------------------
(***************************************************************************)
(* PartitionWorker and the two run loops of the cluster orchestrator       *)
(* (src/lib/reconciliation/distributed/worker.ts and orchestrator.ts) over *)
(* the queue of PartitionQueue: a producer enqueues the partitions of a    *)
(* run, workers claim batches of them, reconcile each one, acknowledge it, *)
(* and stage the results of the batch at its end; the run reads the staged *)
(* results when all workers have left their loop.                          *)
(*                                                                         *)
(* Streaming selects the loop: runStreamingReconciliation, whose workers   *)
(* run while the producer does and leave when the metrics say that nothing *)
(* is pending or running, or runReconciliation, whose workers start after  *)
(* the producer and leave after MaxIdleLoops polls without a result.       *)
(* Neither loop calls renewLease.                                          *)
(***************************************************************************)
EXTENDS PartitionQueue

CONSTANTS
  Workers,
  BatchSize,        \* maxLeases of one claim
  MaxIdleLoops,     \* runUntilDrained's default argument
  PendingLimit,     \* the producer waits above this pendingCount
  Streaming,        \* which of the two loops runs
  MayExpire,        \* a batch may take longer than its leases
  HandlerMayThrow,  \* reconciling a partition may throw
  MayCrash          \* a worker may die (storage failing in stageResults, say)

ASSUME ClusterAssumption ==
  /\ {BatchSize, MaxIdleLoops} \subseteq Nat \ {0}
  /\ PendingLimit \in Nat
  /\ {Streaming, MayExpire, HandlerMayThrow, MayCrash} \subseteq BOOLEAN

VARIABLES
  wk,      \* each worker's place, leases to process, results and idle polls
  staged   \* how often a result of each message's partition was staged

vars == <<msg, pending, active, wk, staged>>

\* done: the worker has left its loop; dead: it was lost.
WorkerState ==
  [pc : {"poll", "work", "done", "dead"}, todo : SUBSET Lease,
   results : SUBSET Messages, idle : 0..MaxIdleLoops]

PollingWorker == [pc |-> "poll", todo |-> {}, results |-> {}, idle |-> 0]

TypeOK ==
  /\ QueueTypeOK
  /\ wk \in [Workers -> WorkerState]
  /\ staged \in [Messages -> 0..2]

Init ==
  /\ QueueInit
  /\ wk = [w \in Workers |-> PollingWorker]
  /\ staged = [m \in Messages |-> 0]

-----------------------------------------------------------------------------
At(w, label) == wk[w].pc = label

ProducerDone == \A m \in Messages : msg[m].status # "UNSENT"

\* The producer, a partition at a time, with the streaming loop's backpressure
\* guard.  The guard's wait after the last partition is left out: workers leave
\* at a pendingCount of 0, which ends it.
Produce(m) ==
  /\ Streaming => PendingCount <= PendingLimit
  /\ Enqueue(m)
  /\ UNCHANGED <<wk, staged>>

\* processBatch up to its first await that matters: the claim.
ClaimBatch(w) ==
  /\ At(w, "poll")
  /\ Streaming \/ ProducerDone
  /\ \E cut \in 0..Len(pending) :
       /\ IsCut(cut, BatchSize)
       /\ \E visited \in VisitSets(BatchSize - Cardinality(TakenUpTo(cut))) :
            /\ ClaimLeases(cut, visited)
            /\ wk' = [wk EXCEPT ![w].pc = "work",
                                ![w].todo = ClaimedLeases(cut, visited)]
  /\ UNCHANGED staged

\* The partition is reconciled, its result kept and its lease acknowledged; the
\* answer of ackLease is not looked at.
ProcessLease(w) ==
  \E l \in wk[w].todo :
    /\ At(w, "work")
    /\ AckLease(l)
    /\ wk' = [wk EXCEPT ![w].todo = @ \ {l}, ![w].results = @ \cup {l.message}]
    /\ UNCHANGED staged

FailLease(w) ==
  \E l \in wk[w].todo :
    /\ HandlerMayThrow
    /\ At(w, "work")
    /\ NackLease(l)
    /\ wk' = [wk EXCEPT ![w].todo = @ \ {l}]
    /\ UNCHANGED staged

\* What the streaming loop reads from getMetrics.
Drained == ProducerDone /\ PendingCount = 0 /\ RunningLeases = 0

\* A batch without a result counts as an idle poll, whatever the reason.
IdleLoops(w) == IF wk[w].results = {} THEN wk[w].idle + 1 ELSE 0

\* Mutant: the streaming loop looks at the metrics only after it did some work.
LeavesLoopWorking(w) ==
  IF Streaming
    THEN wk[w].results # {} /\ Drained
    ELSE IdleLoops(w) >= MaxIdleLoops

LeavesLoop(w) ==
  IF Streaming
    THEN wk[w].results = {} /\ Drained
    ELSE IdleLoops(w) >= MaxIdleLoops

\* Mutant: the results of the batch are not staged.
StagedNothing(results) == staged

StagedWith(results) ==
  [m \in Messages |-> IF m \in results /\ staged[m] < 2
                        THEN staged[m] + 1 ELSE staged[m]]

\* The end of processBatch, stageResults, and the loop's decision to go on.
EndBatch(w) ==
  /\ At(w, "work")
  /\ wk[w].todo = {}
  /\ staged' = StagedWith(wk[w].results)
  /\ wk' = [wk EXCEPT ![w] =
              [PollingWorker EXCEPT
                 !.pc = IF LeavesLoop(w) THEN "done" ELSE "poll",
                 !.idle = IF Streaming THEN 0 ELSE IdleLoops(w)]]
  /\ UNCHANGED queue

Crash(w) ==
  /\ MayCrash
  /\ At(w, "work")
  /\ wk' = [wk EXCEPT ![w] = [PollingWorker EXCEPT !.pc = "dead"]]
  /\ UNCHANGED <<queue, staged>>

TimePasses(m) ==
  /\ \/ MayExpire /\ LeaseExpires(m)
     \/ BackoffOver(m)
  /\ UNCHANGED <<wk, staged>>
-----------------------------------------------------------------------------
WorkerStep(w) == ClaimBatch(w) \/ ProcessLease(w) \/ FailLease(w) \/ EndBatch(w)

Next ==
  \/ \E m \in Messages : Produce(m) \/ TimePasses(m)
  \/ \E w \in Workers : WorkerStep(w) \/ Crash(w)

Spec == Init /\ [][Next]_vars

\* The event loop serves every worker and the producer, and time passes.
FairSpec ==
  /\ Spec
  /\ \A w \in Workers : WF_vars(WorkerStep(w))
  /\ \A m \in Messages : WF_vars(Produce(m)) /\ WF_vars(TimePasses(m))

-----------------------------------------------------------------------------
(* Safety *)

\* activeLeases holds exactly the running messages: an expired lease is always
\* found by the slow path, and never that of a message that is done.
ActiveIsRunning == \A m \in Messages : m \in active <=> msg[m].status = "RUNNING"

\* A message is delivered at most maxRetries + 1 times, through nacks, expired
\* leases and late nacks of stolen leases together.
DeliveryBound == \A m \in Messages : msg[m].claims <= MaxRetries + 1

\* Acknowledged work is never delivered again or dead-lettered.
CompletedIsFinal ==
  [][\A m \in Messages :
       msg[m].status = "COMPLETED" => msg'[m].status = "COMPLETED"]_vars

(* Liveness *)

AllLeft == \A w \in Workers : At(w, "done") \/ At(w, "dead")

\* The run ends.
RunEnds == <>AllLeft

\* Every partition's result is staged.
AllStaged == \A m \in Messages : <>(staged[m] > 0)

-----------------------------------------------------------------------------
(* Promised by the files' headers and not kept; README.md says when. *)

\* No partition has two results among those the run's report is made from.
StagedOnce == \A m \in Messages : staged[m] <= 1

\* "At-least-once delivery": a waiting message is still in the pending queue.
PendingIsQueued ==
  \A m \in Messages :
    msg[m].status = "PENDING" => \E i \in DOMAIN pending : pending[i] = m

\* The lease of a message that is being processed in time ends only with an
\* answer from the worker that holds it.
HolderEndsLease ==
  [][\A m \in Messages :
       msg[m].status = "RUNNING" /\ msg[m].expires = "live"
         /\ msg'[m].status # "RUNNING"
         => \E w \in Workers :
              [message |-> m, id |-> msg[m].lease] \in wk[w].todo \ wk'[w].todo]_vars
=============================================================================
