-------------------------- MODULE DurableJobWorker --------------------------
(***************************************************************************)
(* DistributedJobWorker of src/lib/workers/durable-job-worker.ts and the   *)
(* operations that run beside it on the same AsyncJob rows: the            *)
(* cancellation request of the API, the stalled-job sweep of the job list  *)
(* route and the dead-letter replay.  Each of these is a sequence of       *)
(* separate database statements; the steps of different processes          *)
(* interleave between any two of them.                                     *)
(*                                                                         *)
(* The model is of the PostgreSQL deployment.  The process-local mirror    *)
(* (localMemoryQueue) is empty in a process that did not enqueue the job.  *)
(* JobItem rows are written by no production caller and are left out.      *)
(***************************************************************************)
EXTENDS JobTable

CONSTANTS
  Jobs,
  Workers,
  NoJob,       \* the job of a worker between two jobs
  MayExpire,   \* leases may run out (a worker is slow, paused or dead)
  MayCancel,   \* users request cancellations
  MayCrash,    \* worker processes may die
  MayReplay,   \* administrators replay dead letters
  DbMayFail    \* a statement inside a try/catch {} may fail and be swallowed

ASSUME WorkerAssumption ==
  /\ NoWorker \notin Workers
  /\ NoJob \notin Jobs
  /\ {MayExpire, MayCancel, MayCrash, MayReplay, DbMayFail} \subseteq BOOLEAN

VARIABLES
  job,       \* the AsyncJob rows
  batch,     \* the status of the Batch row each job's payload names
  wk,        \* each worker's place in its loop and its local variables
  stopped,   \* workers whose stop() was called
  cancelPc,  \* the cancellation request in progress for each job
  sweep      \* rows selected by the sweep and not yet updated: id -> attempt

vars == <<job, batch, wk, stopped, cancelPc, sweep>>

Attempts == 0..AttemptCap

\* No row selected.
NoRow == AttemptCap + 1

BatchStatus == {"PROCESSING", "COMPLETED", "CANCELLED"}

Labels == {"idle", "handler", "check", "complete", "completeBatch",
           "cancel", "cancelBatch", "failRead", "failWrite"}

\* The id and the attempt number of the record claimNextJob returned, the
\* class of the error being reported and the attempt number failJob has read.
WorkerState ==
  [pc : Labels, held : Jobs \cup {NoJob}, claim : Attempts,
   class : FailureClass, seen : Attempts]

IdleWorker ==
  [pc |-> "idle", held |-> NoJob, claim |-> 0, class |-> "TRANSIENT", seen |-> 0]

TypeOK ==
  /\ job \in [Jobs -> JobRow(Workers)]
  /\ batch \in [Jobs -> BatchStatus]
  /\ wk \in [Workers -> WorkerState]
  /\ \A w \in Workers : wk[w].pc # "idle" => wk[w].held \in Jobs
  /\ stopped \in SUBSET Workers
  /\ cancelPc \in [Jobs -> {"idle", "write", "batch"}]
  /\ sweep \in [Jobs -> Attempts \cup {NoRow}]

Init ==
  /\ job = [j \in Jobs |-> NewJob]
  /\ batch = [j \in Jobs |-> "PROCESSING"]
  /\ wk = [w \in Workers |-> IdleWorker]
  /\ stopped = {}
  /\ cancelPc = [j \in Jobs |-> "idle"]
  /\ sweep = [j \in Jobs |-> NoRow]

-----------------------------------------------------------------------------
(* The worker loop: DistributedJobWorker.start *)

At(w, label) == wk[w].pc = label

Goto(w, label) == wk' = [wk EXCEPT ![w].pc = label]

\* The finally block: the job in hand is dropped, the loop polls again.
Done(w) == wk' = [wk EXCEPT ![w] = IdleWorker]

\* claimNextJob: FOR UPDATE SKIP LOCKED lets a worker pass over a row another
\* transaction has locked, so any claimable row may be the one returned.
ClaimNextJob(w) ==
  \E j \in Jobs :
    /\ At(w, "idle")
    /\ w \notin stopped
    /\ Claimable(job[j])
    /\ job' = [job EXCEPT ![j] = Claimed(@, w)]
    /\ wk' = [wk EXCEPT ![w] = [IdleWorker EXCEPT !.pc = "handler", !.held = j,
                                   !.claim = Claimed(job[j], w).attempt]]
    /\ UNCHANGED <<batch, stopped, cancelPc, sweep>>

\* The setInterval callback, alive from the claim to the finally block.
Heartbeat(w) ==
  /\ ~At(w, "idle")
  /\ w \notin stopped
  /\ job' = [job EXCEPT ![wk[w].held] = Renewed(@, w)]
  /\ UNCHANGED <<batch, wk, stopped, cancelPc, sweep>>

HandlerReturns(w) ==
  /\ At(w, "handler")
  /\ Goto(w, "check")
  /\ UNCHANGED <<job, batch, stopped, cancelPc, sweep>>

HandlerThrows(w) ==
  \E c \in FailureClass :
    /\ At(w, "handler")
    /\ wk' = [wk EXCEPT ![w].pc = "failRead", ![w].class = c]
    /\ UNCHANGED <<job, batch, stopped, cancelPc, sweep>>

\* checkCancellationRequested; a failing read answers FALSE.
CheckCancellation(w) ==
  /\ At(w, "check")
  /\ \/ CancelSeen(job[wk[w].held]) /\ Goto(w, "cancel")
     \/ ~CancelSeen(job[wk[w].held]) /\ Goto(w, "complete")
     \/ DbMayFail /\ Goto(w, "complete")
  /\ UNCHANGED <<job, batch, stopped, cancelPc, sweep>>

\* completeJob, first statement.  Whether or not a row matched, and even when
\* the statement failed, the code goes on to the batch.
CompleteJob(w) ==
  /\ At(w, "complete")
  /\ \/ job' = [job EXCEPT ![wk[w].held] = Completed(@, w)]
     \/ DbMayFail /\ job' = job
  /\ Goto(w, "completeBatch")
  /\ UNCHANGED <<batch, stopped, cancelPc, sweep>>

\* completeJob, last statement: prisma.batch.update.
CompleteBatch(w) ==
  /\ At(w, "completeBatch")
  /\ \/ batch' = [batch EXCEPT ![wk[w].held] = "COMPLETED"]
     \/ DbMayFail /\ batch' = batch
  /\ Done(w)
  /\ UNCHANGED <<job, stopped, cancelPc, sweep>>

\* cancelJob, first statement; a failure skips the batch too.
CancelJob(w) ==
  /\ At(w, "cancel")
  /\ \/ /\ job' = [job EXCEPT ![wk[w].held] = Cancelled(@)]
        /\ Goto(w, "cancelBatch")
     \/ DbMayFail /\ job' = job /\ Done(w)
  /\ UNCHANGED <<batch, stopped, cancelPc, sweep>>

CancelBatch(w) ==
  /\ At(w, "cancelBatch")
  /\ \/ batch' = [batch EXCEPT ![wk[w].held] = "CANCELLED"]
     \/ DbMayFail /\ batch' = batch
  /\ Done(w)
  /\ UNCHANGED <<job, stopped, cancelPc, sweep>>

\* failJob, first statement: findUnique.
FailRead(w) ==
  /\ At(w, "failRead")
  /\ \/ wk' = [wk EXCEPT ![w].pc = "failWrite",
                         ![w].seen = AttemptRead(job[wk[w].held])]
     \/ DbMayFail /\ Done(w)
  /\ UNCHANGED <<job, batch, stopped, cancelPc, sweep>>

\* failJob, second statement: updateMany where { id }.
FailWrite(w) ==
  /\ At(w, "failWrite")
  /\ \/ job' = [job EXCEPT ![wk[w].held] = Failed(@, wk[w].seen, wk[w].class)]
     \/ DbMayFail /\ job' = job
  /\ Done(w)
  /\ UNCHANGED <<batch, stopped, cancelPc, sweep>>

\* The process dies between two statements; a replacement polls with its id.
Crash(w) ==
  /\ MayCrash
  /\ ~At(w, "idle")
  /\ Done(w)
  /\ UNCHANGED <<job, batch, stopped, cancelPc, sweep>>

\* stop(): the heartbeat ends at once, the job in hand is finished.
Stop(w) ==
  /\ MayCrash
  /\ w \notin stopped
  /\ stopped' = stopped \cup {w}
  /\ UNCHANGED <<job, batch, wk, cancelPc, sweep>>

-----------------------------------------------------------------------------
(* requestJobCancellation, as the owning tenant's API call runs it *)

RequestCancellation(j) ==
  /\ MayCancel
  /\ cancelPc[j] = "idle"
  /\ Cancellable(job[j])
  /\ cancelPc' = [cancelPc EXCEPT ![j] = "write"]
  /\ UNCHANGED <<job, batch, wk, stopped, sweep>>

CancellationWrite(j) ==
  /\ cancelPc[j] = "write"
  /\ \/ /\ job' = [job EXCEPT ![j] = Cancelled(@)]
        /\ cancelPc' = [cancelPc EXCEPT ![j] = "batch"]
     \/ DbMayFail /\ job' = job /\ cancelPc' = [cancelPc EXCEPT ![j] = "idle"]
  /\ UNCHANGED <<batch, wk, stopped, sweep>>

CancellationBatch(j) ==
  /\ cancelPc[j] = "batch"
  /\ \/ batch' = [batch EXCEPT ![j] = "CANCELLED"]
     \/ DbMayFail /\ batch' = batch
  /\ cancelPc' = [cancelPc EXCEPT ![j] = "idle"]
  /\ UNCHANGED <<job, wk, stopped, sweep>>

(* detectAndReclaimStalledJobs.  Its first statement finalises rows in       *)
(* CANCEL_REQUESTED, a status no code path writes.                           *)

SweepSelect ==
  /\ \A j \in Jobs : sweep[j] = NoRow
  /\ \E j \in Jobs : Stalled(job[j])
  /\ sweep' = [j \in Jobs |-> IF Stalled(job[j]) THEN job[j].attempt ELSE NoRow]
  /\ UNCHANGED <<job, batch, wk, stopped, cancelPc>>

SweepUpdate(j) ==
  /\ sweep[j] # NoRow
  /\ job' = [job EXCEPT ![j] = Reclaimed(@, sweep[j])]
  /\ sweep' = [sweep EXCEPT ![j] = NoRow]
  /\ UNCHANGED <<batch, wk, stopped, cancelPc>>

\* replayJob, by an administrator of the owning tenant.
ReplayJob(j) ==
  /\ MayReplay
  /\ job[j].status = "DEAD_LETTER"
  /\ job' = [job EXCEPT ![j] = Replayed(@)]
  /\ UNCHANGED <<batch, wk, stopped, cancelPc, sweep>>

-----------------------------------------------------------------------------
(* The passage of time *)

LeaseExpires(j) ==
  /\ MayExpire
  /\ job[j].lease = "live"
  /\ job' = [job EXCEPT ![j].lease = "expired"]
  /\ UNCHANGED <<batch, wk, stopped, cancelPc, sweep>>

RetryDue(j) ==
  /\ job[j].retry = "wait"
  /\ job' = [job EXCEPT ![j].retry = "due"]
  /\ UNCHANGED <<batch, wk, stopped, cancelPc, sweep>>

-----------------------------------------------------------------------------
\* A running job that no worker is working on, so nobody renews its lease.
Orphan(j) ==
  job[j].status = "RUNNING"
    /\ \A w \in Workers : ~(wk[w].held = j /\ job[j].workerId = w)

WorkerStep(w) ==
  \/ ClaimNextJob(w) \/ HandlerReturns(w) \/ HandlerThrows(w)
  \/ CheckCancellation(w) \/ CompleteJob(w) \/ CompleteBatch(w)
  \/ CancelJob(w) \/ CancelBatch(w) \/ FailRead(w) \/ FailWrite(w)

Next ==
  \/ \E w \in Workers : WorkerStep(w) \/ Heartbeat(w) \/ Crash(w) \/ Stop(w)
  \/ \E j \in Jobs : RequestCancellation(j) \/ CancellationWrite(j)
                       \/ CancellationBatch(j)
  \/ SweepSelect
  \/ \E j \in Jobs : SweepUpdate(j) \/ ReplayJob(j)
  \/ \E j \in Jobs : LeaseExpires(j) \/ RetryDue(j)

Spec == Init /\ [][Next]_vars

\* Clocks advance (a lease nobody renews runs out, a retry falls due), the list
\* route keeps sweeping, a worker that is not stopped keeps polling and a
\* handler that was started returns or throws.
Fairness ==
  /\ \A w \in Workers : WF_vars(WorkerStep(w))
  /\ WF_vars(SweepSelect)
  /\ \A j \in Jobs : /\ WF_vars(SweepUpdate(j))
                     /\ WF_vars(Orphan(j) /\ LeaseExpires(j))
                     /\ WF_vars(RetryDue(j))

FairSpec == Spec /\ Fairness

-----------------------------------------------------------------------------
(* Safety *)

\* A job whose cancellation was requested neither runs nor completes, however
\* the unguarded writes of failJob, cancelJob and the sweep interleave with it:
\* every path back to RUNNING or COMPLETED goes through a statement that tests
\* cancelRequestedAt or the RUNNING status.
CancelBlocksExecution ==
  \A j \in Jobs :
    job[j].cancelRequested => job[j].status \notin {"RUNNING", "COMPLETED"}

\* A running row always names its worker and carries a lease that can expire,
\* so a dead worker's job is found again; a row waiting to be claimed or
\* dead-lettered carries neither, so no late statement of an earlier worker
\* can match it.
LeaseTracksStatus ==
  \A j \in Jobs :
    /\ job[j].status = "RUNNING" =>
         job[j].workerId # NoWorker /\ job[j].lease # "none"
    /\ job[j].status \in {"PENDING", "DEAD_LETTER"} =>
         job[j].workerId = NoWorker /\ job[j].lease = "none"

\* The workerId guard of renewLease and completeJob is a fence: when it matches
\* for a worker in its loop, no one has claimed the job since that worker did,
\* not even through a reclaim, a dead letter and a replay.
ClaimFencing ==
  \A w \in Workers :
    ~At(w, "idle") /\ OwnedRunning(job[wk[w].held], w)
      => job[wk[w].held].attempt = wk[w].claim

-----------------------------------------------------------------------------
(* Liveness, and what holds while no lease expires and nobody cancels *)

\* "Automatic Dead-Worker Reclamation": a running job that no worker is
\* working on any more does not stay that way.
OrphanReclaimed == \A j \in Jobs : Orphan(j) ~> ~Orphan(j)

\* All jobs end: completed, or dead-lettered after their retries.
JobsFinish ==
  <>(\A j \in Jobs : job[j].status \in {"COMPLETED", "DEAD_LETTER", "CANCELLED"})

\* A batch is marked COMPLETED only for a job that completed.
BatchFollowsJob ==
  [][\A j \in Jobs : batch[j] # "COMPLETED" /\ batch'[j] = "COMPLETED"
       => job[j].status = "COMPLETED"]_vars

-----------------------------------------------------------------------------
(* Stated by the code and its tests and not kept by it; README.md says when. *)

\* maxRetries bounds the attempts: kept only while no lease expires.
RetryBudget == \A j \in Jobs : job[j].attempt <= MaxRetries

\* The transition table of assertValidTransition marks COMPLETED as terminal.
CompletedIsTerminal ==
  [][\A j \in Jobs : job[j].status = "COMPLETED"
       => job'[j].status = "COMPLETED"]_vars

\* The transition table marks CANCELLED as terminal, too.
CancelledIsTerminal ==
  [][\A j \in Jobs : job[j].status = "CANCELLED"
       => job'[j].status = "CANCELLED"]_vars

\* A failure that classifyFailure reports as not retryable is not retried.
NonRetryableNotRetried ==
  [][\A w \in Workers :
       FailWrite(w) /\ wk[w].class \in NonRetryable
         => job'[wk[w].held].status = "DEAD_LETTER"]_vars
=============================================================================
