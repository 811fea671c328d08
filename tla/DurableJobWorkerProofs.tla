----------------------- MODULE DurableJobWorkerProofs -----------------------
(***************************************************************************)
(* Type correctness and the safety invariants of DurableJobWorker, for any *)
(* number of jobs, workers and retries; and that batches follow their jobs *)
(* while workers are undisturbed.                                          *)
(***************************************************************************)
EXTENDS DurableJobWorker, TLAPS

-----------------------------------------------------------------------------
(* Rows: what each statement of JobTable makes of a row *)

\* claimNextJob writes a row whose attempt number stays within the cap.
LEMMA ClaimedType ==
  ASSUME NEW r \in JobRow(Workers), NEW w \in Workers
  PROVE  Claimed(r, w) \in JobRow(Workers) /\ Claimed(r, w).attempt \in Attempts
<1> USE JobTableAssumption DEF JobRow, JobStatus, Attempts
<1> DEFINE n == IF r.attempt < AttemptCap THEN r.attempt + 1 ELSE r.attempt
<1>1. n \in 0..AttemptCap
  OBVIOUS
<1> HIDE DEF n
<1>2. Claimed(r, w) = [r EXCEPT !.status = "RUNNING", !.workerId = w,
                                !.lease = "live", !.attempt = n]
  BY DEF Claimed, n
<1> QED
  BY <1>1, <1>2

\* enqueueJob and replayJob write a row.
LEMMA NewJobType == NewJob \in JobRow(Workers)
  BY JobTableAssumption DEF NewJob, JobRow, JobStatus

\* The statements guarded by workerId and status write a row.
LEMMA OwnerWritesType ==
  ASSUME NEW r \in JobRow(Workers), NEW w \in Workers
  PROVE  Renewed(r, w) \in JobRow(Workers) /\ Completed(r, w) \in JobRow(Workers)
  BY DEF Renewed, Completed, JobRow, JobStatus

\* So do the statements guarded by the id alone.
LEMMA IdWritesType ==
  ASSUME NEW r \in JobRow(Workers), NEW a, NEW c
  PROVE  /\ Cancelled(r) \in JobRow(Workers)
         /\ Failed(r, a, c) \in JobRow(Workers)
         /\ Reclaimed(r, a) \in JobRow(Workers)
         /\ Replayed(r) \in JobRow(Workers)
<1>1. Cancelled(r) \in JobRow(Workers)
  BY DEF Cancelled, JobRow, JobStatus
<1>2. Failed(r, a, c) \in JobRow(Workers)
  BY DEF Failed, JobRow, JobStatus
<1>3. Reclaimed(r, a) \in JobRow(Workers)
  BY DEF Reclaimed, JobRow, JobStatus
<1>4. Replayed(r) \in JobRow(Workers)
  BY NewJobType DEF Replayed
<1> QED
  BY <1>1, <1>2, <1>3, <1>4

-----------------------------------------------------------------------------
(* Type correctness *)

\* A write to one row keeps the table typed.
LEMMA RowWrite ==
  ASSUME TypeOK, NEW j \in Jobs, NEW r \in JobRow(Workers),
         job' = [job EXCEPT ![j] = r]
  PROVE  job' \in [Jobs -> JobRow(Workers)]
  BY DEF TypeOK

WorkerOK(x) == x \in WorkerState /\ (x.pc # "idle" => x.held \in Jobs)

\* A step of one worker keeps the workers' local states typed.
LEMMA WorkerWrite ==
  ASSUME TypeOK, NEW w \in Workers, NEW x, WorkerOK(x),
         wk' = [wk EXCEPT ![w] = x]
  PROVE  /\ wk' \in [Workers -> WorkerState]
         /\ \A v \in Workers : wk'[v].pc # "idle" => wk'[v].held \in Jobs
  BY DEF TypeOK, WorkerOK

\* A worker that is done holds nothing.
LEMMA IdleOK == WorkerOK(IdleWorker)
  BY JobTableAssumption
  DEF WorkerOK, WorkerState, IdleWorker, Labels, Attempts, FailureClass

\* A worker in its loop may move to any label of the loop.
LEMMA GotoOK ==
  ASSUME TypeOK, NEW w \in Workers, ~At(w, "idle"), NEW l \in Labels
  PROVE  WorkerOK([wk[w] EXCEPT !.pc = l])
  BY DEF TypeOK, At, WorkerOK, WorkerState

\* Every action keeps every variable in its type, and a worker in its loop
\* holds a job.
THEOREM TypeCorrect == Spec => []TypeOK
<1>1. Init => TypeOK
  <2> SUFFICES ASSUME Init PROVE TypeOK
    OBVIOUS
  <2> QED
    BY NewJobType, IdleOK DEF Init, TypeOK, BatchStatus, WorkerOK
<1>2. TypeOK /\ [Next]_vars => TypeOK'
  <2> SUFFICES ASSUME TypeOK, [Next]_vars PROVE TypeOK'
    OBVIOUS
  <2>a. \A j \in Jobs : job[j] \in JobRow(Workers) /\ job[j].attempt \in Attempts
    BY DEF TypeOK, JobRow, Attempts
  <2>b. \A w \in Workers : ~At(w, "idle") => wk[w].held \in Jobs
    BY DEF TypeOK, At
  <2>1. ASSUME NEW w \in Workers, ClaimNextJob(w) PROVE TypeOK'
    <3>1. PICK j \in Jobs :
            /\ job' = [job EXCEPT ![j] = Claimed(@, w)]
            /\ wk' = [wk EXCEPT ![w] = [IdleWorker EXCEPT !.pc = "handler",
                                          !.held = j,
                                          !.claim = Claimed(job[j], w).attempt]]
            /\ UNCHANGED <<batch, stopped, cancelPc, sweep>>
      BY <2>1 DEF ClaimNextJob
    <3>2. /\ Claimed(job[j], w) \in JobRow(Workers)
          /\ Claimed(job[j], w).attempt \in Attempts
      BY <2>a, ClaimedType
    <3>3. WorkerOK([IdleWorker EXCEPT !.pc = "handler", !.held = j,
                      !.claim = Claimed(job[j], w).attempt])
      BY <3>2, IdleOK DEF WorkerOK, WorkerState, IdleWorker, Labels
    <3> QED
      BY <3>1, <3>2, <3>3, RowWrite, WorkerWrite DEF TypeOK
  <2>2. ASSUME NEW w \in Workers, HandlerReturns(w) PROVE TypeOK'
    <3>1. ~At(w, "idle")
      BY <2>2 DEF HandlerReturns, At
    <3>2. \A l \in Labels : WorkerOK([wk[w] EXCEPT !.pc = l])
      BY <3>1, GotoOK
    <3> QED
      BY <2>2, <3>2, IdleOK, WorkerWrite DEF TypeOK, HandlerReturns, Goto, Labels
  <2>3. ASSUME NEW w \in Workers, HandlerThrows(w) PROVE TypeOK'
    <3>1. PICK c \in FailureClass :
            wk' = [wk EXCEPT ![w] = [wk[w] EXCEPT !.pc = "failRead", !.class = c]]
      BY <2>3 DEF HandlerThrows, TypeOK
    <3>2. WorkerOK([wk[w] EXCEPT !.pc = "failRead", !.class = c])
      BY ZenonT(30), <2>3 DEF HandlerThrows, At, TypeOK, WorkerOK, WorkerState, Labels
    <3> QED
      BY <2>3, <3>1, <3>2, WorkerWrite DEF TypeOK, HandlerThrows
  <2>4. ASSUME NEW w \in Workers, CheckCancellation(w) PROVE TypeOK'
    <3>1. ~At(w, "idle")
      BY <2>4 DEF CheckCancellation, At
    <3>2. \A l \in Labels : WorkerOK([wk[w] EXCEPT !.pc = l])
      BY <3>1, GotoOK
    <3> QED
      BY <2>4, <3>2, IdleOK, WorkerWrite DEF TypeOK, CheckCancellation, Goto, Labels
  <2>5. ASSUME NEW w \in Workers, CompleteJob(w) PROVE TypeOK'
    <3>1. ~At(w, "idle")
      BY <2>5 DEF CompleteJob, At
    <3>2. Completed(job[wk[w].held], w) \in JobRow(Workers)
      BY <2>a, <2>b, <3>1, OwnerWritesType
    <3>3. job' \in [Jobs -> JobRow(Workers)]
      BY <2>5, <2>b, <3>1, <3>2, RowWrite DEF TypeOK, CompleteJob
    <3>4. \A l \in Labels : WorkerOK([wk[w] EXCEPT !.pc = l])
      BY <3>1, GotoOK
    <3> QED
      BY <2>5, <3>3, <3>4, IdleOK, WorkerWrite DEF TypeOK, CompleteJob, Goto, Done, Labels
  <2>6. ASSUME NEW w \in Workers, CompleteBatch(w) PROVE TypeOK'
    BY <2>6, IdleOK, WorkerWrite DEF TypeOK, CompleteBatch, BatchStatus, Done
  <2>7. ASSUME NEW w \in Workers, CancelJob(w) PROVE TypeOK'
    <3>1. ~At(w, "idle")
      BY <2>7 DEF CancelJob, At
    <3>2. Cancelled(job[wk[w].held]) \in JobRow(Workers)
      BY <2>a, <2>b, <3>1, IdWritesType
    <3>3. job' \in [Jobs -> JobRow(Workers)]
      BY <2>7, <2>b, <3>1, <3>2, RowWrite DEF TypeOK, CancelJob
    <3>4. \A l \in Labels : WorkerOK([wk[w] EXCEPT !.pc = l])
      BY <3>1, GotoOK
    <3> QED
      BY <2>7, <3>3, <3>4, IdleOK, WorkerWrite DEF TypeOK, CancelJob, Goto, Done, Labels
  <2>8. ASSUME NEW w \in Workers, CancelBatch(w) PROVE TypeOK'
    BY <2>8, IdleOK, WorkerWrite DEF TypeOK, CancelBatch, BatchStatus, Done
  <2>9. ASSUME NEW w \in Workers, FailRead(w) PROVE TypeOK'
    <3>1. wk[w].held \in Jobs /\ job[wk[w].held] \in JobRow(Workers)
      BY <2>9 DEF FailRead, At, TypeOK
    <3>2. AttemptRead(job[wk[w].held]) \in Attempts
      BY <3>1, JobTableAssumption DEF AttemptRead, Attempts, JobRow
    <3>3. WorkerOK([wk[w] EXCEPT !.pc = "failWrite",
                                 !.seen = AttemptRead(job[wk[w].held])])
      BY <3>1, <3>2 DEF TypeOK, WorkerOK, WorkerState, Labels
    <3> QED
      BY ZenonT(30), <2>9, <3>3, IdleOK, WorkerWrite DEF TypeOK, FailRead, Done
  <2>10. ASSUME NEW w \in Workers, FailWrite(w) PROVE TypeOK'
    <3>1. ~At(w, "idle")
      BY <2>10 DEF FailWrite, At
    <3>2. Failed(job[wk[w].held], wk[w].seen, wk[w].class) \in JobRow(Workers)
      BY <2>a, <2>b, <3>1, IdWritesType
    <3>3. job' \in [Jobs -> JobRow(Workers)]
      BY <2>10, <2>b, <3>1, <3>2, RowWrite DEF TypeOK, FailWrite
    <3>4. \A l \in Labels : WorkerOK([wk[w] EXCEPT !.pc = l])
      BY <3>1, GotoOK
    <3> QED
      BY <2>10, <3>3, <3>4, IdleOK, WorkerWrite DEF TypeOK, FailWrite, Goto, Done, Labels
  <2>11. ASSUME NEW w \in Workers, Heartbeat(w) PROVE TypeOK'
    <3>1. ~At(w, "idle")
      BY <2>11 DEF Heartbeat, At
    <3>2. Renewed(job[wk[w].held], w) \in JobRow(Workers)
      BY <2>a, <2>b, <3>1, OwnerWritesType
    <3>3. job' \in [Jobs -> JobRow(Workers)]
      BY <2>11, <2>b, <3>1, <3>2, RowWrite DEF TypeOK, Heartbeat
    <3> QED
      BY <2>11, <3>3 DEF TypeOK, Heartbeat
  <2>12. ASSUME NEW w \in Workers, Crash(w) PROVE TypeOK'
    BY <2>12, IdleOK, WorkerWrite DEF TypeOK, Crash, Done
  <2>13. ASSUME NEW w \in Workers, Stop(w) PROVE TypeOK'
    BY <2>13 DEF TypeOK, Stop
  <2>14. ASSUME NEW j \in Jobs, RequestCancellation(j) PROVE TypeOK'
    BY <2>14 DEF TypeOK, RequestCancellation
  <2>15. ASSUME NEW j \in Jobs, CancellationWrite(j) PROVE TypeOK'
    <3>1. Cancelled(job[j]) \in JobRow(Workers)
      BY <2>a, IdWritesType
    <3> QED
      BY <2>15, <3>1, RowWrite DEF TypeOK, CancellationWrite
  <2>16. ASSUME NEW j \in Jobs, CancellationBatch(j) PROVE TypeOK'
    BY <2>16 DEF TypeOK, CancellationBatch, BatchStatus
  <2>17. ASSUME SweepSelect PROVE TypeOK'
    BY <2>17, <2>a DEF TypeOK, SweepSelect
  <2>18. ASSUME NEW j \in Jobs, SweepUpdate(j) PROVE TypeOK'
    <3>1. Reclaimed(job[j], sweep[j]) \in JobRow(Workers)
      BY <2>a, IdWritesType
    <3> QED
      BY <2>18, <3>1, RowWrite DEF TypeOK, SweepUpdate
  <2>19. ASSUME NEW j \in Jobs, ReplayJob(j) PROVE TypeOK'
    <3>1. Replayed(job[j]) \in JobRow(Workers)
      BY <2>a, IdWritesType
    <3> QED
      BY <2>19, <3>1, RowWrite DEF TypeOK, ReplayJob
  <2>20. ASSUME NEW j \in Jobs, LeaseExpires(j) PROVE TypeOK'
    <3>1. [job[j] EXCEPT !.lease = "expired"] \in JobRow(Workers)
      BY <2>a DEF JobRow
    <3> QED
      BY <2>20, <3>1, RowWrite DEF TypeOK, LeaseExpires
  <2>21. ASSUME NEW j \in Jobs, RetryDue(j) PROVE TypeOK'
    <3>1. [job[j] EXCEPT !.retry = "due"] \in JobRow(Workers)
      BY <2>a DEF JobRow
    <3> QED
      BY <2>21, <3>1, RowWrite DEF TypeOK, RetryDue
  <2>22. ASSUME UNCHANGED vars PROVE TypeOK'
    BY <2>22 DEF TypeOK, vars
  <2> QED
    BY <2>1, <2>2, <2>3, <2>4, <2>5, <2>6, <2>7, <2>8, <2>9, <2>10, <2>11,
       <2>12, <2>13, <2>14, <2>15, <2>16, <2>17, <2>18, <2>19, <2>20,
       <2>21, <2>22
    DEF Next, WorkerStep
<1> QED
  BY <1>1, <1>2, PTL DEF Spec

-----------------------------------------------------------------------------
(* Cancellation and leases: an invariant of each row by itself *)

RowSafe(r) ==
  /\ r.cancelRequested => r.status \notin {"RUNNING", "COMPLETED"}
  /\ r.status = "RUNNING" => r.workerId # NoWorker /\ r.lease # "none"
  /\ r.status \in {"PENDING", "DEAD_LETTER"} =>
       r.workerId = NoWorker /\ r.lease = "none"

RowsSafe == \A j \in Jobs : RowSafe(job[j])

\* Each statement, under its WHERE clause, keeps a row safe.
LEMMA WritesKeepRowSafe ==
  ASSUME NEW r \in JobRow(Workers), NEW w \in Workers, RowSafe(r)
  PROVE  /\ Claimable(r) => RowSafe(Claimed(r, w))
         /\ RowSafe(Renewed(r, w))
         /\ RowSafe(Completed(r, w))
         /\ RowSafe(Cancelled(r))
         /\ \A a, c : RowSafe(Failed(r, a, c))
         /\ \A a : RowSafe(Reclaimed(r, a))
         /\ RowSafe(Replayed(r))
         /\ r.lease = "live" => RowSafe([r EXCEPT !.lease = "expired"])
         /\ RowSafe([r EXCEPT !.retry = "due"])
<1> USE WorkerAssumption DEF RowSafe, JobRow, JobStatus
<1>1. Claimable(r) => RowSafe(Claimed(r, w))
  BY DEF Claimable, Claimed
<1>2. RowSafe(Renewed(r, w)) /\ RowSafe(Completed(r, w))
  BY DEF Renewed, Completed, OwnedRunning
<1>3. RowSafe(Cancelled(r))
  BY DEF Cancelled
<1>4. ASSUME NEW a, NEW c PROVE RowSafe(Failed(r, a, c)) /\ RowSafe(Reclaimed(r, a))
  BY DEF Failed, Reclaimed
<1>5. RowSafe(Replayed(r))
  BY DEF Replayed, NewJob
<1>6. /\ r.lease = "live" => RowSafe([r EXCEPT !.lease = "expired"])
      /\ RowSafe([r EXCEPT !.retry = "due"])
  OBVIOUS
<1> QED
  BY <1>1, <1>2, <1>3, <1>4, <1>5, <1>6

\* A safe write to one row keeps all rows safe.
LEMMA RowsSafeWrite ==
  ASSUME TypeOK, RowsSafe, NEW j \in Jobs, NEW r, RowSafe(r),
         job' = [job EXCEPT ![j] = r]
  PROVE  RowsSafe'
  BY DEF TypeOK, RowsSafe

\* The part of WritesKeepRowSafe that is about no worker.
LEMMA OtherWritesKeepRowSafe ==
  ASSUME NEW r \in JobRow(Workers), RowSafe(r)
  PROVE  /\ RowSafe(Cancelled(r))
         /\ \A a : RowSafe(Reclaimed(r, a))
         /\ RowSafe(Replayed(r))
         /\ r.lease = "live" => RowSafe([r EXCEPT !.lease = "expired"])
         /\ RowSafe([r EXCEPT !.retry = "due"])
  BY WorkerAssumption
  DEF RowSafe, JobRow, JobStatus, Cancelled, Reclaimed, Replayed, NewJob

\* Every step of the specification keeps every row safe.
LEMMA RowsSafeStep ==
  ASSUME TypeOK, RowsSafe, [Next]_vars
  PROVE  RowsSafe'
<1>a. \A j \in Jobs : job[j] \in JobRow(Workers) /\ RowSafe(job[j])
  BY DEF TypeOK, RowsSafe
<1>b. \A w \in Workers : ~At(w, "idle") => wk[w].held \in Jobs
  BY DEF TypeOK, At
<1>1. ASSUME NEW w \in Workers, ClaimNextJob(w) PROVE RowsSafe'
  <2>1. PICK j \in Jobs : /\ Claimable(job[j])
                          /\ job' = [job EXCEPT ![j] = Claimed(@, w)]
    BY <1>1 DEF ClaimNextJob
  <2>2. RowSafe(Claimed(job[j], w))
    BY <1>a, <2>1, WritesKeepRowSafe
  <2> QED
    BY <2>1, <2>2, RowsSafeWrite
<1>2. ASSUME NEW w \in Workers, CompleteJob(w) PROVE RowsSafe'
  <2>1. wk[w].held \in Jobs
    BY <1>2, <1>b DEF CompleteJob, At
  <2>2. RowSafe(Completed(job[wk[w].held], w))
    BY <1>a, <2>1, WritesKeepRowSafe
  <2> QED
    BY <1>2, <2>1, <2>2, RowsSafeWrite DEF CompleteJob, RowsSafe
<1>3. ASSUME NEW w \in Workers, CancelJob(w) PROVE RowsSafe'
  <2>1. wk[w].held \in Jobs
    BY <1>3, <1>b DEF CancelJob, At
  <2>2. RowSafe(Cancelled(job[wk[w].held]))
    BY <1>a, <2>1, WritesKeepRowSafe
  <2> QED
    BY <1>3, <2>1, <2>2, RowsSafeWrite DEF CancelJob, RowsSafe
<1>4. ASSUME NEW w \in Workers, FailWrite(w) PROVE RowsSafe'
  <2>1. wk[w].held \in Jobs
    BY <1>4, <1>b DEF FailWrite, At
  <2>2. RowSafe(Failed(job[wk[w].held], wk[w].seen, wk[w].class))
    BY <1>a, <2>1, WritesKeepRowSafe
  <2> QED
    BY <1>4, <2>1, <2>2, RowsSafeWrite DEF FailWrite, RowsSafe
<1>5. ASSUME NEW w \in Workers, Heartbeat(w) PROVE RowsSafe'
  <2>1. wk[w].held \in Jobs
    BY <1>5, <1>b DEF Heartbeat, At
  <2>2. RowSafe(Renewed(job[wk[w].held], w))
    BY <1>a, <2>1, WritesKeepRowSafe
  <2> QED
    BY <1>5, <2>1, <2>2, RowsSafeWrite DEF Heartbeat, RowsSafe
<1>6. ASSUME NEW j \in Jobs, CancellationWrite(j) PROVE RowsSafe'
  <2>1. RowSafe(Cancelled(job[j]))
    BY <1>a, OtherWritesKeepRowSafe
  <2> QED
    BY <1>6, <2>1, RowsSafeWrite DEF CancellationWrite, RowsSafe
<1>7. ASSUME NEW j \in Jobs, SweepUpdate(j) PROVE RowsSafe'
  <2>1. RowSafe(Reclaimed(job[j], sweep[j]))
    BY <1>a, OtherWritesKeepRowSafe
  <2> QED
    BY <1>7, <2>1, RowsSafeWrite DEF SweepUpdate, RowsSafe
<1>8. ASSUME NEW j \in Jobs, ReplayJob(j) PROVE RowsSafe'
  <2>1. RowSafe(Replayed(job[j]))
    BY <1>a, OtherWritesKeepRowSafe
  <2> QED
    BY <1>8, <2>1, RowsSafeWrite DEF ReplayJob, RowsSafe
<1>9. ASSUME NEW j \in Jobs, RetryDue(j) PROVE RowsSafe'
  <2>1. RowSafe([job[j] EXCEPT !.retry = "due"])
    BY <1>a, OtherWritesKeepRowSafe
  <2> QED
    BY <1>9, <2>1, RowsSafeWrite DEF RetryDue, RowsSafe
<1>10. ASSUME NEW j \in Jobs, LeaseExpires(j) PROVE RowsSafe'
  <2>1. RowSafe([job[j] EXCEPT !.lease = "expired"])
    BY <1>10, <1>a, OtherWritesKeepRowSafe DEF LeaseExpires
  <2> QED
    BY <1>10, <2>1, RowsSafeWrite DEF LeaseExpires
<1>11. ASSUME job' = job PROVE RowsSafe'
  BY <1>11 DEF RowsSafe
<1> QED
  BY <1>1, <1>2, <1>3, <1>4, <1>5, <1>6, <1>7, <1>8, <1>9, <1>10, <1>11
  DEF Next, WorkerStep, HandlerReturns, HandlerThrows, CheckCancellation,
      CompleteBatch, CancelBatch, FailRead, Crash, Stop, RequestCancellation,
      CancellationBatch, SweepSelect, vars

\* A cancelled job never runs or completes again, and a row's lease columns
\* agree with its status, in every reachable state: the properties
\* CancelBlocksExecution and LeaseTracksStatus of the model-checking runs.
THEOREM RowSafety == Spec => [](CancelBlocksExecution /\ LeaseTracksStatus)
<1>1. Init => RowsSafe
  BY DEF Init, RowsSafe, RowSafe, NewJob
<1>2. TypeOK /\ RowsSafe /\ [Next]_vars => RowsSafe'
  BY RowsSafeStep
<1>3. RowsSafe => CancelBlocksExecution /\ LeaseTracksStatus
  BY DEF RowsSafe, RowSafe, CancelBlocksExecution, LeaseTracksStatus
<1> QED
  BY <1>1, <1>2, <1>3, TypeCorrect, PTL DEF Spec

-----------------------------------------------------------------------------
(* Fencing: relates a row to the local state of the worker it names *)

\* The attempt number of a row that worker v owns changes only when v, idle,
\* claims it.
LEMMA FencingStep ==
  ASSUME TypeOK, TypeOK', ClaimFencing, [Next]_vars
  PROVE  ClaimFencing'
<1> SUFFICES ASSUME NEW v \in Workers, ~At(v, "idle")',
                    OwnedRunning(job[wk[v].held], v)'
             PROVE  (job[wk[v].held].attempt = wk[v].claim)'
  BY DEF ClaimFencing
<1> USE DEF At, OwnedRunning
<1>a. \A j \in Jobs : job[j] \in JobRow(Workers)
  BY DEF TypeOK
<1>b. \A w \in Workers : wk[w].pc # "idle" => wk[w].held \in Jobs
  BY DEF TypeOK
<1>c. ASSUME wk[v].pc # "idle", OwnedRunning(job[wk[v].held], v)
      PROVE  job[wk[v].held].attempt = wk[v].claim
  BY <1>c DEF ClaimFencing
<1> DEFINE Keeps == /\ wk[v].pc # "idle"
                    /\ wk'[v].held = wk[v].held
                    /\ wk'[v].claim = wk[v].claim
           Goal == job'[wk'[v].held].attempt = wk'[v].claim
<1>1. ASSUME NEW w \in Workers, ClaimNextJob(w) PROVE Goal
  <2>1. PICK j \in Jobs :
          /\ wk[w].pc = "idle"
          /\ job' = [job EXCEPT ![j] = Claimed(@, w)]
          /\ wk' = [wk EXCEPT ![w] = [IdleWorker EXCEPT !.pc = "handler",
                                        !.held = j,
                                        !.claim = Claimed(job[j], w).attempt]]
    BY <1>1 DEF ClaimNextJob
  <2>2. CASE v = w
    BY <2>1, <2>2 DEF TypeOK, IdleWorker
  <2>3. CASE v # w
    <3>1. wk'[v] = wk[v] /\ wk[v].pc # "idle"
      BY <2>1, <2>3 DEF TypeOK
    <3>2. wk[v].held # j
      BY <1>a, <2>1, <2>3, <3>1 DEF TypeOK, Claimed, JobRow
    <3> QED
      BY <1>c, <2>1, <3>1, <3>2 DEF TypeOK
  <2> QED
    BY <2>2, <2>3
\* A step that is not v's claim and writes no row.
<1>2. ASSUME Keeps, job' = job PROVE Goal
  BY <1>2, <1>c
\* A step that is not v's claim and writes a row without making v its owner
\* or touching the attempt number of a row v owns.
<1>3. ASSUME Keeps, NEW j \in Jobs, NEW r, job' = [job EXCEPT ![j] = r],
             r.status = "RUNNING" /\ r.workerId = v =>
               OwnedRunning(job[j], v) /\ r.attempt = job[j].attempt
      PROVE Goal
  <2>1. CASE wk[v].held = j
    BY <1>3, <1>c, <2>1 DEF TypeOK
  <2>2. CASE wk[v].held # j
    BY <1>3, <1>c, <1>b, <2>2 DEF TypeOK
  <2> QED
    BY <2>1, <2>2
<1> HIDE DEF Goal
<1>4. ASSUME NEW w \in Workers,
             \/ HandlerReturns(w) \/ HandlerThrows(w) \/ CheckCancellation(w)
             \/ CompleteBatch(w) \/ CancelBatch(w) \/ FailRead(w)
             \/ Crash(w) \/ Stop(w)
      PROVE  Goal
  <2>1. Keeps
    BY <1>4 DEF HandlerReturns, HandlerThrows, CheckCancellation, CompleteBatch,
       CancelBatch, FailRead, Crash, Stop, Goto, Done, IdleWorker, TypeOK,
       WorkerState
  <2>2. job' = job
    BY <1>4 DEF HandlerReturns, HandlerThrows, CheckCancellation, CompleteBatch,
       CancelBatch, FailRead, Crash, Stop
  <2> QED
    BY <1>2, <2>1, <2>2
<1>5. ASSUME NEW w \in Workers, CompleteJob(w) PROVE Goal
  <2>1. wk[w].held \in Jobs
    BY <1>5, <1>b DEF CompleteJob
  <2>2. Keeps
    BY <1>5 DEF CompleteJob, Goto, Done, IdleWorker, TypeOK, WorkerState
  <2>3. job' = job \/ job' = [job EXCEPT ![wk[w].held] = Completed(job[wk[w].held], w)]
    BY <1>5 DEF CompleteJob
  <2>4. LET r == Completed(job[wk[w].held], w) IN
          r.status = "RUNNING" /\ r.workerId = v =>
            OwnedRunning(job[wk[w].held], v) /\ r.attempt = job[wk[w].held].attempt
    BY <1>a, <2>1 DEF Completed, JobRow
  <2> QED
    BY <1>2, <1>3, <2>1, <2>2, <2>3, <2>4
<1>6. ASSUME NEW w \in Workers, CancelJob(w) PROVE Goal
  <2>1. wk[w].held \in Jobs
    BY <1>6, <1>b DEF CancelJob
  <2>2. Keeps
    BY <1>6 DEF CancelJob, Goto, Done, IdleWorker, TypeOK, WorkerState
  <2>3. job' = job \/ job' = [job EXCEPT ![wk[w].held] = Cancelled(job[wk[w].held])]
    BY <1>6 DEF CancelJob
  <2>4. LET r == Cancelled(job[wk[w].held]) IN
          r.status = "RUNNING" /\ r.workerId = v =>
            OwnedRunning(job[wk[w].held], v) /\ r.attempt = job[wk[w].held].attempt
    BY <1>a, <2>1 DEF Cancelled, JobRow
  <2> QED
    BY <1>2, <1>3, <2>1, <2>2, <2>3, <2>4
<1>7. ASSUME NEW w \in Workers, FailWrite(w) PROVE Goal
  <2>1. wk[w].held \in Jobs
    BY <1>7, <1>b DEF FailWrite
  <2>2. Keeps
    BY <1>7 DEF FailWrite, Goto, Done, IdleWorker, TypeOK, WorkerState
  <2>3. job' = job \/ job' = [job EXCEPT ![wk[w].held] = Failed(job[wk[w].held], wk[w].seen, wk[w].class)]
    BY <1>7 DEF FailWrite
  <2>4. LET r == Failed(job[wk[w].held], wk[w].seen, wk[w].class) IN
          r.status = "RUNNING" /\ r.workerId = v =>
            OwnedRunning(job[wk[w].held], v) /\ r.attempt = job[wk[w].held].attempt
    BY <1>a, <2>1 DEF Failed, JobRow
  <2> QED
    BY <1>2, <1>3, <2>1, <2>2, <2>3, <2>4
<1>8. ASSUME NEW w \in Workers, Heartbeat(w) PROVE Goal
  <2>1. wk[w].held \in Jobs
    BY <1>8, <1>b DEF Heartbeat
  <2>2. Keeps
    BY <1>8 DEF Heartbeat, Goto, Done, IdleWorker, TypeOK, WorkerState
  <2>3. job' = job \/ job' = [job EXCEPT ![wk[w].held] = Renewed(job[wk[w].held], w)]
    BY <1>8 DEF Heartbeat
  <2>4. LET r == Renewed(job[wk[w].held], w) IN
          r.status = "RUNNING" /\ r.workerId = v =>
            OwnedRunning(job[wk[w].held], v) /\ r.attempt = job[wk[w].held].attempt
    BY <1>a, <2>1 DEF Renewed, JobRow
  <2> QED
    BY <1>2, <1>3, <2>1, <2>2, <2>3, <2>4
<1>9. ASSUME NEW j \in Jobs, CancellationWrite(j) PROVE Goal
  <2>1. Keeps
    BY <1>9 DEF CancellationWrite
  <2>2. job' = job \/ job' = [job EXCEPT ![j] = Cancelled(job[j])]
    BY <1>9 DEF CancellationWrite
  <2>3. LET r == Cancelled(job[j]) IN
          r.status = "RUNNING" /\ r.workerId = v =>
            OwnedRunning(job[j], v) /\ r.attempt = job[j].attempt
    BY <1>a DEF Cancelled, JobRow
  <2> QED
    BY <1>2, <1>3, <2>1, <2>2, <2>3
<1>10. ASSUME NEW j \in Jobs, SweepUpdate(j) PROVE Goal
  <2>1. Keeps
    BY <1>10 DEF SweepUpdate
  <2>2. job' = job \/ job' = [job EXCEPT ![j] = Reclaimed(job[j], sweep[j])]
    BY <1>10 DEF SweepUpdate
  <2>3. LET r == Reclaimed(job[j], sweep[j]) IN
          r.status = "RUNNING" /\ r.workerId = v =>
            OwnedRunning(job[j], v) /\ r.attempt = job[j].attempt
    BY <1>a DEF Reclaimed, JobRow
  <2> QED
    BY <1>2, <1>3, <2>1, <2>2, <2>3
<1>11. ASSUME NEW j \in Jobs, ReplayJob(j) PROVE Goal
  <2>1. Keeps
    BY <1>11 DEF ReplayJob
  <2>2. job' = job \/ job' = [job EXCEPT ![j] = Replayed(job[j])]
    BY <1>11 DEF ReplayJob
  <2>3. LET r == Replayed(job[j]) IN
          r.status = "RUNNING" /\ r.workerId = v =>
            OwnedRunning(job[j], v) /\ r.attempt = job[j].attempt
    BY <1>a DEF Replayed, NewJob, JobRow
  <2> QED
    BY <1>2, <1>3, <2>1, <2>2, <2>3
<1>12. ASSUME NEW j \in Jobs, LeaseExpires(j) PROVE Goal
  <2>1. Keeps
    BY <1>12 DEF LeaseExpires
  <2>2. job' = job \/ job' = [job EXCEPT ![j] = [job[j] EXCEPT !.lease = "expired"]]
    BY <1>12 DEF LeaseExpires
  <2>3. LET r == [job[j] EXCEPT !.lease = "expired"] IN
          r.status = "RUNNING" /\ r.workerId = v =>
            OwnedRunning(job[j], v) /\ r.attempt = job[j].attempt
    BY <1>a DEF JobRow
  <2> QED
    BY <1>2, <1>3, <2>1, <2>2, <2>3
<1>13. ASSUME NEW j \in Jobs, RetryDue(j) PROVE Goal
  <2>1. Keeps
    BY <1>13 DEF RetryDue
  <2>2. job' = job \/ job' = [job EXCEPT ![j] = [job[j] EXCEPT !.retry = "due"]]
    BY <1>13 DEF RetryDue
  <2>3. LET r == [job[j] EXCEPT !.retry = "due"] IN
          r.status = "RUNNING" /\ r.workerId = v =>
            OwnedRunning(job[j], v) /\ r.attempt = job[j].attempt
    BY <1>a DEF JobRow
  <2> QED
    BY <1>2, <1>3, <2>1, <2>2, <2>3
<1>14. ASSUME NEW j \in Jobs, RequestCancellation(j) \/ CancellationBatch(j)
      PROVE  Goal
  BY <1>14, <1>2 DEF RequestCancellation, CancellationBatch
<1>15. ASSUME SweepSelect \/ UNCHANGED vars PROVE Goal
  BY <1>15, <1>2 DEF SweepSelect, vars
<1>16. Goal
  BY <1>1, <1>4, <1>5, <1>6, <1>7, <1>8, <1>9, <1>10, <1>11, <1>12, <1>13, <1>14, <1>15 DEF Next, WorkerStep
<1> QED
  BY <1>16 DEF Goal

\* The workerId predicate of renewLease and completeJob fences off every
\* earlier claim, for any number of workers, crashes, reclaims and replays.
THEOREM Fencing == Spec => []ClaimFencing
<1>1. Init => ClaimFencing
  BY DEF Init, ClaimFencing, At, IdleWorker
<1>2. TypeOK /\ TypeOK' /\ ClaimFencing /\ [Next]_vars => ClaimFencing'
  BY FencingStep
<1> QED
  BY <1>1, <1>2, TypeCorrect, PTL DEF Spec

-----------------------------------------------------------------------------
(* Undisturbed workers: no lease runs out, nobody cancels, no statement fails *)

\* Such a row.
Calm(r) == r.lease # "expired" /\ ~r.cancelRequested

\* A worker with the local state x has the row r to itself, until it completed it.
Holding(x, v, r) ==
  x.pc # "idle" =>
    /\ x.pc \notin {"cancel", "cancelBatch"}
    /\ IF x.pc = "completeBatch" THEN r.status = "COMPLETED" ELSE OwnedRunning(r, v)

\* The inductive invariant behind BatchFollowsJob.
Undisturbed ==
  /\ \A j \in Jobs : Calm(job[j]) /\ job[j].status # "CANCELLED"
                     /\ cancelPc[j] = "idle" /\ sweep[j] = NoRow
  /\ \A w \in Workers : Holding(wk[w], w, job[wk[w].held])

\* No two workers have one job in hand, and nobody has a job that waits.
LEMMA OneHolds ==
  ASSUME Undisturbed, NEW w \in Workers, NEW v \in Workers, v # w,
         wk[w].pc # "idle", wk[w].pc # "completeBatch", wk[v].pc # "idle"
  PROVE  wk[v].held # wk[w].held
  BY DEF Undisturbed, Holding, OwnedRunning

\* A worker and the row it has in hand move together.
LEMMA HolderStep ==
  ASSUME TypeOK, Undisturbed, NEW w \in Workers, NEW x, NEW j \in Jobs, NEW r,
         wk' = [wk EXCEPT ![w] = x], job' = [job EXCEPT ![j] = r],
         Calm(r), r.status # "CANCELLED",
         x.pc # "idle" => x.held = j, Holding(x, w, r),
         \A v \in Workers \ {w} : wk[v].pc # "idle" => wk[v].held # j,
         UNCHANGED <<cancelPc, sweep>>
  PROVE  Undisturbed'
<1>1. /\ \A i \in Jobs : job'[i] = IF i = j THEN r ELSE job[i]
      /\ \A v \in Workers : wk'[v] = IF v = w THEN x ELSE wk[v]
      /\ \A v \in Workers : wk[v].pc # "idle" => wk[v].held \in Jobs
  BY DEF TypeOK
<1>2. \A i \in Jobs : Calm(job'[i]) /\ job'[i].status # "CANCELLED"
                      /\ cancelPc'[i] = "idle" /\ sweep'[i] = NoRow
  BY <1>1 DEF Undisturbed
<1>3. ASSUME NEW v \in Workers PROVE Holding(wk'[v], v, job'[wk'[v].held])
  <2>1. CASE v = w
    <3>1. CASE x.pc = "idle"
      BY <1>1, <2>1, <3>1 DEF Holding
    <3>2. CASE x.pc # "idle"
      BY <1>1, <2>1, <3>2
    <3> QED
      BY <3>1, <3>2
  <2>2. CASE v # w
    <3>1. wk'[v] = wk[v] /\ Holding(wk[v], v, job[wk[v].held])
      BY <1>1, <2>2 DEF Undisturbed
    <3>2. wk[v].pc # "idle" => job'[wk[v].held] = job[wk[v].held]
      BY <1>1, <2>2
    <3> QED
      BY <3>1, <3>2 DEF Holding
  <2> QED
    BY <2>1, <2>2
<1> QED
  BY <1>2, <1>3 DEF Undisturbed

\* A row changes that nobody has in hand, or in a way nobody notices.
LEMMA TableStep ==
  ASSUME TypeOK, Undisturbed, NEW j \in Jobs, NEW r, job' = [job EXCEPT ![j] = r],
         Calm(r), r.status # "CANCELLED",
         \/ r.status = job[j].status /\ r.workerId = job[j].workerId
         \/ job[j].status = "DEAD_LETTER",
         UNCHANGED <<wk, cancelPc, sweep>>
  PROVE  Undisturbed'
<1>1. /\ \A i \in Jobs : job'[i] = IF i = j THEN r ELSE job[i]
      /\ \A v \in Workers : wk[v].pc # "idle" => wk[v].held \in Jobs
  BY DEF TypeOK
<1>2. \A i \in Jobs : Calm(job'[i]) /\ job'[i].status # "CANCELLED"
                      /\ cancelPc'[i] = "idle" /\ sweep'[i] = NoRow
  BY <1>1 DEF Undisturbed
<1>3. ASSUME NEW v \in Workers PROVE Holding(wk'[v], v, job'[wk'[v].held])
  <2>1. wk'[v] = wk[v] /\ Holding(wk[v], v, job[wk[v].held])
    BY DEF Undisturbed
  <2> QED
    BY <1>1, <2>1 DEF Holding, OwnedRunning
<1> QED
  BY <1>2, <1>3 DEF Undisturbed

\* What the statements of a worker make of a calm row.
LEMMA CalmWrites ==
  ASSUME NEW r \in JobRow(Workers), Calm(r), NEW w \in Workers, NEW a, NEW c
  PROVE  /\ Calm(Claimed(r, w)) /\ OwnedRunning(Claimed(r, w), w)
         /\ Calm(Renewed(r, w)) /\ Renewed(r, w).status = r.status
         /\ Renewed(r, w).workerId = r.workerId
         /\ OwnedRunning(r, w) => /\ Calm(Completed(r, w)) /\ Completed(r, w).status = "COMPLETED"
         /\ Calm(Failed(r, a, c)) /\ Failed(r, a, c).status # "CANCELLED"
         /\ Calm(Replayed(r)) /\ (r.status # "CANCELLED" => Replayed(r).status # "CANCELLED")
         /\ ~Stalled(r)
<1> USE DEF Calm, JobRow
<1>1. Calm(Claimed(r, w)) /\ OwnedRunning(Claimed(r, w), w)
  BY DEF Claimed, OwnedRunning
<1>2. /\ Calm(Renewed(r, w)) /\ Renewed(r, w).status = r.status
      /\ Renewed(r, w).workerId = r.workerId
  BY DEF Renewed
<1>3. OwnedRunning(r, w) => Calm(Completed(r, w)) /\ Completed(r, w).status = "COMPLETED"
  BY DEF Completed
<1>4. Calm(Failed(r, a, c)) /\ Failed(r, a, c).status # "CANCELLED"
  BY DEF Failed
<1>5. Calm(Replayed(r)) /\ (r.status # "CANCELLED" => Replayed(r).status # "CANCELLED")
  BY DEF Replayed, NewJob
<1>6. ~Stalled(r)
  BY DEF Stalled
<1> QED
  BY <1>1, <1>2, <1>3, <1>4, <1>5, <1>6

\* Every step leaves undisturbed workers undisturbed.
LEMMA UndisturbedStep ==
  ASSUME ~MayExpire, ~MayCancel, ~DbMayFail, TypeOK, Undisturbed, [Next]_vars
  PROVE  Undisturbed'
<1>a. /\ \A j \in Jobs : job[j] \in JobRow(Workers) /\ Calm(job[j]) /\ job[j].status # "CANCELLED"
      /\ \A j \in Jobs : job = [job EXCEPT ![j] = job[j]]
      /\ \A w \in Workers : wk = [wk EXCEPT ![w] = wk[w]]
  BY DEF TypeOK, Undisturbed
<1>b. \A w \in Workers : /\ Holding(wk[w], w, job[wk[w].held])
                         /\ wk[w].pc # "idle" => wk[w].held \in Jobs
  BY DEF TypeOK, Undisturbed
<1>c. IdleWorker.pc = "idle"
  BY DEF IdleWorker
\* A step of a worker that keeps its row.
<1>d. ASSUME NEW w \in Workers, NEW x, wk' = [wk EXCEPT ![w] = x], wk[w].pc # "idle",
             x.pc # "idle" => x.held = wk[w].held, Holding(x, w, job[wk[w].held]),
             wk[w].pc # "completeBatch" \/ x.pc = "idle", UNCHANGED <<job, cancelPc, sweep>>
      PROVE  Undisturbed'
  <2>1. CASE wk[w].pc # "completeBatch"
    <3>1. \A v \in Workers \ {w} : wk[v].pc # "idle" => wk[v].held # wk[w].held
      BY <1>d, <2>1, OneHolds
    <3>2. wk[w].held \in Jobs
      BY <1>b, <1>d
    <3>3. job' = [job EXCEPT ![wk[w].held] = job[wk[w].held]]
      BY <1>a, <1>d, <3>2
    <3> QED
      BY <1>a, <1>d, <3>1, <3>2, <3>3, HolderStep
  <2>2. CASE x.pc = "idle"
    <3>1. \A v \in Workers : Holding(wk'[v], v, job'[wk'[v].held])
      BY <1>b, <1>d, <2>2 DEF Holding, TypeOK
    <3> QED
      BY <1>d, <3>1 DEF Undisturbed
  <2> QED
    BY <1>d, <2>1, <2>2
<1>1. ASSUME NEW w \in Workers, ClaimNextJob(w) PROVE Undisturbed'
  <2>1. PICK j \in Jobs :
          /\ Claimable(job[j]) /\ job' = [job EXCEPT ![j] = Claimed(@, w)]
          /\ wk' = [wk EXCEPT ![w] = [IdleWorker EXCEPT !.pc = "handler", !.held = j,
                                        !.claim = Claimed(job[j], w).attempt]]
          /\ UNCHANGED <<batch, stopped, cancelPc, sweep>>
    BY <1>1 DEF ClaimNextJob
  <2> DEFINE x == [IdleWorker EXCEPT !.pc = "handler", !.held = j,
                                     !.claim = Claimed(job[j], w).attempt]
             r == Claimed(job[j], w)
  <2>2. x.pc = "handler" /\ x.held = j
    BY DEF IdleWorker
  <2>3. Calm(r) /\ OwnedRunning(r, w) /\ r.status # "CANCELLED"
    <3>1. Calm(r) /\ OwnedRunning(r, w)
      BY <1>a, CalmWrites
    <3> QED
      BY <3>1 DEF OwnedRunning
  <2>4. job[j].status = "PENDING"
    BY <1>a, <2>1 DEF Claimable, Calm
  <2>5. \A v \in Workers \ {w} : wk[v].pc # "idle" => wk[v].held # j
    BY <1>b, <2>4 DEF Holding, OwnedRunning
  <2>6. job' = [job EXCEPT ![j] = r] /\ wk' = [wk EXCEPT ![w] = x]
    BY <2>1
  <2> HIDE DEF x, r
  <2>7. Holding(x, w, r)
    BY <2>2, <2>3 DEF Holding
  <2> QED
    BY <2>1, <2>2, <2>3, <2>5, <2>6, <2>7, HolderStep
<1>2. ASSUME NEW w \in Workers, Heartbeat(w) PROVE Undisturbed'
  <2>1. wk[w].held \in Jobs /\ job' = [job EXCEPT ![wk[w].held] = Renewed(job[wk[w].held], w)]
        /\ UNCHANGED <<wk, cancelPc, sweep>>
    BY <1>2, <1>b DEF Heartbeat, At
  <2> DEFINE r == Renewed(job[wk[w].held], w)
  <2>2. Calm(r) /\ r.status = job[wk[w].held].status /\ r.workerId = job[wk[w].held].workerId
    BY <1>a, <2>1, CalmWrites
  <2>3. r.status # "CANCELLED"
    BY <1>a, <2>1, <2>2
  <2> HIDE DEF r
  <2>4. job' = [job EXCEPT ![wk[w].held] = r]
    BY <2>1 DEF r
  <2> QED
    BY <2>1, <2>2, <2>3, <2>4, TableStep
<1>3. ASSUME NEW w \in Workers, HandlerReturns(w) \/ HandlerThrows(w) \/ CheckCancellation(w)
                                  \/ FailRead(w)
      PROVE  Undisturbed'
  <2> DEFINE x == wk'[w]
  <2>1. /\ wk' = [wk EXCEPT ![w] = x] /\ x.held = wk[w].held
        /\ x.pc \in {"check", "failRead", "cancel", "complete", "failWrite"}
        /\ x.pc = "cancel" => CancelSeen(job[wk[w].held])
    <3>1. CASE HandlerReturns(w)
      BY <3>1 DEF HandlerReturns, Goto, TypeOK, WorkerState
    <3>2. CASE HandlerThrows(w)
      <4>1. PICK c \in FailureClass :
              wk' = [wk EXCEPT ![w] = [wk[w] EXCEPT !.pc = "failRead", !.class = c]]
        BY <3>2 DEF HandlerThrows, TypeOK
      <4>2. LET y == [wk[w] EXCEPT !.pc = "failRead", !.class = c] IN
              y.held = wk[w].held /\ y.pc = "failRead"
        BY DEF TypeOK, WorkerState
      <4> QED
        BY <4>1, <4>2 DEF TypeOK
    <3>3. CASE CheckCancellation(w)
      BY <3>3 DEF CheckCancellation, Goto, TypeOK, WorkerState
    <3>4. CASE FailRead(w)
      BY <3>4 DEF FailRead, TypeOK, WorkerState
    <3> QED
      BY <1>3, <3>1, <3>2, <3>3, <3>4
  <2> HIDE DEF x
  <2>2. /\ wk[w].pc \in {"handler", "check", "failRead"} /\ UNCHANGED <<job, cancelPc, sweep>>
    BY <1>3 DEF HandlerReturns, HandlerThrows, CheckCancellation, FailRead, At
  <2>3. OwnedRunning(job[wk[w].held], w) /\ wk[w].held \in Jobs
    BY <1>b, <2>2 DEF Holding
  <2>4. x.pc # "cancel"
    BY <1>a, <2>1, <2>3 DEF CancelSeen, Calm
  <2>5. Holding(x, w, job[wk[w].held])
    BY <2>1, <2>3, <2>4 DEF Holding
  <2> QED
    BY <1>d, <2>1, <2>2, <2>5
<1>4. ASSUME NEW w \in Workers, CompleteJob(w) PROVE Undisturbed'
  <2> DEFINE j == wk[w].held
             r == Completed(job[j], w)
             x == [wk[w] EXCEPT !.pc = "completeBatch"]
  <2>1. /\ wk[w].pc = "complete" /\ job' = [job EXCEPT ![j] = r] /\ wk' = [wk EXCEPT ![w] = x]
        /\ UNCHANGED <<cancelPc, sweep>>
    BY <1>4 DEF CompleteJob, At, Goto, TypeOK
  <2>2. x.pc = "completeBatch" /\ x.held = j
    BY DEF TypeOK, WorkerState
  <2>3. j \in Jobs /\ OwnedRunning(job[j], w)
    BY <1>b, <2>1 DEF Holding
  <2>4. Calm(r) /\ r.status = "COMPLETED"
    BY <1>a, <2>3, CalmWrites
  <2>5. \A v \in Workers \ {w} : wk[v].pc # "idle" => wk[v].held # j
    BY <2>1, OneHolds
  <2> HIDE DEF j, r, x
  <2>6. Holding(x, w, r) /\ r.status # "CANCELLED"
    BY <2>2, <2>4 DEF Holding
  <2> QED
    BY <2>1, <2>2, <2>3, <2>4, <2>5, <2>6, HolderStep
<1>5. ASSUME NEW w \in Workers, CompleteBatch(w) \/ Crash(w) PROVE Undisturbed'
  <2>1. wk' = [wk EXCEPT ![w] = IdleWorker] /\ wk[w].pc # "idle" /\ UNCHANGED <<job, cancelPc, sweep>>
    BY <1>5 DEF CompleteBatch, Crash, Done, At
  <2>2. Holding(IdleWorker, w, job[wk[w].held])
    BY <1>c DEF Holding
  <2> QED
    BY <1>c, <1>d, <2>1, <2>2
<1>6. ASSUME NEW w \in Workers, CancelJob(w) \/ CancelBatch(w) PROVE FALSE
  BY <1>6, <1>b DEF CancelJob, CancelBatch, At, Holding
<1>7. ASSUME NEW w \in Workers, FailWrite(w) PROVE Undisturbed'
  <2> DEFINE j == wk[w].held
             r == Failed(job[j], wk[w].seen, wk[w].class)
  <2>1. /\ wk[w].pc = "failWrite" /\ job' = [job EXCEPT ![j] = r]
        /\ wk' = [wk EXCEPT ![w] = IdleWorker] /\ UNCHANGED <<cancelPc, sweep>>
    BY <1>7 DEF FailWrite, At, Done
  <2>2. j \in Jobs
    BY <1>b, <2>1
  <2>3. Calm(r) /\ r.status # "CANCELLED"
    BY <1>a, <2>2, CalmWrites
  <2>4. \A v \in Workers \ {w} : wk[v].pc # "idle" => wk[v].held # j
    BY <2>1, OneHolds
  <2>5. Holding(IdleWorker, w, r)
    BY <1>c DEF Holding
  <2> HIDE DEF j, r
  <2> QED
    BY <1>c, <2>1, <2>2, <2>3, <2>4, <2>5, HolderStep
<1>8. ASSUME NEW j \in Jobs, RequestCancellation(j) \/ CancellationWrite(j) \/ CancellationBatch(j)
                               \/ SweepUpdate(j) \/ LeaseExpires(j)
      PROVE  FALSE
  BY <1>8 DEF RequestCancellation, CancellationWrite, CancellationBatch, SweepUpdate,
              LeaseExpires, Undisturbed
<1>9. ASSUME SweepSelect PROVE FALSE
  BY <1>9, <1>a DEF SweepSelect, Stalled, Calm
<1>10. ASSUME NEW j \in Jobs, ReplayJob(j) PROVE Undisturbed'
  <2> DEFINE r == Replayed(job[j])
  <2>1. /\ job[j].status = "DEAD_LETTER" /\ job' = [job EXCEPT ![j] = r]
        /\ UNCHANGED <<wk, cancelPc, sweep>>
    BY <1>10 DEF ReplayJob
  <2>2. Calm(r) /\ r.status # "CANCELLED"
    <3>1. r = NewJob
      BY <2>1 DEF Replayed
    <3> QED
      BY <3>1 DEF NewJob, Calm
  <2> HIDE DEF r
  <2> QED
    BY <2>1, <2>2, TableStep
<1>11. ASSUME NEW j \in Jobs, RetryDue(j) PROVE Undisturbed'
  <2> DEFINE r == [job[j] EXCEPT !.retry = "due"]
  <2>1. job' = [job EXCEPT ![j] = r] /\ UNCHANGED <<wk, cancelPc, sweep>>
    BY <1>11 DEF RetryDue
  <2>2. /\ Calm(r) /\ r.status = job[j].status /\ r.workerId = job[j].workerId
        /\ r.status # "CANCELLED"
    BY <1>a DEF JobRow, Calm
  <2> HIDE DEF r
  <2> QED
    BY <2>1, <2>2, TableStep
<1>12. ASSUME (\E w \in Workers : Stop(w)) \/ UNCHANGED vars PROVE Undisturbed'
  BY <1>12 DEF Stop, vars, Undisturbed, Holding
<1> QED
  BY <1>1, <1>2, <1>3, <1>4, <1>5, <1>6, <1>7, <1>8, <1>9, <1>10, <1>11, <1>12
  DEF Next, WorkerStep

\* completeJob marks the batch COMPLETED although it does not look whether its
\* first statement found the row.  As long as no lease runs out, nobody cancels
\* and no statement fails, the job is completed when it does, for any number of
\* workers, and whatever they crash, stop, retry and replay.
THEOREM BatchHonest ==
  ~MayExpire /\ ~MayCancel /\ ~DbMayFail => (Spec => BatchFollowsJob)
<1> SUFFICES ASSUME ~MayExpire, ~MayCancel, ~DbMayFail PROVE Spec => BatchFollowsJob
  OBVIOUS
<1>1. Init => Undisturbed
  BY DEF Init, Undisturbed, Calm, Holding, NewJob, IdleWorker
<1>2. TypeOK /\ Undisturbed /\ [Next]_vars => Undisturbed'
  BY UndisturbedStep
<1>3. TypeOK /\ Undisturbed /\ [Next]_vars =>
        [\A j \in Jobs : batch[j] # "COMPLETED" /\ batch'[j] = "COMPLETED"
           => job[j].status = "COMPLETED"]_vars
  <2> SUFFICES ASSUME TypeOK, Undisturbed, Next, NEW j \in Jobs,
                      batch[j] # "COMPLETED", batch'[j] = "COMPLETED"
               PROVE  job[j].status = "COMPLETED"
    OBVIOUS
  <2>1. PICK w \in Workers : CompleteBatch(w)
    <3>1. ASSUME NEW i \in Jobs, CancellationBatch(i) PROVE FALSE
      BY <3>1 DEF CancellationBatch, Undisturbed
    <3>2. ASSUME NEW w \in Workers, CancelBatch(w) PROVE FALSE
      BY <3>2 DEF CancelBatch, At, Undisturbed, Holding
    <3>3. batch' # batch
      OBVIOUS
    <3> QED
      BY <3>1, <3>2, <3>3
      DEF Next, WorkerStep, ClaimNextJob, Heartbeat, HandlerReturns, HandlerThrows,
          CheckCancellation, CompleteJob, CancelJob, FailRead, FailWrite, Crash, Stop,
          RequestCancellation, CancellationWrite, SweepSelect, SweepUpdate, ReplayJob,
          LeaseExpires, RetryDue
  <2>2. wk[w].held = j /\ wk[w].pc = "completeBatch"
    BY <2>1 DEF CompleteBatch, At, TypeOK
  <2> QED
    BY <2>2 DEF Undisturbed, Holding
<1> QED
  BY <1>1, <1>2, <1>3, TypeCorrect, PTL DEF Spec, BatchFollowsJob
=============================================================================
