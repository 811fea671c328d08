----------------------------- MODULE JobStepper -----------------------------
(***************************************************************************)
(* stepJobChunk and the BATCH_GENERATION handler of                        *)
(* src/lib/workers/durable-job-worker.ts, driven by concurrent requests to *)
(* POST /api/batches/jobs/[jobId]/step on one job, beside cancellation     *)
(* requests and the stalled-job sweep.  A request is a sequence of         *)
(* database statements; requests interleave between any two of them.       *)
(*                                                                         *)
(* The records of the batch are numbered 0 .. Total-1.  inserted counts    *)
(* how often the order and payment rows of a record were created (2 stands *)
(* for "more than once").  The ids of a record are a function of its       *)
(* number: where the database has the unique keys schema.postgresql.prisma *)
(* declares, a createMany with one known id inserts nothing; schema.prisma *)
(* and the migrations declare no such keys.                                *)
(***************************************************************************)
EXTENDS JobTable, FiniteSets

CONSTANTS
  Steppers,        \* requests that may be in flight together
  UserIds,         \* the ids web_stepper_<user> a request claims with
  UserOf,          \* the id of each request: one user's tabs share theirs
  Total,           \* progressTotal
  ChunkSizes,      \* chunk sizes a client asks for
  MaxConcurrentSteps,  \* MAX_CONCURRENT_STEPS
  MayCancel,       \* users request cancellation
  MayExpire,       \* the 30 s step lease may run out
  UniqueKeys,      \* the database has unique keys on the generated ids
  InsertMayFail,   \* a createMany may fail; the handler swallows the error
  HandlerMayThrow  \* a step handler may throw

ASSUME StepperAssumption ==
  /\ IsFiniteSet(Steppers)
  /\ NoWorker \notin UserIds
  /\ UserOf \in [Steppers -> UserIds]
  /\ Total \in Nat \ {0}
  /\ ChunkSizes \subseteq Nat \ {0}
  /\ MaxConcurrentSteps \in Nat \ {0}
  /\ {MayCancel, MayExpire, UniqueKeys, InsertMayFail, HandlerMayThrow}
       \subseteq BOOLEAN

VARIABLES
  row,        \* the AsyncJob row
  progress,   \* its progressCurrent
  batch,      \* the status of the Batch row
  inserted,   \* how often each record was inserted
  st,         \* each request's place and local variables
  inFlight,   \* activeInFlightSteps
  cancelPc,   \* the cancellation request in progress
  swept       \* the sweep has selected the row and will update it

vars == <<row, progress, batch, inserted, st, inFlight, cancelPc, swept>>
env == <<cancelPc, swept>>

Records == 0..(Total - 1)

Labels == {"idle", "read", "check", "gate", "claim", "claimMiss", "recheck",
           "insert", "progress", "postcheck", "finishBatch", "complete",
           "completeBatch", "cancel", "cancelBatch", "failRead", "failWrite"}

\* from: job.progressCurrent as read before the claim; to: newProgress;
\* counted: the request has incremented activeInFlightSteps.
Request == [pc : Labels, from : 0..Total, to : 0..Total, counted : BOOLEAN]

IdleRequest == [pc |-> "idle", from |-> 0, to |-> 0, counted |-> FALSE]

TypeOK ==
  /\ row \in JobRow(UserIds)
  /\ progress \in 0..Total
  /\ batch \in {"PROCESSING", "CREATED", "COMPLETED", "CANCELLED"}
  /\ inserted \in [Records -> 0..2]
  /\ st \in [Steppers -> Request]
  /\ inFlight \in 0..MaxConcurrentSteps
  /\ cancelPc \in {"idle", "write", "batch"}
  /\ swept \in BOOLEAN

Init ==
  /\ row = NewJob
  /\ progress = 0
  /\ batch = "PROCESSING"
  /\ inserted = [k \in Records |-> 0]
  /\ st = [s \in Steppers |-> IdleRequest]
  /\ inFlight = 0
  /\ cancelPc = "idle"
  /\ swept = FALSE

-----------------------------------------------------------------------------
At(s, label) == st[s].pc = label

Goto(s, label) == st' = [st EXCEPT ![s].pc = label]

\* Mutant: the slot is given back on the path of success only.
ReturnKeepsSlot(s) ==
  /\ st' = [st EXCEPT ![s] = IdleRequest]
  /\ inFlight' = IF st[s].counted /\ At(s, "completeBatch")
                   THEN inFlight - 1 ELSE inFlight

\* The request returns; the finally block gives back its slot.
Return(s) ==
  /\ st' = [st EXCEPT ![s] = IdleRequest]
  /\ inFlight' = IF st[s].counted /\ inFlight > 0 THEN inFlight - 1 ELSE inFlight

\* The route handler's own read and rejections.
StepRoute(s) ==
  /\ At(s, "idle")
  /\ row.status \notin {"COMPLETED", "DEAD_LETTER"} \/ CancelSeen(row)
  /\ Goto(s, IF CancelSeen(row) THEN "cancel" ELSE "read")
  /\ UNCHANGED <<row, progress, batch, inserted, inFlight, env>>

\* getDurableJob: the snapshot every later decision of the step works from.
ReadJob(s) ==
  /\ At(s, "read")
  /\ IF row.status \in {"COMPLETED", "CANCELLED", "DEAD_LETTER"}
       THEN Return(s)
       ELSE /\ st' = [st EXCEPT ![s].from = progress,
                                ![s].pc = IF row.cancelRequested
                                            THEN "cancel" ELSE "check"]
            /\ UNCHANGED inFlight
  /\ UNCHANGED <<row, progress, batch, inserted, env>>

CheckBeforeStep(s) ==
  /\ At(s, "check")
  /\ Goto(s, IF CancelSeen(row) THEN "cancel" ELSE "gate")
  /\ UNCHANGED <<row, progress, batch, inserted, inFlight, env>>

\* The in-flight limit: test and increment with no await between them.
Gate(s) ==
  /\ At(s, "gate")
  /\ IF inFlight >= MaxConcurrentSteps
       THEN Return(s)
       ELSE /\ inFlight' = inFlight + 1
            /\ st' = [st EXCEPT ![s].pc = "claim", ![s].counted = TRUE]
  /\ UNCHANGED <<row, progress, batch, inserted, env>>

\* Mutant: the claim does not look at cancelRequestedAt.
StepClaimableCancelled(r) == r.status \in {"PENDING", "RUNNING", "CANCELLED"}

\* The claim takes the job from whoever runs it and counts no attempt.
StepClaimable(r) == r.status \in {"PENDING", "RUNNING"} /\ ~r.cancelRequested

StepClaimed(r, w) ==
  [r EXCEPT !.status = "RUNNING", !.workerId = w, !.lease = "live"]

ClaimStep(s) ==
  /\ At(s, "claim")
  /\ IF StepClaimable(row)
       THEN row' = StepClaimed(row, UserOf[s]) /\ Goto(s, "recheck")
       ELSE row' = row /\ Goto(s, "claimMiss")
  /\ UNCHANGED <<progress, batch, inserted, inFlight, env>>

\* No row matched: a cancelled job is cancelled again, any other reason is
\* ignored and the step goes on without the claim.
ClaimMissed(s) ==
  /\ At(s, "claimMiss")
  /\ Goto(s, IF CancelSeen(row) THEN "cancel" ELSE "recheck")
  /\ UNCHANGED <<row, progress, batch, inserted, inFlight, env>>

\* from + Math.min(chunkSize, total - from)
SliceEnd(from, chunk) == IF from + chunk < Total THEN from + chunk ELSE Total

\* The check before dispatch and the handler's own first check, then the slice
\* [from, from + count) of the snapshot, or nothing left to do.
StartSlice(s) ==
  \E chunk \in ChunkSizes :
    /\ At(s, "recheck")
    /\ \/ CancelSeen(row) /\ Goto(s, "cancel")
       \/ /\ ~CancelSeen(row)
          /\ st' = [st EXCEPT ![s].to = SliceEnd(st[s].from, chunk),
                              ![s].pc = IF st[s].from < Total
                                          THEN "insert" ELSE "postcheck"]
    /\ UNCHANGED <<row, progress, batch, inserted, inFlight, env>>

Slice(s) == {k \in Records : st[s].from <= k /\ k < st[s].to}

\* A record of the slice was inserted before, and a unique key notices.
Clashes(s) == UniqueKeys /\ \E k \in Slice(s) : inserted[k] > 0

\* The createMany calls of the slice; an error is swallowed.
InsertSlice(s) ==
  /\ At(s, "insert")
  /\ \/ /\ ~Clashes(s)
        /\ inserted' = [k \in Records |->
             IF k \in Slice(s) /\ inserted[k] < 2 THEN inserted[k] + 1 ELSE inserted[k]]
     \/ (InsertMayFail \/ Clashes(s)) /\ inserted' = inserted
  /\ Goto(s, "progress")
  /\ UNCHANGED <<row, progress, batch, inFlight, env>>

HandlerThrows(s) ==
  /\ HandlerMayThrow
  /\ At(s, "insert")
  /\ Goto(s, "failRead")
  /\ UNCHANGED <<row, progress, batch, inserted, inFlight, env>>

\* Mutant: the checkpoint is one record ahead of the slice.
UpdateProgressAhead(s) ==
  /\ At(s, "progress")
  /\ progress' = IF OwnedRunning(row, UserOf[s]) /\ st[s].to < Total
                   THEN st[s].to + 1 ELSE progress
  /\ Goto(s, "postcheck")
  /\ UNCHANGED <<row, batch, inserted, inFlight, env>>

\* Mutant: the checkpoint is written only for a job that still waits.
UpdateProgressLost(s) ==
  /\ At(s, "progress")
  /\ progress' = IF row.status = "PENDING" THEN st[s].to ELSE progress
  /\ Goto(s, "postcheck")
  /\ UNCHANGED <<row, batch, inserted, inFlight, env>>

\* updateJobProgress: WHERE id, workerId, status = 'RUNNING'.
UpdateProgress(s) ==
  /\ At(s, "progress")
  /\ progress' = IF OwnedRunning(row, UserOf[s]) THEN st[s].to ELSE progress
  /\ Goto(s, "postcheck")
  /\ UNCHANGED <<row, batch, inserted, inFlight, env>>

CheckAfterSlice(s) ==
  /\ At(s, "postcheck")
  /\ \/ CancelSeen(row) /\ Goto(s, "cancel") /\ UNCHANGED inFlight
     \/ /\ ~CancelSeen(row)
        /\ IF st[s].to >= Total
             THEN Goto(s, "finishBatch") /\ UNCHANGED inFlight
             ELSE Return(s)
  /\ UNCHANGED <<row, progress, batch, inserted, env>>

FinishBatch(s) ==
  /\ At(s, "finishBatch")
  /\ batch' = "CREATED"
  /\ Goto(s, "complete")
  /\ UNCHANGED <<row, progress, inserted, inFlight, env>>

CompleteStep(s) ==
  /\ At(s, "complete")
  /\ row' = Completed(row, UserOf[s])
  /\ Goto(s, "completeBatch")
  /\ UNCHANGED <<progress, batch, inserted, inFlight, env>>

CompleteBatch(s) ==
  /\ At(s, "completeBatch")
  /\ batch' = "COMPLETED"
  /\ Return(s)
  /\ UNCHANGED <<row, progress, inserted, env>>

CancelStep(s) ==
  /\ At(s, "cancel")
  /\ row' = Cancelled(row)
  /\ Goto(s, "cancelBatch")
  /\ UNCHANGED <<progress, batch, inserted, inFlight, env>>

CancelBatch(s) ==
  /\ At(s, "cancelBatch")
  /\ batch' = "CANCELLED"
  /\ Return(s)
  /\ UNCHANGED <<row, progress, inserted, env>>

\* failJob reads the row, then updates it by id.  A step counts no attempt, so
\* what is read is the same whenever the row was never claimed by a worker.
FailRead(s) ==
  /\ At(s, "failRead")
  /\ Goto(s, "failWrite")
  /\ UNCHANGED <<row, progress, batch, inserted, inFlight, env>>

FailWrite(s) ==
  \E class \in FailureClass :
    /\ At(s, "failWrite")
    /\ row' = Failed(row, AttemptRead(row), class)
    /\ Return(s)
    /\ UNCHANGED <<progress, batch, inserted, env>>

-----------------------------------------------------------------------------
(* The rest of the system, as in DurableJobWorker *)

requests == <<progress, inserted, st, inFlight>>

RequestCancellation ==
  /\ MayCancel
  /\ cancelPc = "idle"
  /\ Cancellable(row)
  /\ cancelPc' = "write"
  /\ UNCHANGED <<row, batch, swept, requests>>

CancellationWrite ==
  /\ cancelPc = "write"
  /\ row' = Cancelled(row)
  /\ cancelPc' = "batch"
  /\ UNCHANGED <<batch, swept, requests>>

CancellationBatch ==
  /\ cancelPc = "batch"
  /\ batch' = "CANCELLED"
  /\ cancelPc' = "idle"
  /\ UNCHANGED <<row, swept, requests>>

SweepSelect ==
  /\ ~swept
  /\ Stalled(row)
  /\ swept' = TRUE
  /\ UNCHANGED <<row, batch, cancelPc, requests>>

SweepUpdate ==
  /\ swept
  /\ row' = Reclaimed(row, row.attempt)
  /\ swept' = FALSE
  /\ UNCHANGED <<batch, cancelPc, requests>>

LeaseExpires ==
  /\ MayExpire
  /\ row.lease = "live"
  /\ row' = [row EXCEPT !.lease = "expired"]
  /\ UNCHANGED <<batch, cancelPc, swept, requests>>

Step(s) ==
  \/ StepRoute(s) \/ ReadJob(s) \/ CheckBeforeStep(s) \/ Gate(s) \/ ClaimStep(s)
  \/ ClaimMissed(s) \/ StartSlice(s) \/ InsertSlice(s) \/ UpdateProgress(s)
  \/ CheckAfterSlice(s) \/ FinishBatch(s) \/ CompleteStep(s)
  \/ CompleteBatch(s) \/ CancelStep(s) \/ CancelBatch(s)
  \/ HandlerThrows(s) \/ FailRead(s) \/ FailWrite(s)

Next ==
  \/ \E s \in Steppers : Step(s)
  \/ RequestCancellation \/ CancellationWrite \/ CancellationBatch
  \/ SweepSelect \/ SweepUpdate \/ LeaseExpires

Spec == Init /\ [][Next]_vars

\* Clients keep stepping the job until it ends and the server runs each request.
FairSpec == Spec /\ \A s \in Steppers : WF_vars(Step(s))

-----------------------------------------------------------------------------
(* Properties *)

\* activeInFlightSteps counts exactly the requests between the gate and their
\* finally block, on every way out (return, cancellation, failure): it never
\* leaks a slot, and the limit holds.
InFlightExact ==
  /\ inFlight = Cardinality({s \in Steppers : st[s].counted})
  /\ inFlight <= MaxConcurrentSteps

\* The checkpoint never runs ahead of the data: every record below
\* progressCurrent, and below any request's snapshot of it, was inserted, and
\* a completed job has all of its records, although requests work from stale
\* snapshots and move the checkpoint backwards.
CheckpointCovered ==
  \A k \in Records :
    \/ inserted[k] > 0
    \/ /\ progress <= k
       /\ \A s \in Steppers : st[s].from <= k
       /\ row.status # "COMPLETED"

\* A job whose cancellation was requested neither runs nor completes.
CancelBlocksExecution ==
  row.cancelRequested => row.status \notin {"RUNNING", "COMPLETED"}

\* Clients that keep stepping a job finish it.
StepsFinishJob == <>(row.status = "COMPLETED")

-----------------------------------------------------------------------------
\* "Anti-Double-Mutation Safeguards": no record is generated twice.  The code
\* does not keep this; README.md says when.
InsertedOnce == \A k \in Records : inserted[k] <= 1
=============================================================================
