------------------------------ MODULE JobTable ------------------------------
(***************************************************************************)
(* The AsyncJob row of src/lib/workers/durable-job-worker.ts and the SQL   *)
(* statements that read and write it, one operator per statement.  Every   *)
(* statement is atomic in PostgreSQL; the modules that extend this one     *)
(* interleave them.                                                        *)
(*                                                                         *)
(* Time is abstracted to what the statements compare.  leaseExpiresAt is   *)
(* "none" (NULL), "live" (in the future) or "expired"; nextRetryAt is      *)
(* "due" (NULL or past) or "wait".  heartbeatAt is left out: it is written *)
(* by every statement that extends the lease, and with the callers' values *)
(* (a stale threshold of 30000 ms, a lease of 30000 ms) a stale heartbeat  *)
(* implies an expired lease.  attempt saturates at AttemptCap, which no    *)
(* comparison with maxRetries can see.                                     *)
(***************************************************************************)
EXTENDS Naturals

CONSTANTS
  NoWorker,      \* workerId IS NULL
  MaxRetries,    \* maxRetries of the row
  AttemptCap     \* the value at which the model stops counting attempts

ASSUME JobTableAssumption ==
  /\ MaxRetries \in Nat \ {0}
  /\ AttemptCap \in Nat
  /\ AttemptCap > MaxRetries

\* The statuses this code writes; CLAIMED, RETRY_WAIT, STALLED, FAILED and
\* CANCEL_REQUESTED are declared but never assigned.
JobStatus == {"PENDING", "RUNNING", "COMPLETED", "CANCELLED", "DEAD_LETTER"}

\* The classes of failure the code tells apart.  "TRANSIENT" stands for every
\* class with retryable = TRUE, "INVARIANT_FAILURE" for the two classes failJob
\* dead-letters, "BUSINESS_RULE_ERROR" for the ones (CANCELLED too) that
\* classifyFailure calls not retryable and failJob does not look at.
FailureClass == {"TRANSIENT", "INVARIANT_FAILURE", "BUSINESS_RULE_ERROR"}

NonRetryable == {"INVARIANT_FAILURE", "BUSINESS_RULE_ERROR"}

JobRow(W) ==
  [status : JobStatus, workerId : W \cup {NoWorker}, attempt : 0..AttemptCap,
   lease : {"none", "live", "expired"}, retry : {"due", "wait"},
   cancelRequested : BOOLEAN]

\* The row enqueueJob creates.
NewJob ==
  [status |-> "PENDING", workerId |-> NoWorker, attempt |-> 0,
   lease |-> "none", retry |-> "due", cancelRequested |-> FALSE]

-----------------------------------------------------------------------------
(* claimNextJob *)

\* Mutant: the claim does not look at cancelRequestedAt.
ClaimableCancelled(r) ==
  /\ \/ r.status = "PENDING"
     \/ r.status = "RUNNING" /\ r.lease = "expired"
  /\ r.retry = "due"

Claimable(r) ==
  /\ \/ r.status = "PENDING"
     \/ r.status = "RUNNING" /\ r.lease = "expired"
  /\ r.retry = "due"
  /\ ~r.cancelRequested

\* Mutant: a claim of an expired lease leaves the old owner in the row.
ClaimedForOldOwner(r, w) ==
  [r EXCEPT !.status = "RUNNING", !.lease = "live",
            !.workerId = IF @ = NoWorker THEN w ELSE @,
            !.attempt = IF @ < AttemptCap THEN @ + 1 ELSE @]

\* Mutant: the claim sets no leaseExpiresAt.
ClaimedWithoutLease(r, w) ==
  [r EXCEPT !.status = "RUNNING", !.workerId = w,
            !.attempt = IF @ < AttemptCap THEN @ + 1 ELSE @]

Claimed(r, w) ==
  [r EXCEPT !.status = "RUNNING", !.workerId = w, !.lease = "live",
            !.attempt = IF @ < AttemptCap THEN @ + 1 ELSE @]

(* renewLease and completeJob: WHERE id, workerId, status = 'RUNNING' *)

\* Mutant: the guard tests the status the job had before the claim.
OwnedPending(r, w) == r.status = "PENDING" /\ r.workerId = w

OwnedRunning(r, w) == r.status = "RUNNING" /\ r.workerId = w

Renewed(r, w) == IF OwnedRunning(r, w) THEN [r EXCEPT !.lease = "live"] ELSE r

Completed(r, w) ==
  IF OwnedRunning(r, w) THEN [r EXCEPT !.status = "COMPLETED"] ELSE r

(* requestJobCancellation and cancelJob: WHERE id only *)

Cancelled(r) == [r EXCEPT !.status = "CANCELLED", !.cancelRequested = TRUE]

\* checkCancellationRequested
CancelSeen(r) == r.cancelRequested \/ r.status = "CANCELLED"

\* The statuses for which requestJobCancellation goes on to write.
Cancellable(r) == r.status \notin {"CANCELLED", "COMPLETED", "DEAD_LETTER"}

(* failJob: the decision is taken from an earlier read, WHERE id only *)

\* Number(job.attempt || 1)
AttemptRead(r) == IF r.attempt = 0 THEN 1 ELSE r.attempt

DeadLetters(attempt, class) ==
  class = "INVARIANT_FAILURE" \/ attempt >= MaxRetries

\* Mutant: a failed job is always retried.
FailedRetriesForever(r, attempt, class) ==
  [r EXCEPT !.status = "PENDING", !.workerId = NoWorker, !.lease = "none",
            !.retry = "wait"]

Failed(r, attempt, class) ==
  [r EXCEPT !.status = IF DeadLetters(attempt, class)
                         THEN "DEAD_LETTER" ELSE "PENDING",
            !.workerId = NoWorker,
            !.lease = "none",
            !.retry = IF DeadLetters(attempt, class) THEN "due" ELSE "wait"]

(* detectAndReclaimStalledJobs: SELECT, then UPDATE ... WHERE id *)

Stalled(r) == r.status = "RUNNING" /\ r.lease = "expired"

Reclaimed(r, attempt) ==
  [r EXCEPT !.status = IF attempt >= MaxRetries
                         THEN "DEAD_LETTER" ELSE "PENDING",
            !.workerId = NoWorker,
            !.lease = "none",
            !.retry = IF attempt >= MaxRetries THEN @ ELSE "wait"]

(* replayJob: WHERE id, tenantId, status = 'DEAD_LETTER' *)

Replayed(r) ==
  IF r.status = "DEAD_LETTER" THEN NewJob ELSE r
=============================================================================
