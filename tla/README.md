# A TLA+ model of SettleMate AI's core

SettleMate AI reconciles payments, settlements and bank credits. Most of its
code is a web application; what is hard to test is the part that runs work in
the background, where several processes, browser tabs and API calls act on the
same rows and queues with leases, retries, cancellations and crashes, the part
where reviewers and runs act on the same exceptions, corrections and batches,
and the arithmetic of matching, whose branches meet at tolerances. This
directory models these parts in TLA+, checks them with TLC on small instances
and proves the main safety properties with TLAPS for every instance.

## 1. Inventory

Paths are relative to `src/lib/` of the repository.

| Component | State | Operations | Interacts with | Hard behaviour | What makes it correct |
|---|---|---|---|---|---|
| Durable job worker (`workers/durable-job-worker.ts`) | `AsyncJob` rows, the job's `Batch` row | enqueue, claim, renew, complete, fail, cancel, sweep, replay, worker loop | database, API routes | every operation is several statements; some are guarded by worker and status, some by id only | one job per key, cancelled jobs do not run, dead workers' jobs are found, the `workerId` guard fences late workers, jobs end |
| Job stepper (`stepJobChunk`, same file, and the step route) | progress and checkpoint of a row, generated records, in-process in-flight counter | one bounded slice per HTTP request | job rows, generator tables, cancellation, sweep | the snapshot is read before the claim, the claim steals, insert errors are swallowed | the checkpoint is backed by data, slots are given back, stepping ends |
| Cross-partition registry (`reconciliation/distributed/cross-partition.ts`) | index by UTR with lease owner, expiry, version | register, acquire/renew, commit, release, direct claim | workers of other partitions | answers used late, two ways to consume | no double consumption, stale commits refused, a lease reserves |
| Partition queue (`reconciliation/distributed/queue.ts`) | messages, pending order, lease index | enqueue, claim, ack, nack, metrics | workers, orchestrator | expiry, backoff, late ack/nack | lease index agrees with statuses, bounded deliveries, acknowledged is final |
| Workers and orchestrator (`worker.ts`, `orchestrator.ts`, `storage.ts` beside it) | worker batches, staged results | batch loop, streaming loop, producer with backpressure | queue, storage | leaving the loop, dying before staging | the run ends, nothing acknowledged is lost, all is staged |
| Durable partitioned queue (`durable-queue.ts` beside it) | per-partition logs, consumer group, queued count, drain listeners | publish, poll, commit, dead-letter, join, leave, wait for drain | producers waiting for drain | counters at the limit, waiters, late commits, rebalance | the count is never too high, each partition has one owner, the watermark bounds the queue, no wake-up is lost |
| Scale run (`reconciliation/scale/durable.ts`, `scale-run.ts`) | `ScaleRun`, `ScalePartition` rows | create, claim a batch, complete a batch, finalize | database, engine | read-modify-write counters, claims without a lease | progress is never ahead of the work, a completed run is whole |
| Reconciliation run (`reconciliation/engine.ts`, `multi-pass.ts`, `ledger.ts` and their routes) | batch status, `ReconciliationLock`, results, exceptions, ledger sets, snapshots | the two entry points, each a sequence of statements | database, audit chain | two locks that do not know each other, stale locks, a death between any two statements | a settled batch is one run's work, the lock is not lost, failed invariants block, a lost run is taken up again |
| Webhook outbox (`webhooks/webhook-outbox-worker.ts`) | outbox entries | enqueue, claim, deliver, write back, replay | HTTP receivers | copies written back late, slow and dying workers | duplicates have a reason, every entry is decided |
| Audit chain (`reconciliation/audit-chain.ts`) | `AuditEvent` rows of a batch | append (in or outside a transaction), verify | engine, exception workflow | two statements and a unique key, retries, lost replies, aborted transactions | it verifies, what was returned is stored, it is an append-only log |
| Exception workflow (`exceptions/service.ts`, `state-machine.ts`) | exception row, `AuditLog`, audit chain | one transition request in a transaction | audit chain, API | concurrent reviewers and the AI, roll back of one of several writes | the log is a walk of the state machine, resolution is verified and human, both records agree |
| Corrections (`corrections/`) | the proposal's record, approval locks | propose, approve, reject | API | a copy read before an await and written after it | approved once per proposal, what is approved balances |
| Policy manager (`policy/manager.ts`) | versions, active version, replay reports | draft, replay, transitions, rollback | API | long sequences of legal calls, calls that throw half way | one active version, approved by someone other than its author (a rollback is the exception: section 4) |
| Event broker (`events/event-broker.ts`, the stream route) | cache, domain event store, subscribers | publish, notify, subscribe, replay | PostgreSQL `NOTIFY`, SSE clients | disconnects, bounded stores, overtaking | a reconnecting client misses nothing without a named reason |
| Matching engine (`reconciliation/matcher.ts`, `indexer.ts`, `confidence.ts`, `cardinality.ts`, `apply-cardinality.ts`, `scale/strategy.ts`, `scale/clusters.ts`, `invariants.ts`) | the rows, credits and relationships of one run | match a payment, detect orphans, three passes or the date buckets, the gate | the reconciliation run, which stores what it returns | order of the payments, tolerances, pruned searches, records used up by an earlier pass | matched means paid, groups are the best and disjoint, the gate stops no well-formed batch |
| Invoice solver (`solver/cpsat-engine.ts`, `verifier.ts`, `replay.ts`) | the path of a search, the best selection | solve, time out, verify, replay | API | a deadline at any node, pruning, caps | optimal is optimal, infeasible is infeasible, answers verify, a replay differs only by the clock |
| Decision pipeline, terminal receipts, invoice consumption, closure loop, adjustment ledger, source lifecycle, evidence vault, rate limiters | process-local maps, changed in synchronous steps | – | demonstration and routes | little: no await between a read and its write | not modelled |
| Risk decisions, AI council, storage and ingestion adapters, routes | none of their own, or pure I/O | – | – | – | not modelled: classification of one row, calls to language models, or I/O |

`PROJECT.json` lists every component with its status, and under `hazards` the
lines at which this code is hard to test; the note of a hazard says which part of
it its properties do not catch.

## 2. Modules and how they correspond to the code

| Module | Models |
|---|---|
| `JobTable` | the `AsyncJob` row and its SQL statements, one operator per statement |
| `DurableJobWorker` | the worker loop, cancellation, sweep and replay over several jobs; extends `JobTable` |
| `JobStepper` | step requests over one `BATCH_GENERATION` job; extends `JobTable` |
| `CrossPartitionRegistry` | the registry |
| `PartitionQueue` | `InMemoryDistributedQueue` |
| `PartitionCluster` | workers, producer and both run loops; extends (composes with) `PartitionQueue` |
| `JobEnqueue` | concurrent `enqueueJob` calls with one idempotency key, in several processes |
| `DurableQueue` | `DurablePartitionedQueue` with producers and consumers |
| `ScaleRun` | `runScalableCardinality` over the persisted rows |
| `WebhookOutbox` | the outbox and its deliverers |
| `ReconciliationRun` | both entry points of a reconciliation, `runReconciliation` and `persistLedger` |
| `AppendLog` | abstract: a log that only grows at its end |
| `AuditChain` | `appendAuditEvent` and the verification; implements `AppendLog` |
| `ExceptionWorkflow` | `transitionException`; extends (composes with) `AuditChain` |
| `CorrectionRepository`, `PolicyManager`, `EventBroker` | the component of that name |
| `MatchingEngine` | one deterministic run: matcher, groups on both paths, invariant gate |
| `InvoiceSolver` | one solve, node by node, its verification and its replay |
| `*Proofs` | the theorems of the module of that name; `MatchingProofs` those of `MatchingEngine`, `StoresProofs` those of `CrossPartitionRegistry`, `DurableQueue`, `EventBroker`, `JobEnqueue` and of their sum `MCStores`, `RecoveryProofs` those of `ReconciliationRun`, `ScaleRun`, `WebhookOutbox` and of `MCRecovery`, `ReviewDeskProofs` those of `AuditChain`, `ExceptionWorkflow`, `CorrectionRepository` and `PolicyManager` |
| `MC*` | instances for TLC: who steps for which user, which settlements share a UTR, symmetry, and the sums of several components (below) |

**Atomicity.** In the job modules one action is one database statement together
with the synchronous code around it; anything may happen between two
statements. The same holds of `JobEnqueue`, `ScaleRun`, `ReconciliationRun`,
`AuditChain` and `ExceptionWorkflow`; in the last a transaction's writes become
visible at its commit and its first write locks the row. `failJob`, for
instance, is `FailRead` (findUnique) and `FailWrite` (updateMany by id), and the
value read travels in the worker's `seen`. The registry, the queues and the
policies are in-memory JavaScript objects whose methods do not await: there one
action is one method call. The outbox, the corrections and the broker are in
memory too, and their methods
await between a read and its write: an action ends at the await.

`MatchingEngine` and `InvoiceSolver` are sequential: an action is one turn of a
loop of the code (a payment, a credit, a bucket; a node of the search), so that
a property is evaluated between any two turns, and the nondeterminism is in the
input and, for the solver, in the node at which the deadline passes.

**Time.** In the other modules no clock is modelled; each timestamp is abstracted to the outcome of
the comparisons the code makes (`lease` is none, live or expired; `retry` and
`backoff` are due or not) and an external action moves it on. In
`MatchingEngine` times are data of the batch, in hours, and amounts are in paise,
both compared with the code's own constants.

**Sums of components.** `MCRecovery`, `MCReviewDesk` and `MCStores` each check
several components in one run. The components of a sum share no variable and no
code; a variable `focus`, chosen in the initial state, says whose behaviour this
is, and the others stay as they began. Each component is thus explored exactly
as on its own (its states add to the others' instead of multiplying), and its
fairness is stated under its own focus. `MCWorkerRuns` sums two regimes of one
component in the same way, `MCClusterRuns` two loops. What does interact is
composed for real: the workflow with the audit chain, the cluster with its queue.

**Data.** A job's payload, messages and settlements are model values. A
generated record is its index below `Total`. Failures are abstracted to the
three classes the code treats differently. `attempt` saturates above
`MaxRetries`, where no comparison tells values apart.

**Faults** are switched by constants, so that a run can say under which faults a
property holds: `MayExpire` (a worker is slower than its lease), `MayCrash`,
`MayCancel`, `MayReplay`, `DbMayFail` (a statement inside `try { } catch { }`
fails and is swallowed), `HandlerMayThrow`, `InsertMayFail` and `UniqueKeys`
(the database refuses a `createMany` with an existing id: the keys are declared
in `schema.postgresql.prisma`, and neither in `schema.prisma` nor in the
migrations).

**Left out of the modelled components.** The process-local mirror of the job
table (`localMemoryQueue`): the models are of a process that did not enqueue the
job, as behind a load balancer. `JobItem` rows, which no production caller
writes. The step handler for job types other than `BATCH_GENERATION`. The
adaptive chunk size: a request may use any of a set of sizes.
`BoundedCrossPartitionResolver`, a pure algorithm. The queue's `renewLease`,
which neither loop calls, and the scale run's operations on single partitions,
which only tests call. Nothing under `src/` starts
a `DistributedJobWorker` or the outbox's claim in production; they are modelled
as their tests and their documentation use them. In
`ReconciliationRun`, what the engine computes is
abstracted to the routing the risk gate comes to, the shadow replay of a policy
to its verdict, a digest to the sequence of what was hashed.

## 3. Runs

Bounds are named in the cfg files. Two workers (or requests) are the least with
which one can lose what another gains, and the properties relate two of them; a
budget of `MaxRetries = 2` gives a first try, a retry and an exhausted job. The
other bounds are counts of faults or calls: one fault is enough for a property
about what one fault leaves behind, and the second actor is what meets it.

| Run | States | What it asks |
|---|---|---|
| `worker_races` | 1.7 M | One job, two workers, all faults: `CancelBlocksExecution`, `ClaimFencing`. One job is enough because statements touch one row and the sweep treats its rows one by one; the proofs cover any number. |
| `worker_runs` | 333 k | Liveness, in two regimes. Faulty, one job with crashes, stops, expiries and replays: `OrphansReclaimed`. Calm, two jobs and two workers, throwing handlers, but leases renewed in time and no cancellation: every job ends (`CalmJobsFinish`), batches follow jobs (`BatchFollowsJob`). |
| `stepper_races` | 3.9 M | Two users' requests, cancellation, sweep, throws; three records and chunks of one or two, so that slices overlap in part: `CheckpointCovered`, `CancelBlocksExecution`, `InFlightExact`. |
| `stepper_finish` | 177 k | Three tabs of one user, limit two: `StepsFinishJob`. |
| `stepper_overlap` | violation | With unique keys, two requests of different chunk sizes lose records for good: the refused insert is swallowed and the checkpoint passes it. |
| `cluster_races` | 169 k | Streaming loop, three messages (more than a batch), two workers, all faults: `DeliveryBound`, `CompletedIsFinal`. |
| `cluster_runs` | 57 k | Both loops with expiring leases, no throws or deaths: `AllStaged`, `RunEnds`. |
| `recovery` | 246 k | The reconciliation of a batch (two calls of four clients through both entry points, one fault): `SettledIsConsistent`, `LockKeptWhileRunning`, `FailClosed`, `MultiPassRecovers`. The scale run (three partitions claimed by two, two invocations, one death): `ScaleProgressSound`. The outbox (two events, two workers, a slow one, a dead one, a replay): `DuplicatesExplained`, `OutboxSettles`. |
| `review_desk` | 218 k | Two human reviewers, the AI and the engine on one exception and its audit chain: `ChainVerifies`, `AnswersHold`, `ChainIsLog` (the refinement), `AuditWalk`, `ResolvedWasVerified`, `LineageMatchesAudit`; `MaxLog = 7` is the shortest log with a reopened resolution. Corrections (two reviewers, two proposals, amounts that do and do not balance): `ApprovalsSound`. Policies (three versions, two people and the override's name): `InForceIsSound`, of the recorded authors and approvers. |
| `stores` | 820 k | The registry (two workers; two settlements on a UTR that is also claimed directly, a third on its own; `VersionCap = 4` allows a holder, its successor and a return to the first): `SingleConsumption`, `CommitFenced`, `LiveLeaseHeld`. The durable queue (two consumers that join and leave, two producers): `BackpressureSound`. Three `enqueueJob` calls in two processes: `IdempotentEnqueue`. The event broker, with fewer places in cache, store and replay than events: `GapOnlyWhenExcused`. The matching engine over 3376 batches, each on both paths: `MatchesSound`, `GroupsSound`, `AccountedFor`. The solver over 1160 requests: `SolverAnswersHold`. |
| `reconcile_held` | violation | A multi-pass run of a batch that is held for review marks it COMPLETED. |
| `policy_rollback` | violation | One person drafts rules and puts them in force alone, by a rollback to the draft: `RulesWereVetted`. |

**Batches and requests of `stores`.** A property of the matcher can fail only
where two records compete for one or where an amount or a time lies at a bound,
so the batches (`MCStores`) are small and their values lie on both sides of the
bounds: two payments and two credits with every mix of equal, different and
missing UTRs, missing dates, amounts one paisa beyond the tolerance and times at
the end of the windows; a payment with counted and uncounted refunds and
chargebacks, settled never, once or twice; four settlements and three credits
with groups of two and three, exact and tolerated ones; and settlements of one
payment in two date buckets. Every status of the matcher, every type of
relationship on each path and both verdicts of the gate occur. The bounds that
the code sets at 12 items, 8 per group, 24 candidates and 3000 groups are 6, 3, 4
and 10: `MaxGroupSize` is smaller than the number of settlements, so that it
cuts. Four candidates are enough for these batches; that a longer list is cut to
the nearest is in the model, and what follows is in section 5 (`Uncut`). The solver gets four invoices where it considers three (`CandidatesCap`),
so that the cut matters.

Deadlock is not checked: jobs, runs and stores come to rest when there is
nothing left to do, and progress is stated as liveness instead. `recovery`
and `stores` check the type invariants of their components; those of the other
modules are theorems or parts of the inductive invariants of section 5.

**Fairness.** `DurableJobWorker`: a worker's loop goes on (`while (running)`
with a poll interval; handlers are assumed to return or throw), the clock
advances, and the job list route keeps being called, since it is the only
caller of the sweep. Lease expiry is fair only for a job nobody renews.
`JobStepper`: the browser steps until the job ends and the server runs each
request. `PartitionCluster`: Node's event loop serves every worker and the
producer, and time passes. `ReconciliationRun`: the server runs each request it
has begun and an abandoned lock grows old; `MultiPassRecovers` presupposes more
clients that ask than there are faults. `WebhookOutbox`: workers go on claiming
and posting, and leases end. Heartbeats, crashes, cancellations, replays and
throws are never forced.

**Mutants.** Each property of each passing run has, beside the definition it
depends on, a mutated form of that definition (a dropped guard, a missing reset,
an off-by-one) under which the run fails; `PROJECT.json` lists them.

## 4. What the documentation says and the code does not do

Besides the three violation runs, these statements of the code's comments, docs
and tests fail in the model. Each was reproduced by checking the property with
the constants of the run named, changed as said.

| Property | Constants | What happens |
|---|---|---|
| `CompletedIsTerminal`, `CancelledIsTerminal` | `worker_races` | The sweep or `failJob`, which write by id only, rewrite a job that was completed or cancelled between their read and their write (a cancelled one still does not run: `CancelBlocksExecution`). `COMPLETED: ["COMPLETED"], // Terminal`. |
| `BatchFollowsJob` | `worker_races` | `completeJob` marks the batch COMPLETED although its update of the job matched no row. |
| `RetryBudget` | `worker_races` | A claim of an expired lease does not compare `attempt` with `maxRetries`. |
| `NonRetryableNotRetried` | `worker_races`, `DbMayFail = FALSE` | `failJob` retries a BUSINESS_RULE_ERROR that `classifyFailure` calls not retryable. |
| `StepsFinishJob` | `stepper_finish`, `UserOf <- TwoUsers` | Two users steal the claim from each other for ever and each loses its checkpoint. |
| `CheckpointCovered` | `stepper_finish`, `InsertMayFail = TRUE` | A failed `createMany` is swallowed and the checkpoint advances. |
| `InsertedOnce` | `stepper_races` | Without unique keys two requests with one snapshot insert the same records twice. |
| `SingleConsumption` | `stores`, `MayReRegister = TRUE` | Registering a settlement again makes a consumed one available. |
| `RunEnds` | `cluster_runs`, `HandlerMayThrow = TRUE` | One throwing handler makes the streaming run wait for ever: the nacked message is polled before its backoff is over and loses its place in the queue (`PendingIsQueued`). |
| `AllStaged` | `cluster_races` under `FairSpec`, `HandlerMayThrow = FALSE`, either loop | A worker dies between the acknowledgement and `stageResults`; or the others leave after their idle polls while its leases are still to expire. |
| `StagedOnce` | `cluster_races` | A batch that outlives its lease is reconciled by two workers and staged twice. |
| `HolderEndsLease` | `cluster_races` | A late nack ends the lease of the worker that holds the message now. |
| `OneRunAtATime` | `recovery` | The plain route and a multi-pass run have locks that do not know each other, so both run ("at most one in-flight run per batch"). |
| `RunsOnce` | `recovery` | The snapshot is looked for before the lock is taken and not after: a call that waited runs again. |
| `ProcessingEnds` | `recovery` | A run that died leaves PROCESSING, which the plain route refuses from then on. |
| `ResumedIsWhole`, `NeverDoubleCounts`, `ClaimedByOne` | `recovery` | A second invocation with the runId does not get what a dead one had claimed; two at once can claim the same partitions and count them twice. In production the runId is drawn for each run, so no run is resumed. |
| `DeliveredIsFinal` | `recovery` | A slow worker's copy overwrites DELIVERED. |
| `FailedIsRetried` | `recovery` | The claim takes no FAILED entry: the backoff of a failed delivery is never acted upon. |
| `DecisionIsFinal` | `review_desk` | `rejectCorrection` takes no lock and overwrites an approval; posting a proposal again replaces an approved record, too. |
| `InForcePasses` | `review_desk` | A shadow replay after the approval replaces the report; activation does not look at it. |
| `RollbackToFormerActive` | `review_desk` | The target of a rollback may be a draft nobody approved (`policy_rollback` shows what follows). A rollback that throws leaves its SHADOW copy, which blocks the same rollback from then on. |
| `WokenWhenLow` | `stores` | Dead-lettering lowers the count and wakes no producer. |
| `OffsetCoversCommitted` | `stores` | Offsets are committed out of order, past events that are still open. |
| `OneJobPerKey` | `stores` | One failed statement is answered with a job of the process, which no other process sees. |
| `ReplayIsComplete` | `stores` | A client away for longer than one replay gets the oldest events and then the live ones. |
| `BothPathsLabel` | `stores` | On the path of large batches a payment with settlements in two buckets shows only the credits of the last relationship applied ("so both paths label results consistently", `apply-cardinality.ts` 74). |
| `GroupsAreTimely` | `stores` | The N:M search has no time window ("timing -> amount -> lexical ID", `cardinality.ts` 6). |
| `AdjustmentsAttached`, `EveryPaymentHasRow` | `stores` | The index leaves out refunds not yet processed and closed chargebacks, and the matcher payments that were not captured, while the gate counts them all: such a batch is stopped though nothing is lost (`invariants.ts` 131, 157). |
| `ReplayReproduces` | `stores` | A replay of a solve that ran into its deadline, or one that runs into it itself, diverges ("100% reproducible", `replay.ts` 5). |
| `InfeasibleIsProved` | `stores` | Over a request that was cut to the cap, INFEASIBLE is reported although a split with a dropped invoice exists. |

More are visible without a model: the meet-in-the-middle strategy in the header
of `cardinality.ts` is not called; `MAX_CONCURRENT_STEPS` is 4 where
`stepJobChunk` documents 2, and the list route calls
`detectAndReclaimStalledJobs(30000, 3)`, whose second parameter is a delay in
milliseconds, not a number of retries. `claimCrossPartitionCandidate` does not
look at leases, which is why `LiveLeaseHeld` speaks of UTRs nobody claims
directly.

## 5. Theorems

All are about the specification of the module the proofs extend, for every
value of its constants that satisfies the named `ASSUME`s (which TLC evaluates
in each run). Safety only.

- `DurableJobWorkerProofs`. `TypeCorrect`; `RowSafety`: `CancelBlocksExecution`
  and `LeaseTracksStatus`; `Fencing`: `ClaimFencing`. The row predicate
  `RowSafe` is inductive by itself: each SQL statement of `JobTable` keeps it
  for the row it writes (one lemma per statement), so the proof over actions
  only has to say which statement each one applies. `ClaimFencing` needs it: a
  statement that leaves the row RUNNING keeps its attempt, and one that changes
  the attempt also changes the owner or is the worker's own claim.
  `BatchHonest`: `BatchFollowsJob` under `~MayExpire`, `~MayCancel` and
  `~DbMayFail`. Each of the three is needed: after an expired lease or a
  cancellation the update of the row matches nothing, and after a failed
  statement it did nothing, but the worker goes on to mark the batch (where
  those switches are on, the property is not claimed). `Undisturbed` says that the
  row of a worker's job is RUNNING under its name until its own update, and
  COMPLETED from there to the update of the batch; failures, stops, retries,
  replays and crashes do not disturb it (without expiry the job of a crashed
  worker stays RUNNING).
- `JobStepperProofs`. `StepperTypeCorrect`; `InFlightCounted`: `InFlightExact`
  for any finite set of requests and any limit; `CheckpointSafe`:
  `CheckpointCovered` if inserts neither fail nor are refused;
  `StepperCancelBlocks`: `CancelBlocksExecution`. The inductive
  invariants say, per place in a request, whether it holds a slot (`SlotInv`)
  and which records are known to be inserted (`CoverInv`: everything below the
  snapshot, and the slice as well once the insert was done); `CheckpointCovered`
  alone is not inductive because a request carries its slice past the insert.
- `StoresProofs`, registry. `RegistryTypeCorrect`; `ConsumedOnce`:
  `SingleConsumption`, and `StaleCommitsFenced`: `CommitFenced`, if no
  settlement is registered twice; `LeaseIsReservation`: `LiveLeaseHeld`. The
  invariant `RegInv` relates the entries to what was registered (`KeyInv`),
  wins to consumed or replaced entries (`WinInv`) and tickets to versions
  (`FenceInv`); `LiveInv` says that a live ticket is the entry's last grant.
- `StoresProofs`, durable queue. `QueueBackpressure`: `BackpressureSound` for any
  finite set of producers. In `CountInv` a producer that was let through, by the
  test of the count or by a drain, counts as if it had published already:
  without that the high watermark bounds nothing, because the test and the
  publication are two steps. The wake-up needs that the count is at most the
  number of open events, an invariant over the cardinality of that set.
- `StoresProofs`, broker. `BrokerGaps`: `GapOnlyWhenExcused`. `InOrder` says
  that events are on their way in the order of their publication,
  `NothingMissed` that, while nothing was excused, the store has every event and
  the client everything up to the id it remembers, also while it is away. The
  replay is then complete because the threshold, found in the cache or zero, is
  not above that id.
- `StoresProofs`, enqueueing and the sum. `EnqueueIsIdempotent`:
  `IdempotentEnqueue`; the invariant adds `RacedHasRow`: while no statement
  failed without effect, a call is in the catch block only because a row with the
  key was stored. `StoresTypeCorrect`: `StoresTypeOK`; a step of the sum is a step
  of one component and a stutter of the others, so the six inductive invariants
  together are inductive.
- `PartitionClusterProofs`. `QueueSafety`: `ActiveIsRunning` and
  `DeliveryBound`; `CompletedForGood`: `CompletedIsFinal`. `DeliveryBound`
  needs the invariant that ties the deliveries of a message to its retry count
  and status (a waiting or leased message has retries left).
- `ReviewDeskProofs`, audit chain. `ChainAlwaysVerifies`: `ChainVerifies`; `ChainAnswersHold`:
  `AnswersHold`; `ChainImplementsLog`: `ChainIsLog`, the refinement of
  `AppendLog` with the digest of the last row as the log. `ChainInv` says that
  the rows are numbered 0..n-1 and linked, that what an appender has read is the
  hash before the number it will use (rows never change), and how its attempts
  relate to n; the create the unique key lets through has the number n and
  prolongs the chain by one link. `ChainVerifies` alone is not inductive: it
  says nothing of what is about to be inserted.
- `ReviewDeskProofs`, exception workflow. `WorkflowUsesChain`: every behaviour of the
  workflow is one of the chain, so that the three theorems above hold in the
  composition; `WorkflowWalks`: `AuditWalk`; `WorkflowResolves`:
  `ResolvedWasVerified`. `RowInv` adds to them that at most one transaction
  holds the row, which is as it found it, and that what is under way was
  validated against the table and the actor. `WorkflowLineage`:
  `LineageMatchesAudit`. The property counts: the entry of rank k among the
  transitions in the chain is the k-th of the lineage, so that an appended link
  changes one rank (`ChosenEntry`) or none (`UnchosenEntry`) and no induction
  over filtered sequences is needed; `PayloadsRight` carries, up to the
  append inside the transaction, that its payload is the transition that holds
  the row, and that appends from elsewhere carry no transition.
- `ReviewDeskProofs`, corrections and policies. `CorrectionApprovals`: `ApprovalsSound`.
  `CorrectionInv`: the lock has one holder, while
  anything undecided can still be approved a proposal is left to be counted for
  it, and every copy in flight is as sound as the stored record.
  `PolicyInForce`: `InForceIsSound`, where `PolicyInv` adds that the parent
  of a version is or was in force, that the parent of the active one is
  superseded, that an approver is recorded exactly from APPROVED on, and that the
  version of a rollback has two names or more, which tells it from a draft's. The
  theorem is about the recorded approver and author: a draft in force was approved
  by a second person, while a rollback may be approved by the literal
  `CONTROLLER_OVERRIDE`, so that of a rollback it does not say that two people
  agreed to it. They need not have: `policy_rollback`.
- `RecoveryProofs`. `ReconFailsClosed`: `FailClosed`, from `GateInv`
  (no call of a blocked batch is beyond the gate); `ReconKeepsLock`:
  `LockKeptWhileRunning`, from `LockInv` (a token is drawn once, so two holders
  differ, and both deletions of the lock compare tokens). `ReconSettles`:
  `SettledIsConsistent`, from `LedgerTop` (one set has the newest version)
  and `StagesKnown` (while runs do not overlap, what the tables hold at each
  place of the one that is under way, and that the batch is in no final status
  meanwhile). `ScaleProgress`: `ScaleProgressSound`, from
  `ProgressInv` (a batch in the hands of the only invocation is not yet completed,
  or completed and not yet counted) and `WholeInv` (at each place of an
  undisturbed invocation, what is done, counted and matched).
  `OutboxDuplicates`: `DuplicatesExplained`; in `OutboxInv` a delivery that may
  still be made counts as made: a claim and the answer to it are two steps, and
  between them the count alone says nothing.
  `RecoveryTypeCorrect`: the type invariant of the run that sums the three.
- `InvoiceSolverProofs`. `SolverAnswers`: `SolverTypeOK` and `SolverAnswersHold`
  for every request that the schema lets through and any positive caps. A path of
  the search is an ascending sequence of places in the candidates. `SearchInv`
  says that the paths that precede, in lexical order, the one the search is about
  to try lie behind it: `best` is the first of the best good ones among them.
  A step keeps this because a good path it skips would go on from a leaf or from
  an invoice that was too large (`LeafEnds`, `TooLarge`); the candidates ascend
  (`SortedFacts`) and a larger set has no smaller sum (`SumGrows`), so that the
  path would not be good. At the root's end nothing is left to try and `best`
  beats every good path; there is one such path (`FinalUnique`), which is why two
  solves without a deadline agree, and unless candidates were dropped each
  admissible selection is that of a path (`Covers`). The sum is the only
  recursive definition; what is needed of it (it is total, zero for no invoice,
  and grows by the amount of an added one) is proved with an induction over a
  set of places (`Upwards`).

- `MatchingProofs`, for any set of batches of the records' types (`BatchRecord`:
  any number of payments, settlements, credits, refunds and chargebacks, any
  amounts and times) and any positive limits of the searches. An action is one
  turn of a loop, so the proof is about long runs whose rows are rewritten while
  they go on.
  `MatchesStaySound`: `MatchesSound`. An AUTO_MATCHED row has a credit and a
  grouping rewrites only rows that have none, so that it stays backed, and the
  rewritten rows carry the type of the grouping. What has to be known of
  everything else is `Held`: the credits that rows show are those in use, stage by
  stage (`Claims`: during the orphan detection a credit can be shown and not yet
  used), and relationships that are still to be applied hold open settlements, free
  credits and only buckets that lie behind (`Waiting`).
  `AlwaysGroupedOnce`: `GroupedOnce`, the part of `GroupsSound` that needs no
  hypothesis. A search is given open settlements and free credits and returns some
  of them. On the path of small batches `Labelled` adds that the rows of a
  relationship show its credits, so that they are open no more; on the other,
  nothing is applied before all buckets were searched, and buckets are disjoint.
  `WellFormedPasses`: `AccountedFor` on both paths. `Accounted` says that each
  captured payment the matcher has come to has a row with all its settlements,
  and that the sum of the rows' expected amounts is that of those payments; the
  credits of the gate follow from `Claims`.
  `GroupsStaySound`: `GroupsSound` on every batch that is `Uncut`: no record has
  more candidates within its time window than the search considers, and no amount
  is negative. Both conditions are needed. The property compares with all subsets
  of the candidates, and of a list that is cut a subset may be lost. With a
  negative amount the search may stop too early: a larger group can come back to
  the target (the bank adapter drops rows that are not positive; nothing
  on the upload path refuses a negative settlement). Every batch of the `stores`
  run is `Uncut`. The pruned search visits selections in lexical order; a
  group it does not visit goes on from one whose sum has reached the target, so it
  is no closer and has more records, and being closer, or as close and smaller, is
  an order (`Beats`). `Left` carries through the passes that what a pass searched
  in vain stays so: later steps only close settlements and use credits, and fewer
  records have fewer groups. `MatchingTyped` is the type invariant.

**What the proofs about recursion rest on.** Sums, the two searches of the
matching engine and the paths of the solver are recursive functions. That
each exists and what it returns is proved with induction over its argument by
way of a set of numbers without a least element (`Upwards`), since an induction
theorem that takes a predicate cannot be instantiated here.

**Only model-checked:** liveness (`OrphansReclaimed`, `CalmJobsFinish`,
`StepsFinishJob`, `AllStaged`, `RunEnds`, `MultiPassRecovers`, `OutboxSettles`),
which the prover does not reach, and `GroupsSound` of batches that are not
`Uncut`, of which it is not true in general. Every invariant that a run checks
is stated by a theorem.

## 6. Not modelled

- The meet-in-the-middle search of `cardinality.ts` has no caller in production.
  The sixth invariant of the gate and the evaluator recompute metrics; the risk
  decision classifies one row after another.
- The AI council calls language models and validates their text; it keeps no
  state that others share.
- Amounts so large that a double rounds them: `diff * 1000` in the solver can
  exceed 2^53 within the limits its schema accepts.
- The decision pipeline, the receipts, the invoices, the closure loop, the
  adjustment ledger, the source lifecycle, the evidence vault and the rate
  limiters keep maps in one process and change them in synchronous steps: there
  is no interleaving to explore, and unit tests reach what they do.
- Storage adapters, ingestion, generators, routes and pages are input, output
  and rendering. What routes do to a modelled store is in that store's module.

## 7. Plan

1. `CheckpointCovered` with unique keys and one chunk size.
2. An abstract specification of a leased job (waiting, held by one, ended),
   which `DurableJobWorker` without unguarded late writes and the partition
   queue are to refine.
3. `BoundedCrossPartitionResolver` as operators against a reference definition.
