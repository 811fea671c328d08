------------------------------ MODULE ScaleRun ------------------------------
(***************************************************************************)
(* src/lib/reconciliation/scale/scale-run.ts over durable.ts: invocations  *)
(* of runScalableCardinality with one runId, statement by statement.  The  *)
(* engine draws a fresh runId for each run, so that one invocation is the  *)
(* normal case; further ones are the resumption the two headers describe.  *)
(*                                                                         *)
(* runScalableCardinality never calls failPartition: FAILED and            *)
(* DEAD_LETTER partitions do not occur, the count of dead letters is zero. *)
(***************************************************************************)
EXTENDS Naturals, FiniteSets

CONSTANTS
  Runner,         \* invocations with the runId
  PlanSize,       \* number of partitions of the plan
  ScaleBatch,     \* BATCH_SIZE of a claim
  CreateChunk,    \* CHUNK of createScaleRun
  ScaleSweeps,    \* SCALE_CONFIG.maxRetries
  MaxRunnerDeaths \* bound: invocations that die or throw

ASSUME ScaleAssumption ==
  /\ {PlanSize, ScaleBatch, CreateChunk, ScaleSweeps} \subseteq Nat \ {0}
  /\ MaxRunnerDeaths \in Nat

VARIABLES
  scaleRun,   \* the ScaleRun row: status, completedPartitions, checkpoint.completed
  parts,      \* the ScalePartition rows: their status
  runner,     \* per invocation: where it is, its batch, the row it read, its results
  runnerDeaths,
  concurrent  \* history: two invocations were under way at once

scaleVars == <<scaleRun, parts, runner, runnerDeaths, concurrent>>

\* In the order of their ids.
Part == 1..PlanSize

RunnerPC == {"idle", "create", "createParts", "claimRead", "claimWrite", "complete",
             "countRead", "countWrite", "finalize", "done", "failed"}

NoRunner == [pc |-> "idle", batch |-> {}, seen |-> 0, logged |-> {}, sweep |-> 0,
             inner |-> FALSE, matched |-> {}]

ScaleInit ==
  /\ scaleRun = [status |-> "ABSENT", completed |-> 0, logged |-> {}]
  /\ parts = [n \in Part |-> "ABSENT"]
  /\ runner = [r \in Runner |-> NoRunner]
  /\ runnerDeaths = 0 /\ concurrent = FALSE

RunnerAt(r, pc) == runner[r].pc = pc
RunnerGoto(r, pc) == runner' = [runner EXCEPT ![r].pc = pc]

RunnerUnderWay(r) == runner[r].pc \notin {"idle", "done", "failed"}

\* createScaleRun: findUnique by the idempotency key.
FindRun(r) ==
  /\ RunnerAt(r, "idle")
  /\ RunnerGoto(r, IF scaleRun.status = "ABSENT" THEN "create" ELSE "claimRead")
  /\ concurrent' = (concurrent \/ \E q \in Runner : RunnerUnderWay(q))
  /\ UNCHANGED <<scaleRun, parts, runnerDeaths>>

\* create; the key is unique, so that the second of two throws.
CreateRun(r) ==
  /\ RunnerAt(r, "create")
  /\ \/ /\ scaleRun.status = "ABSENT"
        /\ scaleRun' = [scaleRun EXCEPT !.status = "RUNNING"]
        /\ RunnerGoto(r, "createParts")
     \/ /\ scaleRun.status # "ABSENT"
        /\ RunnerGoto(r, "failed") /\ UNCHANGED scaleRun
  /\ UNCHANGED <<parts, runnerDeaths, concurrent>>

Absent == {n \in Part : parts[n] = "ABSENT"}

MoreChunks(chunk) == chunk # Absent

FirstOf(ns, k) == {n \in ns : Cardinality({m \in ns : m < n}) < k}

\* createMany, chunk after chunk.
CreateParts(r) ==
  /\ RunnerAt(r, "createParts")
  /\ LET chunk == FirstOf(Absent, CreateChunk)
     IN /\ parts' = [n \in Part |-> IF n \in chunk THEN "PENDING" ELSE parts[n]]
        /\ RunnerGoto(r, IF MoreChunks(chunk) THEN "createParts" ELSE "claimRead")
  /\ UNCHANGED <<scaleRun, runnerDeaths, concurrent>>

\* Mutant: completed partitions are claimed again.
ClaimableStatusDone == {"PENDING", "COMPLETED"}

ClaimableStatus == {"PENDING"}

\* claimNextPartitionBatch: findMany.  An empty answer ends a sweep, and the
\* run when it is the first answer of a sweep or the last sweep.
ClaimRead(r) ==
  /\ RunnerAt(r, "claimRead")
  /\ LET batch == FirstOf({n \in Part : parts[n] \in ClaimableStatus}, ScaleBatch)
         me == runner[r]
     IN runner' = [runner EXCEPT ![r] =
          IF batch # {} THEN [me EXCEPT !.pc = "claimWrite", !.batch = batch, !.inner = TRUE]
          ELSE IF me.inner /\ me.sweep + 1 < ScaleSweeps
                 THEN [me EXCEPT !.sweep = me.sweep + 1, !.inner = FALSE]
          ELSE [me EXCEPT !.pc = "finalize"]]
  /\ UNCHANGED <<scaleRun, parts, runnerDeaths, concurrent>>

\* updateMany by id, whatever the status is by now; then the matching.
ClaimWrite(r) ==
  /\ RunnerAt(r, "claimWrite")
  /\ parts' = [n \in Part |-> IF n \in runner[r].batch THEN "RUNNING" ELSE parts[n]]
  /\ runner' = [runner EXCEPT ![r].pc = "complete", ![r].matched = @ \cup runner[r].batch]
  /\ UNCHANGED <<scaleRun, runnerDeaths, concurrent>>

\* completePartitionBatch: updateMany, findUnique of the run, update of the run.
CompleteParts(r) ==
  /\ RunnerAt(r, "complete")
  /\ parts' = [n \in Part |-> IF n \in runner[r].batch THEN "COMPLETED" ELSE parts[n]]
  /\ RunnerGoto(r, "countRead")
  /\ UNCHANGED <<scaleRun, runnerDeaths, concurrent>>

CountRead(r) ==
  /\ RunnerAt(r, "countRead")
  /\ runner' = [runner EXCEPT ![r].pc = "countWrite", ![r].seen = scaleRun.completed,
                              ![r].logged = scaleRun.logged]
  /\ UNCHANGED <<scaleRun, parts, runnerDeaths, concurrent>>

Counted(seen, batch) == seen + Cardinality(batch)

CountWrite(r) ==
  /\ RunnerAt(r, "countWrite")
  /\ scaleRun' = [scaleRun EXCEPT !.completed = Counted(runner[r].seen, runner[r].batch),
                                  !.logged = runner[r].logged \cup runner[r].batch]
  /\ runner' = [runner EXCEPT ![r].pc = "claimRead", ![r].batch = {}]
  /\ UNCHANGED <<parts, runnerDeaths, concurrent>>

FinalStatus == "COMPLETED"

\* finalizeScaleRun; the report replaces the checkpoint.  What this invocation
\* matched is what the engine stores.
Finalize(r) ==
  /\ RunnerAt(r, "finalize")
  /\ scaleRun' = [scaleRun EXCEPT !.status = FinalStatus, !.logged = {}]
  /\ RunnerGoto(r, "done")
  /\ UNCHANGED <<parts, runnerDeaths, concurrent>>

\* The process dies or a statement throws: nothing is cleaned up.
RunnerDies(r) ==
  /\ RunnerUnderWay(r)
  /\ runnerDeaths < MaxRunnerDeaths /\ runnerDeaths' = runnerDeaths + 1
  /\ RunnerGoto(r, "failed")
  /\ UNCHANGED <<scaleRun, parts, concurrent>>

RunnerStep(r) ==
  \/ FindRun(r) \/ CreateRun(r) \/ CreateParts(r) \/ ClaimRead(r) \/ ClaimWrite(r)
  \/ CompleteParts(r) \/ CountRead(r) \/ CountWrite(r) \/ Finalize(r)

ScaleNext == \E r \in Runner : RunnerStep(r) \/ RunnerDies(r)

ScaleSpec == ScaleInit /\ [][ScaleNext]_scaleVars

-----------------------------------------------------------------------------

DoneParts == {n \in Part : parts[n] = "COMPLETED"}

ScaleTypeOK ==
  /\ scaleRun \in [status : {"ABSENT", "RUNNING", "COMPLETED"}, completed : Nat, logged : SUBSET Part]
  /\ parts \in [Part -> {"ABSENT", "PENDING", "RUNNING", "COMPLETED"}]
  /\ runner \in [Runner -> [pc : RunnerPC, batch : SUBSET Part, seen : Nat, logged : SUBSET Part,
                            sweep : 0..ScaleSweeps, inner : BOOLEAN, matched : SUBSET Part]]

\* As long as invocations do not overlap the progress counter never counts a
\* partition twice and the checkpoint names only completed ones, although an
\* earlier invocation may have died between any two statements.
ProgressNeverAhead ==
  ~concurrent => scaleRun.completed <= Cardinality(DoneParts) /\ scaleRun.logged \subseteq DoneParts

\* A run that COMPLETED without a death or an overlap has worked on the whole
\* plan, counted all of it, and its one invocation has all the relationships.
CompletedIsWhole ==
  scaleRun.status = "COMPLETED" /\ runnerDeaths = 0 /\ ~concurrent =>
    /\ DoneParts = Part /\ scaleRun.completed = PlanSize
    /\ \E r \in Runner : runner[r].matched = Part

\* What the stored run says of its progress, during the run and at its end.
ScaleProgressSound == ProgressNeverAhead /\ CompletedIsWhole

-----------------------------------------------------------------------------
(* Stated by the code and not kept; README.md says when. *)

\* "Resume: a run with COMPLETED partitions skips them and continues from the
\* rest": what a dead invocation had claimed is never claimed again.
ResumedIsWhole == scaleRun.status = "COMPLETED" => DoneParts = Part

\* "it can never double-count".
NeverDoubleCounts == scaleRun.completed <= PlanSize

\* "Claim a batch of runnable partitions atomically".
ClaimedByOne ==
  \A q, r \in Runner : q # r /\ RunnerAt(q, "complete") /\ RunnerAt(r, "complete")
    => runner[q].batch \cap runner[r].batch = {}
=============================================================================
