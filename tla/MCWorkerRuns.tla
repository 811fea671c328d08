---------------------------- MODULE MCWorkerRuns ----------------------------
(* Two regimes of DurableJobWorker in one model-checking instance, which   *)
(* share no state; which of them a behaviour is one of is chosen at the    *)
(* start, the other stays as it began.  Calm, the module extended: jobs    *)
(* whose handlers throw, but no lease runs out, nobody cancels and nobody  *)
(* dies (worker_runs.cfg).  Faulty, the instance: one job, workers that    *)
(* die, stop or outlive their lease, and replays.                          *)
EXTENDS DurableJobWorker

CONSTANT j1  \* the job of the faulty regime

VARIABLES faultyJob, faultyBatch, faultyWk, faultyStopped, faultyCancelPc, faultySweep,
          regime  \* "faulty" or "calm"

Faulty == INSTANCE DurableJobWorker WITH
  Jobs <- {j1}, MayExpire <- TRUE, MayCrash <- TRUE, MayReplay <- TRUE,
  MayCancel <- FALSE, DbMayFail <- FALSE,
  job <- faultyJob, batch <- faultyBatch, wk <- faultyWk, stopped <- faultyStopped,
  cancelPc <- faultyCancelPc, sweep <- faultySweep

faultyVars ==
  <<faultyJob, faultyBatch, faultyWk, faultyStopped, faultyCancelPc, faultySweep>>

RunsInit == regime \in {"faulty", "calm"} /\ Init /\ Faulty!Init

RunsNext ==
  /\ UNCHANGED regime
  /\ \/ regime = "calm" /\ Next /\ UNCHANGED faultyVars
     \/ regime = "faulty" /\ Faulty!Next /\ UNCHANGED vars

\* The fairness of FairSpec, in either regime; in the calm one no lease expires.
RunsSpec ==
  /\ RunsInit /\ [][RunsNext]_<<vars, faultyVars, regime>>
  /\ \A w \in Workers :
       /\ WF_vars(regime = "calm" /\ WorkerStep(w))
       /\ WF_faultyVars(regime = "faulty" /\ Faulty!WorkerStep(w))
  /\ WF_vars(regime = "calm" /\ SweepSelect)
  /\ \A j \in Jobs :
       /\ WF_vars(regime = "calm" /\ SweepUpdate(j))
       /\ WF_vars(regime = "calm" /\ RetryDue(j))
  /\ WF_faultyVars(regime = "faulty" /\ Faulty!SweepSelect)
  /\ WF_faultyVars(regime = "faulty" /\ Faulty!SweepUpdate(j1))
  /\ WF_faultyVars(regime = "faulty" /\ Faulty!Orphan(j1) /\ Faulty!LeaseExpires(j1))
  /\ WF_faultyVars(regime = "faulty" /\ Faulty!RetryDue(j1))

\* "Automatic Dead-Worker Reclamation", with crashes, stops, expiring leases and
\* replays: a running job that no worker is working on does not stay that way.
OrphansReclaimed == Faulty!OrphanReclaimed

\* In the calm regime all jobs end: completed, or dead-lettered after their retries.
CalmJobsFinish == regime = "calm" => JobsFinish
=============================================================================
