------------------------- MODULE ReconciliationRun -------------------------
(***************************************************************************)
(* The reconciliation of one batch, statement by statement:                *)
(*   src/app/api/reconcile/[batchId]/route.ts  the route and its status    *)
(*     lock,                                                               *)
(*   src/lib/reconciliation/multi-pass.ts      the multi-pass run and its  *)
(*     ReconciliationLock row,                                             *)
(*   src/lib/reconciliation/engine.ts          runReconciliation, which    *)
(*     both call,                                                          *)
(*   src/lib/reconciliation/ledger.ts          persistLedger.              *)
(*                                                                         *)
(* What the run computes is abstracted to the routing its data lead to:    *)
(* the data do not change here, so every run of a behaviour comes to the   *)
(* same one.  The AuditLog rows, the appends to the audit chain (module    *)
(* AuditChain), the run's metadata and the passes of the agents change     *)
(* none of this state; that they may throw is part of Throw.               *)
(***************************************************************************)
EXTENDS Naturals, FiniteSets

CONSTANTS
  RouteCall,     \* calls of POST /api/reconcile/[batchId]
  MultiCall,     \* clients of POST /api/reconcile/[batchId]/multi-pass
  MayMissRecords,\* the pre-validation of the route may find tables empty
  MaxCalls,      \* bound: how many of the calls are made
  MaxFaults      \* bound: how many calls die or throw

ASSUME ReconciliationAssumption ==
  /\ RouteCall \cap MultiCall = {}
  /\ MayMissRecords \in BOOLEAN
  /\ MaxCalls \in Nat /\ MaxFaults \in Nat

Call == RouteCall \cup MultiCall

VARIABLES
  routing,     \* what the data of the batch lead to; never changes
  status,      \* Batch.status
  lock,        \* the ReconciliationLock row: its token (0: no row) and age
  snapshots,   \* MULTI_PASS_COMPLETED rows
  results,     \* the runs whose ReconciliationResult rows are stored
  exceptions,  \* the runs whose Exception rows are stored
  ledger,      \* the ledger sets: run, version, ACTIVE or SUPERSEDED
  call,        \* per call: where it is, its token, the token or version it read
  tokens,      \* how many lock tokens were drawn
  faults,      \* how many calls died or threw
  overlapped,  \* history: two runs of the engine were under way at once
  reclaimed    \* history: tokens of locks deleted as stale

reconVars == <<routing, status, lock, snapshots, results, exceptions, ledger,
               call, tokens, faults, overlapped, reclaimed>>

stored == <<results, exceptions, ledger>>
history == <<faults, overlapped, reclaimed>>

Routing == {"STRAIGHT_THROUGH", "CONTROLLED_REVIEW", "MAKER_CHECKER_REQUIRED",
            "CRITICAL_BLOCKED"}

BatchStatus == {"CREATED", "PROCESSING", "CONTROL_FAILURE", "COMPLETED",
                "UNDER_REVIEW", "AWAITING_APPROVAL"}

\* The statuses the route may take the batch from (FAILED and RECONCILED are
\* listed too; nothing here sets them).
Executable == {"CREATED", "CONTROL_FAILURE"}

EnginePC == {"clearResults", "clearExceptions", "storeResults", "storeExceptions",
             "gate", "controlFailure", "ledgerRead", "ledgerSupersede",
             "ledgerInsert", "routeBatch"}

MultiPC == {"lockRow", "staleCheck", "staleDelete", "staleCreate", "snapshot", "release"}

CallPC == EnginePC \cup MultiPC \cup
          {"idle", "peek", "count", "unlock", "start", "done", "dead"}

NoCall == [pc |-> "idle", token |-> 0, seen |-> 0, version |-> 0]

ReconInit ==
  /\ routing \in Routing
  /\ status = "CREATED"
  /\ lock = [token |-> 0, stale |-> FALSE]
  /\ snapshots = 0
  /\ results = {} /\ exceptions = {} /\ ledger = {}
  /\ \E made \in SUBSET Call :
       /\ Cardinality(made) <= MaxCalls
       /\ call = [p \in Call |-> IF p \in made THEN NoCall ELSE [NoCall EXCEPT !.pc = "done"]]
  /\ tokens = 0 /\ faults = 0 /\ overlapped = FALSE /\ reclaimed = {}

At(p, pc) == call[p].pc = pc
Goto(p, pc) == call' = [call EXCEPT ![p].pc = pc]

-----------------------------------------------------------------------------
(* POST /api/reconcile/[batchId] *)

\* updateMany ... where status in Executable.
RouteLock(p) ==
  /\ p \in RouteCall /\ At(p, "idle")
  /\ \/ status \in Executable /\ status' = "PROCESSING" /\ Goto(p, "count")
     \/ status \notin Executable /\ Goto(p, "peek") /\ UNCHANGED status
  /\ UNCHANGED <<routing, lock, snapshots, stored, tokens, history>>

\* findUnique: only PROCESSING is refused, any other status goes on.
RoutePeek(p) ==
  /\ At(p, "peek")
  /\ Goto(p, IF status = "PROCESSING" THEN "done" ELSE "count")
  /\ UNCHANGED <<routing, status, lock, snapshots, stored, tokens, history>>

RouteCount(p) ==
  /\ At(p, "count")
  /\ \/ Goto(p, "start")
     \/ MayMissRecords /\ Goto(p, "unlock")
  /\ UNCHANGED <<routing, status, lock, snapshots, stored, tokens, history>>

\* "Release lock on validation failure".
RouteUnlock(p) ==
  /\ At(p, "unlock")
  /\ status' = "CREATED" /\ Goto(p, "done")
  /\ UNCHANGED <<routing, lock, snapshots, stored, tokens, history>>

-----------------------------------------------------------------------------
(* POST /api/reconcile/[batchId]/multi-pass: runMultiPassIdempotent *)

\* readMultiPassSnapshot; a client that is told "in progress" asks again.
MultiRead(p) ==
  /\ p \in MultiCall /\ At(p, "idle")
  /\ Goto(p, IF snapshots > 0 THEN "done" ELSE "lockRow")
  /\ UNCHANGED <<routing, status, lock, snapshots, stored, tokens, history>>

\* reconciliationLock.create; batchId is unique.
TakeLock(p) ==
  /\ lock' = [token |-> tokens + 1, stale |-> FALSE]
  /\ tokens' = tokens + 1
  /\ call' = [call EXCEPT ![p].pc = "start", ![p].token = tokens + 1]

MultiLock(p) ==
  /\ At(p, "lockRow")
  /\ \/ lock.token = 0 /\ TakeLock(p)
     \/ lock.token # 0 /\ Goto(p, "staleCheck") /\ UNCHANGED <<lock, tokens>>
  /\ UNCHANGED <<routing, status, snapshots, stored, history>>

\* Mutant: a lock is never too old.
FoundStaleNever == FALSE

FoundStale == lock.token # 0 /\ lock.stale

\* findUnique and the age of what it found.
MultiStaleCheck(p) ==
  /\ At(p, "staleCheck")
  /\ IF FoundStale
       THEN call' = [call EXCEPT ![p].pc = "staleDelete", ![p].seen = lock.token]
       ELSE Goto(p, "idle")
  /\ UNCHANGED <<routing, status, lock, snapshots, stored, tokens, history>>

\* Mutant: deleteMany names the batch only.
DeletesByBatch(p) == lock.token # 0

\* deleteMany ... where token = the token found stale.
Deletes(p) == lock.token # 0 /\ lock.token = call[p].seen

MultiStaleDelete(p) ==
  /\ At(p, "staleDelete")
  /\ IF Deletes(p)
       THEN /\ lock' = [token |-> 0, stale |-> FALSE]
            /\ reclaimed' = reclaimed \cup {call[p].seen}
       ELSE UNCHANGED <<lock, reclaimed>>
  /\ Goto(p, "staleCreate")
  /\ UNCHANGED <<routing, status, snapshots, stored, tokens, faults, overlapped>>

MultiStaleCreate(p) ==
  /\ At(p, "staleCreate")
  /\ \/ lock.token = 0 /\ TakeLock(p)
     \/ lock.token # 0 /\ Goto(p, "idle") /\ UNCHANGED <<lock, tokens>>
  /\ UNCHANGED <<routing, status, snapshots, stored, history>>

\* The passes of the agents, then writeMultiPassSnapshot: one transaction.
MultiSnapshot(p) ==
  /\ At(p, "snapshot")
  /\ status' = "COMPLETED" /\ snapshots' = snapshots + 1
  /\ Goto(p, "release")
  /\ UNCHANGED <<routing, lock, stored, tokens, history>>

\* releaseMultiPassLock in the finally block.
MultiRelease(p) ==
  /\ At(p, "release")
  /\ lock' = IF lock.token = call[p].token THEN [token |-> 0, stale |-> FALSE] ELSE lock
  /\ Goto(p, IF routing = "CRITICAL_BLOCKED" THEN "done" ELSE "idle")
  /\ UNCHANGED <<routing, status, snapshots, stored, tokens, history>>

-----------------------------------------------------------------------------
(* runReconciliation *)

\* A multi-pass call writes to the batch once more after the engine's run.
Running(p) == call[p].pc \in EnginePC \cup {"snapshot"}

\* batch.update without a condition on the status.
EngineStart(p) ==
  /\ At(p, "start")
  /\ status' = "PROCESSING"
  /\ overlapped' = (overlapped \/ \E q \in Call \ {p} : Running(q))
  /\ Goto(p, "clearResults")
  /\ UNCHANGED <<routing, lock, snapshots, stored, tokens, faults, reclaimed>>

\* Mutant: the rows of the previous run stay.
ClearedKeeps(rs) == rs

Cleared(rs) == {}

EngineClearResults(p) ==
  /\ At(p, "clearResults")
  /\ results' = Cleared(results) /\ Goto(p, "clearExceptions")
  /\ UNCHANGED <<routing, status, lock, snapshots, exceptions, ledger, tokens, history>>

EngineClearExceptions(p) ==
  /\ At(p, "clearExceptions")
  /\ exceptions' = Cleared(exceptions) /\ Goto(p, "storeResults")
  /\ UNCHANGED <<routing, status, lock, snapshots, results, ledger, tokens, history>>

EngineStoreResults(p) ==
  /\ At(p, "storeResults")
  /\ results' = results \cup {p} /\ Goto(p, "storeExceptions")
  /\ UNCHANGED <<routing, status, lock, snapshots, exceptions, ledger, tokens, history>>

EngineStoreExceptions(p) ==
  /\ At(p, "storeExceptions")
  /\ exceptions' = exceptions \cup {p} /\ Goto(p, "gate")
  /\ UNCHANGED <<routing, status, lock, snapshots, results, ledger, tokens, history>>

\* Mutant: the run goes on to the ledger whatever the invariants say.
GateOpen == TRUE

\* evaluateInvariants and the fail-closed gate.
GatePasses == routing # "CRITICAL_BLOCKED"

EngineGate(p) ==
  /\ At(p, "gate")
  /\ Goto(p, IF GatePasses THEN "ledgerRead" ELSE "controlFailure")
  /\ UNCHANGED <<routing, status, lock, snapshots, stored, tokens, history>>

\* batch.update to CONTROL_FAILURE and the ControlFailureError.
EngineControlFailure(p) ==
  /\ At(p, "controlFailure")
  /\ status' = "CONTROL_FAILURE"
  /\ Goto(p, IF p \in MultiCall THEN "release" ELSE "done")
  /\ UNCHANGED <<routing, lock, snapshots, stored, tokens, history>>

Versions == {s.version : s \in ledger}
MaxVersion == IF ledger = {} THEN 0 ELSE CHOOSE n \in Versions : \A m \in Versions : m <= n

\* persistLedger: aggregate, updateMany, createMany.
LedgerRead(p) ==
  /\ At(p, "ledgerRead")
  /\ call' = [call EXCEPT ![p].pc = "ledgerSupersede", ![p].version = MaxVersion + 1]
  /\ UNCHANGED <<routing, status, lock, snapshots, stored, tokens, history>>

LedgerSupersede(p) ==
  /\ At(p, "ledgerSupersede")
  /\ ledger' = {[s EXCEPT !.active = FALSE] : s \in ledger}
  /\ Goto(p, "ledgerInsert")
  /\ UNCHANGED <<routing, status, lock, snapshots, results, exceptions, tokens, history>>

LedgerInsert(p) ==
  /\ At(p, "ledgerInsert")
  /\ ledger' = ledger \cup {[run |-> p, version |-> call[p].version, active |-> TRUE]}
  /\ Goto(p, "routeBatch")
  /\ UNCHANGED <<routing, status, lock, snapshots, results, exceptions, tokens, history>>

\* The risk gate's routing, and the end of the engine's run.
RoutedStatus ==
  CASE routing = "MAKER_CHECKER_REQUIRED" -> "AWAITING_APPROVAL"
    [] routing = "CONTROLLED_REVIEW"      -> "UNDER_REVIEW"
    [] OTHER                              -> "COMPLETED"

EngineRoute(p) ==
  /\ At(p, "routeBatch")
  /\ status' = RoutedStatus
  /\ Goto(p, IF p \in MultiCall THEN "snapshot" ELSE "done")
  /\ UNCHANGED <<routing, lock, snapshots, stored, tokens, history>>

-----------------------------------------------------------------------------
(* Faults and time *)

UnderWay(p) == call[p].pc \notin {"idle", "done", "dead"}

\* A statement or an agent throws: the route answers 500, the multi-pass
\* route releases its lock first.
Throw(p) ==
  /\ Running(p) \/ At(p, "start")
  /\ faults < MaxFaults /\ faults' = faults + 1
  /\ Goto(p, IF p \in MultiCall THEN "release" ELSE "done")
  /\ UNCHANGED <<routing, status, lock, snapshots, stored, tokens, overlapped, reclaimed>>

Die(p) ==
  /\ UnderWay(p)
  /\ faults < MaxFaults /\ faults' = faults + 1
  /\ Goto(p, "dead")
  /\ UNCHANGED <<routing, status, lock, snapshots, stored, tokens, overlapped, reclaimed>>

\* LOCK_STALE_MS pass, whether or not the holder still works.
LockAges ==
  /\ lock.token # 0 /\ ~lock.stale
  /\ lock' = [lock EXCEPT !.stale = TRUE]
  /\ UNCHANGED <<routing, status, snapshots, stored, call, tokens, history>>

CallStep(p) ==
  \/ RouteLock(p) \/ RoutePeek(p) \/ RouteCount(p) \/ RouteUnlock(p)
  \/ MultiRead(p) \/ MultiLock(p) \/ MultiStaleCheck(p) \/ MultiStaleDelete(p)
  \/ MultiStaleCreate(p) \/ MultiSnapshot(p) \/ MultiRelease(p)
  \/ EngineStart(p) \/ EngineClearResults(p) \/ EngineClearExceptions(p)
  \/ EngineStoreResults(p) \/ EngineStoreExceptions(p) \/ EngineGate(p)
  \/ EngineControlFailure(p) \/ LedgerRead(p) \/ LedgerSupersede(p)
  \/ LedgerInsert(p) \/ EngineRoute(p)

ReconNext ==
  \/ \E p \in Call : CallStep(p) \/ Throw(p) \/ Die(p)
  \/ LockAges

ReconSpec == ReconInit /\ [][ReconNext]_reconVars

\* The server runs each request on and the clients ask again; the clock runs.
ReconFairSpec ==
  ReconSpec /\ (\A p \in Call : WF_reconVars(CallStep(p))) /\ WF_reconVars(LockAges)

-----------------------------------------------------------------------------

ReconTypeOK ==
  /\ routing \in Routing /\ status \in BatchStatus
  /\ lock \in [token : Nat, stale : BOOLEAN]
  /\ snapshots \in Nat /\ tokens \in Nat /\ faults \in 0..MaxFaults
  /\ results \subseteq Call /\ exceptions \subseteq Call
  /\ ledger \subseteq [run : Call, version : Nat, active : BOOLEAN]
  /\ call \in [Call -> [pc : CallPC, token : Nat, seen : Nat, version : Nat]]
  /\ overlapped \in BOOLEAN /\ reclaimed \subseteq Nat

Settled == {"COMPLETED", "UNDER_REVIEW", "AWAITING_APPROVAL"}

\* As long as no two runs of the engine were under way at once, a batch in a
\* final status has exactly one ACTIVE ledger set, the newest, written by the
\* run whose results and exceptions are stored: no run that died or threw
\* between any two statements leaves a mixture behind.
SettledIsConsistent ==
  ~overlapped /\ status \in Settled =>
    \E s \in ledger :
      /\ s.active /\ s.version = MaxVersion
      /\ \A t \in ledger : t.active => t = s
      /\ results = {s.run} /\ exceptions = {s.run}

\* A multi-pass run keeps its lock until it releases it: the row goes only
\* when it was found stale, and then by its token, so that a caller that is
\* late in reclaiming never removes the lock of the one that was faster.
LockKeptWhileRunning ==
  \A p \in MultiCall :
    Running(p) \/ call[p].pc \in {"start", "release"}
      => lock.token = call[p].token \/ call[p].token \in reclaimed

\* A batch whose invariants fail is never finalised and gets no ledger,
\* whichever entry point runs it and however often.
FailClosed ==
  routing = "CRITICAL_BLOCKED" => status \notin Settled /\ ledger = {} /\ snapshots = 0

\* A batch that passes the gate gets its snapshot although calls die while they
\* hold the lock, as long as one client is left to ask again.
MultiPassRecovers ==
  routing # "CRITICAL_BLOCKED" /\ Cardinality({p \in MultiCall : At(p, "idle")}) > MaxFaults
    => <>(snapshots > 0)

-----------------------------------------------------------------------------
(* Stated by the code and not kept; README.md says when. *)

\* "held for mandatory Maker/Checker - NOT finalized to COMPLETED".
HeldIsNotCompleted ==
  routing \in {"MAKER_CHECKER_REQUIRED", "CONTROLLED_REVIEW"} => status # "COMPLETED"

\* "at most one in-flight run per batch".
OneRunAtATime == ~overlapped

\* "a batch that already has a persisted snapshot returns that snapshot
\* without re-running".
RunsOnce == snapshots <= 1

\* "Batch is currently being reconciled by another process" is said only while
\* one is: a batch in PROCESSING without a run leaves that status.
ProcessingEnds == []<>(status # "PROCESSING")
=============================================================================
