--------------------------- MODULE RecoveryProofs ---------------------------
(***************************************************************************)
(* Theorems about the components that go on after a process was lost, for  *)
(* any number of callers, invocations and workers and any number of        *)
(* deaths.                                                                 *)
(*                                                                         *)
(* ReconciliationRun: a batch whose invariants fail is never finalised, a  *)
(* multi-pass run loses its lock only to a caller that found it stale, and *)
(* a settled batch is consistent as long as no two runs of the engine      *)
(* overlapped.  ScaleRun: the stored progress of a persisted run is never  *)
(* ahead of its partitions, and a run that completes undisturbed is whole. *)
(* WebhookOutbox: every delivery beyond the first is explained.            *)
(***************************************************************************)
EXTENDS MCRecovery, TLAPS, FiniteSetTheorems, WellFoundedInduction

(* The fail-closed gate of the reconciliation.  No call passes the gate of a
   blocked batch, and everything that finalises comes after the gate. *)

\* Every call is a record with the fields of NoCall.
CallShape ==
  call = [p \in Call |-> [pc |-> call[p].pc, token |-> call[p].token,
                          seen |-> call[p].seen, version |-> call[p].version]]

\* What comes after the gate.
BeyondGate == {"ledgerRead", "ledgerSupersede", "ledgerInsert", "routeBatch", "snapshot"}

\* The inductive invariant behind FailClosed.
GateInv ==
  /\ CallShape
  /\ routing = "CRITICAL_BLOCKED" =>
       /\ status \notin Settled /\ ledger = {} /\ snapshots = 0
       /\ \A p \in Call : call[p].pc \notin BeyondGate

\* Where a multi-pass call believes to hold the lock.
HoldPC == EnginePC \cup {"snapshot", "start", "release"}

Holder(p) == p \in MultiCall /\ call[p].pc \in HoldPC

\* Which entry point a place belongs to.
PlacesFit ==
  /\ \A p \in MultiCall : call[p].pc \notin {"peek", "count", "unlock"}
  /\ \A p \in RouteCall : call[p].pc \notin MultiPC

TokensFit ==
  /\ tokens \in Nat /\ lock.token \in 0..tokens
  /\ lock = [token |-> lock.token, stale |-> lock.stale]
  /\ \A p \in Call : Holder(p) => call[p].token \in 1..tokens
  /\ \A p, q \in Call : Holder(p) /\ Holder(q) /\ call[p].token = call[q].token => p = q

HoldersKept ==
  \A p \in Call : Holder(p) => lock.token = call[p].token \/ call[p].token \in reclaimed

\* The inductive invariant behind LockKeptWhileRunning.
LockInv == CallShape /\ PlacesFit /\ TokensFit /\ HoldersKept

-----------------------------------------------------------------------------

\* Goto moves one call and leaves its other fields alone.
LEMMA GotoFacts ==
  ASSUME CallShape, NEW p \in Call, NEW pc, Goto(p, pc)
  PROVE  /\ CallShape' /\ call'[p].pc = pc /\ call'[p].token = call[p].token
         /\ \A q \in Call : q # p => call'[q] = call[q]
<1>1. call' = [call EXCEPT ![p].pc = pc]
  BY DEF Goto
<1>2. DOMAIN call = Call /\ \A q \in Call :
        call[q] = [pc |-> call[q].pc, token |-> call[q].token,
                   seen |-> call[q].seen, version |-> call[q].version]
  BY DEF CallShape
<1>3. /\ DOMAIN call' = Call /\ \A q \in Call : q # p => call'[q] = call[q]
      /\ call'[p] = [pc |-> pc, token |-> call[p].token,
                     seen |-> call[p].seen, version |-> call[p].version]
  BY <1>1, <1>2
<1>4. \A q \in Call : call'[q] = [pc |-> call'[q].pc, token |-> call'[q].token,
                                  seen |-> call'[q].seen, version |-> call'[q].version]
  BY <1>2, <1>3
<1>5. call' = [q \in Call |-> call'[q]]
  BY <1>1, <1>3
<1> QED
  BY <1>3, <1>4, <1>5 DEF CallShape

\* The same for the two moves that also note what they read.
LEMMA NoteFacts ==
  ASSUME CallShape, NEW p \in Call, NEW pc, NEW n,
         \/ call' = [call EXCEPT ![p].pc = pc, ![p].seen = n]
         \/ call' = [call EXCEPT ![p].pc = pc, ![p].version = n]
  PROVE  /\ CallShape' /\ call'[p].pc = pc /\ call'[p].token = call[p].token
         /\ \A q \in Call : q # p => call'[q] = call[q]
<1>2. DOMAIN call = Call /\ \A q \in Call :
        call[q] = [pc |-> call[q].pc, token |-> call[q].token,
                   seen |-> call[q].seen, version |-> call[q].version]
  BY DEF CallShape
<1>3. /\ DOMAIN call' = Call /\ \A q \in Call : q # p => call'[q] = call[q]
      /\ \/ call'[p] = [pc |-> pc, token |-> call[p].token, seen |-> n,
                        version |-> call[p].version]
         \/ call'[p] = [pc |-> pc, token |-> call[p].token, seen |-> call[p].seen,
                        version |-> n]
  BY <1>2
<1>4. \A q \in Call : call'[q] = [pc |-> call'[q].pc, token |-> call'[q].token,
                                  seen |-> call'[q].seen, version |-> call'[q].version]
  BY <1>2, <1>3
<1>5. call' = [q \in Call |-> call'[q]]
  BY <1>3
<1> QED
  BY <1>3, <1>4, <1>5 DEF CallShape

\* Taking the lock notes its token.
LEMMA TokenFacts ==
  ASSUME CallShape, NEW p \in Call, NEW pc, NEW t,
         call' = [call EXCEPT ![p].pc = pc, ![p].token = t]
  PROVE  /\ CallShape' /\ call'[p].pc = pc /\ call'[p].token = t
         /\ \A q \in Call : q # p => call'[q] = call[q]
<1> DEFINE mid == [call EXCEPT ![p].pc = pc]
<1>1. call' = [mid EXCEPT ![p].token = t]
  OBVIOUS
<1>2. DOMAIN call = Call /\ \A q \in Call :
        call[q] = [pc |-> call[q].pc, token |-> call[q].token,
                   seen |-> call[q].seen, version |-> call[q].version]
  BY DEF CallShape
<1>3. /\ DOMAIN mid = Call /\ \A q \in Call : q # p => mid[q] = call[q]
      /\ mid[p] = [pc |-> pc, token |-> call[p].token, seen |-> call[p].seen,
                   version |-> call[p].version]
  BY <1>2
<1> HIDE DEF mid
<1>4. /\ DOMAIN call' = Call /\ \A q \in Call : q # p => call'[q] = call[q]
      /\ call'[p] = [pc |-> pc, token |-> t, seen |-> call[p].seen,
                     version |-> call[p].version]
  <2>1. DOMAIN call' = Call /\ \A q \in Call : q # p => call'[q] = call[q]
    BY <1>1, <1>3
  <2>2. call'[p] = [mid[p] EXCEPT !.token = t]
    BY <1>1, <1>3
  <2> QED
    BY <2>1, <2>2, <1>3
<1>5. \A q \in Call : call'[q] = [pc |-> call'[q].pc, token |-> call'[q].token,
                                  seen |-> call'[q].seen, version |-> call'[q].version]
  BY <1>2, <1>4
<1>6. call' = [q \in Call |-> call'[q]]
  BY <1>1, <1>4
<1>7. call' = [q \in Call |-> [pc |-> call'[q].pc, token |-> call'[q].token,
                               seen |-> call'[q].seen, version |-> call'[q].version]]
  BY <1>5, <1>6, Zenon
<1>8. call'[p].pc = pc /\ call'[p].token = t
  BY <1>4
<1> QED
  BY <1>4, <1>7, <1>8, Zenon DEF CallShape

LEMMA TakeFacts ==
  ASSUME CallShape, NEW p \in Call, TakeLock(p)
  PROVE  /\ CallShape' /\ call'[p].pc = "start" /\ call'[p].token = tokens + 1
         /\ \A q \in Call : q # p => call'[q] = call[q]
         /\ lock' = [token |-> tokens + 1, stale |-> FALSE] /\ tokens' = tokens + 1
<1> DEFINE t == tokens + 1
<1>1. call' = [call EXCEPT ![p].pc = "start", ![p].token = t]
      /\ lock' = [token |-> t, stale |-> FALSE] /\ tokens' = t
  BY DEF TakeLock
<1> HIDE DEF t
<1>2. /\ CallShape' /\ call'[p].pc = "start" /\ call'[p].token = t
      /\ \A q \in Call : q # p => call'[q] = call[q]
  BY <1>1, TokenFacts
<1> QED
  BY <1>1, <1>2 DEF t

-----------------------------------------------------------------------------
(* The gate *)

\* A call moves, past the gate only if the batch may pass it, and what is
\* stored stays open as long as the batch is blocked.
LEMMA GateMove ==
  ASSUME GateInv, NEW p \in Call, CallShape', UNCHANGED routing,
         \A q \in Call : q # p => call'[q] = call[q],
         routing = "CRITICAL_BLOCKED" =>
           /\ call'[p].pc \notin BeyondGate
           /\ status' \notin Settled /\ ledger' = {} /\ snapshots' = 0
  PROVE  GateInv'
<1>1. ASSUME routing = "CRITICAL_BLOCKED", NEW q \in Call PROVE call'[q].pc \notin BeyondGate
  BY <1>1 DEF GateInv
<1> QED
  BY <1>1 DEF GateInv

LEMMA GateCallStep ==
  ASSUME GateInv, NEW p \in Call, CallStep(p) \/ Throw(p) \/ Die(p)
  PROVE  GateInv'
<1>a. CallShape /\ (routing = "CRITICAL_BLOCKED" =>
        /\ status \notin Settled /\ ledger = {} /\ snapshots = 0 /\ call[p].pc \notin BeyondGate)
  BY DEF GateInv
<1>b. ASSUME NEW pc, Goto(p, pc), UNCHANGED routing,
             routing = "CRITICAL_BLOCKED" =>
               /\ pc \notin BeyondGate
               /\ status' \notin Settled /\ ledger' = {} /\ snapshots' = 0
      PROVE  GateInv'
  <2>1. /\ CallShape' /\ call'[p].pc = pc
        /\ \A q \in Call : q # p => call'[q] = call[q]
    BY <1>a, <1>b, GotoFacts
  <2> QED
    BY <1>b, <2>1, GateMove
<1>1. CASE RouteLock(p)
  BY <1>1, <1>a, <1>b DEF RouteLock, BeyondGate, Settled, stored
<1>2. CASE RoutePeek(p) \/ RouteCount(p) \/ RouteUnlock(p)
  BY <1>2, <1>a, <1>b DEF RoutePeek, RouteCount, RouteUnlock, BeyondGate, Settled, stored
<1>3. CASE MultiRead(p)
  BY <1>3, <1>a, <1>b DEF MultiRead, BeyondGate, stored
<1>4. CASE MultiLock(p) \/ MultiStaleCreate(p)
  <2>1. CASE TakeLock(p)
    <3>1. /\ CallShape' /\ call'[p].pc = "start"
          /\ \A q \in Call : q # p => call'[q] = call[q]
      BY <1>a, <2>1, TakeFacts
    <3> QED
      BY <1>4, <1>a, <3>1, GateMove DEF MultiLock, MultiStaleCreate, BeyondGate, stored
  <2>2. CASE ~TakeLock(p)
    BY <1>4, <1>a, <1>b, <2>2 DEF MultiLock, MultiStaleCreate, BeyondGate, stored
  <2> QED
    BY <2>1, <2>2
<1>5. CASE MultiStaleCheck(p)
  <2>1. CASE FoundStale
    <3>1. call' = [call EXCEPT ![p].pc = "staleDelete", ![p].seen = lock.token]
      BY <1>5, <2>1 DEF MultiStaleCheck
    <3>2. /\ CallShape' /\ call'[p].pc = "staleDelete"
          /\ \A q \in Call : q # p => call'[q] = call[q]
      BY <1>a, <3>1, NoteFacts
    <3> QED
      BY <1>5, <1>a, <3>2, GateMove DEF MultiStaleCheck, BeyondGate, stored
  <2>2. CASE ~FoundStale
    BY <1>5, <1>a, <1>b, <2>2 DEF MultiStaleCheck, BeyondGate, stored
  <2> QED
    BY <2>1, <2>2
<1>6. CASE MultiStaleDelete(p) \/ MultiRelease(p)
  BY <1>6, <1>a, <1>b DEF MultiStaleDelete, MultiRelease, BeyondGate, stored
<1>7. CASE MultiSnapshot(p)
  BY <1>7, <1>a, <1>b DEF MultiSnapshot, At, BeyondGate, stored
<1>8. CASE EngineStart(p)
  BY <1>8, <1>a, <1>b DEF EngineStart, BeyondGate, Settled, stored
<1>9. CASE \/ EngineClearResults(p) \/ EngineClearExceptions(p)
           \/ EngineStoreResults(p) \/ EngineStoreExceptions(p)
  BY <1>9, <1>a, <1>b DEF EngineClearResults, EngineClearExceptions, EngineStoreResults,
                          EngineStoreExceptions, BeyondGate
<1>10. CASE EngineGate(p)
  BY <1>10, <1>a, <1>b DEF EngineGate, GatePasses, BeyondGate, stored
<1>11. CASE EngineControlFailure(p)
  BY <1>11, <1>a, <1>b DEF EngineControlFailure, BeyondGate, Settled, stored
<1>12. CASE LedgerRead(p)
  <2>1. PICK n : call' = [call EXCEPT ![p].pc = "ledgerSupersede", ![p].version = n]
    BY <1>12 DEF LedgerRead
  <2>2. CallShape' /\ \A q \in Call : q # p => call'[q] = call[q]
    BY <1>a, <2>1, NoteFacts
  <2>3. routing # "CRITICAL_BLOCKED"
    BY <1>12, <1>a DEF LedgerRead, At, BeyondGate
  <2> QED
    BY <1>12, <2>2, <2>3, GateMove DEF LedgerRead
<1>13. CASE LedgerSupersede(p) \/ LedgerInsert(p) \/ EngineRoute(p)
  <2>1. routing # "CRITICAL_BLOCKED"
    BY <1>13, <1>a DEF LedgerSupersede, LedgerInsert, EngineRoute, At, BeyondGate
  <2> QED
    BY <1>13, <1>b, <2>1 DEF LedgerSupersede, LedgerInsert, EngineRoute
<1>14. CASE Throw(p) \/ Die(p)
  BY <1>14, <1>a, <1>b DEF Throw, Die, BeyondGate, stored
<1> QED
  BY <1>1, <1>2, <1>3, <1>4, <1>5, <1>6, <1>7, <1>8, <1>9, <1>10, <1>11, <1>12, <1>13, <1>14
     DEF CallStep

LEMMA GateStep ==
  ASSUME GateInv, [ReconNext]_reconVars
  PROVE  GateInv'
<1>1. CASE LockAges
  BY <1>1 DEF LockAges, GateInv, CallShape, stored
<1>2. CASE UNCHANGED reconVars
  BY <1>2 DEF reconVars, GateInv, CallShape
<1> QED
  BY <1>1, <1>2, GateCallStep DEF ReconNext

\* How every call begins.
LEMMA InitCalls ==
  ASSUME ReconInit
  PROVE  CallShape /\ \A p \in Call : call[p].pc \in {"idle", "done"}
<1>1. PICK made \in SUBSET Call :
        call = [p \in Call |-> IF p \in made THEN NoCall ELSE [NoCall EXCEPT !.pc = "done"]]
  BY DEF ReconInit
<1>2. \A p \in Call : \/ call[p] = NoCall
                        \/ call[p] = [pc |-> "done", token |-> 0, seen |-> 0, version |-> 0]
  BY <1>1 DEF NoCall
<1> QED
  BY <1>1, <1>2 DEF CallShape, NoCall

\* A batch whose invariants fail is never finalised and gets no ledger,
\* whichever entry points run it, however often and whatever dies.
THEOREM ReconFailsClosed == ReconSpec => []FailClosed
<1>1. ReconInit => GateInv
  BY InitCalls DEF ReconInit, GateInv, BeyondGate, Settled
<1>2. GateInv /\ [ReconNext]_reconVars => GateInv'
  BY GateStep
<1>3. GateInv => FailClosed
  BY DEF GateInv, FailClosed
<1> QED
  BY <1>1, <1>2, <1>3, PTL DEF ReconSpec

-----------------------------------------------------------------------------
(* The lock of the multi-pass run *)

\* A call may go to pc from where it is: to places of its entry point, and
\* into the lock's section only from inside it.
Fits(p, pc) ==
  /\ p \in MultiCall => pc \notin {"peek", "count", "unlock"}
  /\ p \in RouteCall => pc \notin MultiPC
  /\ p \in MultiCall /\ pc \in HoldPC => call[p].pc \in HoldPC

\* A step that takes no lock: it may delete the row, but only one that is
\* accounted for as reclaimed or that nobody else holds.
LEMMA LockMove ==
  ASSUME LockInv, NEW p \in Call, CallShape', Fits(p, call'[p].pc),
         call'[p].token = call[p].token,
         \A q \in Call : q # p => call'[q] = call[q],
         UNCHANGED tokens, reclaimed \subseteq reclaimed',
         lock' = [token |-> lock'.token, stale |-> lock'.stale],
         lock'.token \in {0, lock.token},
         \A q \in Call : Holder(q) /\ Holder(q)' /\ lock.token = call[q].token
           => lock'.token = lock.token \/ lock.token \in reclaimed'
  PROVE  LockInv'
<1>1. \A q \in Call : call'[q].token = call[q].token /\ (Holder(q)' => Holder(q))
  BY DEF Fits, Holder
<1>2. PlacesFit'
  BY DEF LockInv, PlacesFit, Fits, Call
<1>3. TokensFit'
  <2>1. tokens \in Nat /\ lock.token \in 0..tokens
    BY DEF LockInv, TokensFit
  <2>2. tokens' \in Nat /\ lock'.token \in 0..tokens'
    BY <2>1
  <2>3. \A q \in Call : Holder(q)' => call'[q].token \in 1..tokens'
    BY <1>1 DEF LockInv, TokensFit
  <2>4. \A q, r \in Call :
          Holder(q)' /\ Holder(r)' /\ call'[q].token = call'[r].token => q = r
    BY <1>1 DEF LockInv, TokensFit
  <2> QED
    BY <2>2, <2>3, <2>4 DEF TokensFit
<1>4. HoldersKept'
  BY <1>1 DEF LockInv, HoldersKept
<1> QED
  BY <1>2, <1>3, <1>4 DEF LockInv

\* Taking the lock: there is no row, and the token is a new one.
LEMMA LockTake ==
  ASSUME LockInv, NEW p \in MultiCall, TakeLock(p), lock.token = 0, UNCHANGED reclaimed
  PROVE  LockInv'
<1>1. p \in Call /\ p \notin RouteCall
  BY ReconciliationAssumption DEF Call
<1>2. /\ CallShape' /\ call'[p].pc = "start" /\ call'[p].token = tokens + 1
      /\ \A q \in Call : q # p => call'[q] = call[q]
      /\ lock' = [token |-> tokens + 1, stale |-> FALSE] /\ tokens' = tokens + 1
  BY <1>1, TakeFacts DEF LockInv
<1>3. \A q \in Call : q # p => (Holder(q)' <=> Holder(q))
  BY <1>2 DEF Holder
<1>4. tokens \in Nat /\ \A q \in Call : Holder(q) => call[q].token \in 1..tokens
  BY DEF LockInv, TokensFit
<1>5. PlacesFit'
  BY <1>1, <1>2 DEF LockInv, PlacesFit, Call, MultiPC
<1>6. TokensFit'
  <2>1. tokens' \in Nat /\ lock'.token \in 0..tokens'
        /\ lock' = [token |-> lock'.token, stale |-> lock'.stale]
    BY <1>2, <1>4
  <2>2. ASSUME NEW q \in Call, Holder(q)'
        PROVE  call'[q].token \in 1..tokens' /\ (q # p => call'[q].token # call'[p].token)
    BY <1>2, <1>3, <1>4, <2>2
  <2>3. ASSUME NEW q \in Call, NEW r \in Call, Holder(q)', Holder(r)',
               call'[q].token = call'[r].token
        PROVE  q = r
    <3>1. CASE q # p /\ r # p
      BY <1>2, <1>3, <2>3, <3>1 DEF LockInv, TokensFit
    <3>2. CASE q = p \/ r = p
      BY <2>2, <2>3, <3>2
    <3> QED
      BY <3>1, <3>2
  <2> QED
    BY <2>1, <2>2, <2>3 DEF TokensFit
<1>7. HoldersKept'
  <2>1. ASSUME NEW q \in Call, Holder(q)'
        PROVE  lock'.token = call'[q].token \/ call'[q].token \in reclaimed'
    <3>1. CASE q = p
      BY <1>2, <3>1
    <3>2. CASE q # p
      BY <1>2, <1>3, <1>4, <2>1, <3>2 DEF LockInv, HoldersKept
    <3> QED
      BY <3>1, <3>2
  <2> QED
    BY <2>1 DEF HoldersKept
<1> QED
  BY <1>2, <1>5, <1>6, <1>7 DEF LockInv

LEMMA LockCallStep ==
  ASSUME LockInv, NEW p \in Call, CallStep(p) \/ Throw(p) \/ Die(p)
  PROVE  LockInv'
<1>a. /\ CallShape /\ lock = [token |-> lock.token, stale |-> lock.stale]
      /\ p \in MultiCall => p \notin RouteCall /\ call[p].pc \notin {"peek", "count", "unlock"}
      /\ p \in RouteCall => p \notin MultiCall /\ call[p].pc \notin MultiPC
      /\ p \in RouteCall \/ p \in MultiCall
  BY ReconciliationAssumption DEF LockInv, PlacesFit, TokensFit, Call
<1>b. ASSUME NEW pc, Goto(p, pc), Fits(p, pc), UNCHANGED <<tokens, lock, reclaimed>>
      PROVE  LockInv'
  <2>1. /\ CallShape' /\ call'[p].pc = pc /\ call'[p].token = call[p].token
        /\ \A q \in Call : q # p => call'[q] = call[q]
    BY <1>a, <1>b, GotoFacts
  <2> QED
    BY <1>a, <1>b, <2>1, LockMove
<1>c. ASSUME NEW pc, NEW n, Fits(p, pc), UNCHANGED <<tokens, lock, reclaimed>>,
             \/ call' = [call EXCEPT ![p].pc = pc, ![p].seen = n]
             \/ call' = [call EXCEPT ![p].pc = pc, ![p].version = n]
      PROVE  LockInv'
  <2>1. /\ CallShape' /\ call'[p].pc = pc /\ call'[p].token = call[p].token
        /\ \A q \in Call : q # p => call'[q] = call[q]
    BY <1>a, <1>c, NoteFacts
  <2> QED
    BY <1>a, <1>c, <2>1, LockMove
<1>1. CASE RouteLock(p)
  BY <1>1, <1>a, <1>b DEF RouteLock, Fits, MultiPC, history
<1>2. CASE RoutePeek(p) \/ RouteCount(p) \/ RouteUnlock(p)
  BY <1>2, <1>a, <1>b DEF RoutePeek, RouteCount, RouteUnlock, At, Fits, MultiPC, history
<1>3. CASE MultiRead(p)
  BY <1>3, <1>a, <1>b DEF MultiRead, Fits, HoldPC, EnginePC, history
<1>4. CASE MultiLock(p) \/ MultiStaleCreate(p)
  <2>1. p \in MultiCall
    BY <1>4, <1>a DEF MultiLock, MultiStaleCreate, At, MultiPC
  <2>2. CASE lock.token = 0
    BY <1>4, <2>1, <2>2, LockTake DEF MultiLock, MultiStaleCreate, history
  <2>3. CASE lock.token # 0
    BY <1>4, <1>a, <1>b, <2>1, <2>3 DEF MultiLock, MultiStaleCreate, Fits, HoldPC, EnginePC,
                                        history
  <2> QED
    BY <2>2, <2>3
<1>5. CASE MultiStaleCheck(p)
  <2>1. p \in MultiCall
    BY <1>5, <1>a DEF MultiStaleCheck, At, MultiPC
  <2>2. Fits(p, "staleDelete") /\ Fits(p, "idle")
    BY <1>a, <2>1 DEF Fits, HoldPC, EnginePC
  <2> QED
    BY <1>5, <1>b, <1>c, <2>2 DEF MultiStaleCheck, history
<1>6. CASE MultiStaleDelete(p)
  <2>1. p \in MultiCall /\ Goto(p, "staleCreate")
    BY <1>6, <1>a DEF MultiStaleDelete, At, MultiPC
  <2>2. Fits(p, "staleCreate")
    BY <1>a, <2>1 DEF Fits, HoldPC, EnginePC
  <2>3. /\ CallShape' /\ call'[p].pc = "staleCreate" /\ call'[p].token = call[p].token
        /\ \A q \in Call : q # p => call'[q] = call[q]
    BY <1>a, <2>1, GotoFacts
  <2>4. /\ UNCHANGED tokens /\ reclaimed \subseteq reclaimed'
        /\ \/ lock' = [token |-> 0, stale |-> FALSE] /\ lock.token \in reclaimed'
           \/ lock' = lock
    BY <1>6 DEF MultiStaleDelete, Deletes
  <2> QED
    BY <1>a, <2>2, <2>3, <2>4, LockMove
<1>7. CASE MultiRelease(p)
  <2>1. p \in MultiCall /\ Holder(p)
    BY <1>7, <1>a DEF MultiRelease, At, MultiPC, Holder, HoldPC
  <2>2. PICK pc \in {"done", "idle"} : Goto(p, pc)
    BY <1>7 DEF MultiRelease
  <2>3. Fits(p, pc) /\ pc \notin HoldPC
    BY <1>a, <2>1, <2>2 DEF Fits, HoldPC, EnginePC
  <2>4. /\ CallShape' /\ call'[p].pc = pc /\ call'[p].token = call[p].token
        /\ \A q \in Call : q # p => call'[q] = call[q]
    BY <1>a, <2>2, GotoFacts
  <2>5. /\ UNCHANGED <<tokens, reclaimed>>
        /\ \/ lock' = [token |-> 0, stale |-> FALSE] /\ lock.token = call[p].token
           \/ lock' = lock
    BY <1>7 DEF MultiRelease, history
  <2>6. \A q \in Call : Holder(q) /\ Holder(q)' => q # p /\ call[q].token # call[p].token
    BY <2>1, <2>3, <2>4 DEF LockInv, TokensFit, Holder
  <2> QED
    BY <1>a, <2>3, <2>4, <2>5, <2>6, LockMove
<1>8. CASE MultiSnapshot(p)
  BY <1>8, <1>a, <1>b DEF MultiSnapshot, At, Fits, MultiPC, HoldPC, history
<1>9. CASE EngineStart(p)
  BY <1>9, <1>a, <1>b DEF EngineStart, At, Fits, MultiPC, HoldPC
<1>10. CASE \/ EngineClearResults(p) \/ EngineClearExceptions(p)
            \/ EngineStoreResults(p) \/ EngineStoreExceptions(p)
  BY <1>10, <1>a, <1>b DEF EngineClearResults, EngineClearExceptions, EngineStoreResults,
       EngineStoreExceptions, At, Fits, MultiPC, HoldPC, EnginePC, history
<1>11. CASE EngineGate(p) \/ EngineControlFailure(p)
  BY <1>11, <1>a, <1>b DEF EngineGate, EngineControlFailure, At, Fits, MultiPC, HoldPC,
       EnginePC, history
<1>12. CASE LedgerRead(p)
  <2>1. Fits(p, "ledgerSupersede")
    BY <1>12, <1>a DEF LedgerRead, At, Fits, MultiPC, HoldPC, EnginePC
  <2> QED
    BY <1>12, <1>c, <2>1 DEF LedgerRead, history
<1>13. CASE LedgerSupersede(p) \/ LedgerInsert(p) \/ EngineRoute(p)
  BY <1>13, <1>a, <1>b DEF LedgerSupersede, LedgerInsert, EngineRoute, At, Fits, MultiPC,
       HoldPC, EnginePC, history
<1>14. CASE Throw(p) \/ Die(p)
  BY <1>14, <1>a, <1>b DEF Throw, Die, Running, At, Fits, MultiPC, HoldPC, EnginePC
<1> QED
  BY <1>1, <1>2, <1>3, <1>4, <1>5, <1>6, <1>7, <1>8, <1>9, <1>10, <1>11, <1>12, <1>13, <1>14
     DEF CallStep

LEMMA LockStep ==
  ASSUME LockInv, [ReconNext]_reconVars
  PROVE  LockInv'
<1>1. CASE LockAges
  <2>1. lock = [token |-> lock.token, stale |-> lock.stale]
    BY DEF LockInv, TokensFit
  <2>2. lock' = [token |-> lock.token, stale |-> TRUE] /\ UNCHANGED <<call, tokens, reclaimed>>
    BY <1>1, <2>1 DEF LockAges, history
  <2>3. \A q \in Call : Holder(q)' <=> Holder(q)
    BY <2>2 DEF Holder
  <2>4. TokensFit'
    BY <2>2, <2>3 DEF LockInv, TokensFit
  <2>5. HoldersKept'
    BY <2>2, <2>3 DEF LockInv, HoldersKept
  <2>6. CallShape' /\ PlacesFit'
    BY <2>2 DEF LockInv, CallShape, PlacesFit
  <2> QED
    BY <2>4, <2>5, <2>6 DEF LockInv
<1>2. CASE UNCHANGED reconVars
  BY <1>2 DEF reconVars, LockInv, CallShape, PlacesFit, TokensFit, HoldersKept, Holder
<1> QED
  BY <1>1, <1>2, LockCallStep DEF ReconNext

\* A multi-pass run loses its lock only to a caller that found it stale, for
\* any number of callers, deaths and reclaims.
THEOREM ReconKeepsLock == ReconSpec => []LockKeptWhileRunning
<1>1. ReconInit => LockInv
  <2>1. ASSUME ReconInit, NEW p \in Call
        PROVE  ~Holder(p) /\ call[p].pc \notin {"peek", "count", "unlock"} /\ call[p].pc \notin MultiPC
    BY <2>1, InitCalls DEF Holder, HoldPC, EnginePC, MultiPC
  <2>2. ASSUME ReconInit PROVE CallShape /\ PlacesFit /\ HoldersKept
    BY <2>1, <2>2, InitCalls DEF PlacesFit, HoldersKept, Call
  <2>3. ASSUME ReconInit PROVE TokensFit
    <3>1. lock = [token |-> 0, stale |-> FALSE] /\ tokens = 0
      BY <2>3 DEF ReconInit
    <3> QED
      BY <2>1, <2>3, <3>1 DEF TokensFit
  <2> QED
    BY <2>2, <2>3 DEF LockInv
<1>2. LockInv /\ [ReconNext]_reconVars => LockInv'
  BY LockStep
<1>3. LockInv => LockKeptWhileRunning
  BY DEF LockInv, HoldersKept, Holder, HoldPC, Running, LockKeptWhileRunning, Call
<1> QED
  BY <1>1, <1>2, <1>3, PTL DEF ReconSpec

-----------------------------------------------------------------------------
(* What a settled batch holds *)

\* A ledger that is not empty has a newest version.
LedgerTop == ledger = {} \/ \E s \in ledger : \A t \in ledger : t.version <= s.version

\* One ACTIVE set, the newest, of the run whose rows are stored.
Consistent ==
  \E s \in ledger :
    /\ s.active /\ s.version = MaxVersion
    /\ \A t \in ledger : t.active => t = s
    /\ results = {s.run} /\ exceptions = {s.run}

\* Only one run of the engine is under way.
OneEngine == \A p, q \in Call : Running(p) /\ Running(q) => p = q

\* What the tables hold at each place of a run that is alone.
Stage(p) ==
  /\ call[p].pc \in EnginePC => status \notin Settled
  /\ call[p].pc \in {"clearExceptions", "storeResults"} => results = {}
  /\ call[p].pc \in {"storeResults", "storeExceptions"} => exceptions = {}
  /\ call[p].pc \in {"storeExceptions", "gate", "ledgerRead", "ledgerSupersede",
                     "ledgerInsert"} => results = {p}
  /\ call[p].pc \in {"gate", "ledgerRead", "ledgerSupersede", "ledgerInsert"} =>
       exceptions = {p}
  /\ call[p].pc \in {"ledgerSupersede", "ledgerInsert"} => call[p].version = MaxVersion + 1
  /\ call[p].pc = "ledgerInsert" => \A t \in ledger : ~t.active
  /\ call[p].pc \in {"routeBatch", "snapshot"} => Consistent

\* All of it, as long as no two runs of the engine overlapped.
StagesKnown ==
  ~overlapped =>
    /\ OneEngine /\ \A p \in Call : Stage(p)
    /\ status \in Settled => Consistent

\* The inductive invariant behind SettledIsConsistent.
SettleInv == ReconTypeOK /\ LedgerTop /\ StagesKnown

\* The fields of a call and of a ledger set.
CallRecord == [pc : CallPC, token : Nat, seen : Nat, version : Nat]
LedgerSet == [run : Call, version : Nat, active : BOOLEAN]

\* The newest version is a number, and the version of any set no other exceeds.
LEMMA TopVersion ==
  ASSUME ReconTypeOK, LedgerTop
  PROVE  /\ MaxVersion \in Nat /\ \A t \in ledger : t.version <= MaxVersion
         /\ \A s \in ledger : (\A t \in ledger : t.version <= s.version) => s.version = MaxVersion
<1>0. \A s \in ledger : s.version \in Nat
  BY DEF ReconTypeOK
<1>1. CASE ledger = {}
  BY <1>1 DEF MaxVersion
<1>2. CASE ledger # {}
  <2>1. PICK s \in ledger : \A t \in ledger : t.version <= s.version
    BY <1>2 DEF LedgerTop
  <2>2. s.version \in Versions /\ \A m \in Versions : m <= s.version
    BY <2>1 DEF Versions
  <2>3. MaxVersion \in Versions /\ \A m \in Versions : m <= MaxVersion
    BY <1>2, <2>2 DEF MaxVersion
  <2>4. /\ \A t \in ledger : t.version \in Versions
        /\ \A n \in Versions : n \in Nat /\ \E t \in ledger : t.version = n
    BY <1>0 DEF Versions
  <2> QED
    BY <1>0, <2>3, <2>4
<1> QED
  BY <1>1, <1>2

\* The same after a step.
LEMMA TopNext ==
  ASSUME ReconTypeOK', LedgerTop'
  PROVE  /\ MaxVersion' \in Nat /\ \A t \in ledger' : t.version <= MaxVersion'
         /\ \A s \in ledger' :
              (\A t \in ledger' : t.version <= s.version) => s.version = MaxVersion'
<1>0. \A s \in ledger' : s.version \in Nat
  BY DEF ReconTypeOK
<1>1. CASE ledger' = {}
  BY <1>1 DEF MaxVersion
<1>2. CASE ledger' # {}
  <2>1. PICK s \in ledger' : \A t \in ledger' : t.version <= s.version
    BY <1>2 DEF LedgerTop
  <2>2. s.version \in Versions' /\ \A m \in Versions' : m <= s.version
    BY <2>1 DEF Versions
  <2>3. MaxVersion' \in Versions' /\ \A m \in Versions' : m <= MaxVersion'
    BY <1>2, <2>2 DEF MaxVersion
  <2>4. /\ \A t \in ledger' : t.version \in Versions'
        /\ \A n \in Versions' : n \in Nat /\ \E t \in ledger' : t.version = n
    BY <1>0 DEF Versions
  <2> QED
    BY <1>0, <2>3, <2>4
<1> QED
  BY <1>1, <1>2

\* Goto moves one call and leaves the other fields alone.
LEMMA GotoTyped ==
  ASSUME ReconTypeOK, NEW p \in Call, NEW pc \in CallPC, Goto(p, pc)
  PROVE  /\ call' \in [Call -> CallRecord]
         /\ call'[p].pc = pc /\ call'[p].version = call[p].version
         /\ \A q \in Call : q # p => call'[q] = call[q]
  BY DEF ReconTypeOK, Goto, CallRecord

\* A step of a call that runs no engine and leaves the tables alone.
LEMMA QuietStage ==
  ASSUME SettleInv, NEW p \in Call, ~Running(p)',
         \A q \in Call : q # p => call'[q] = call[q],
         UNCHANGED <<results, exceptions, ledger, overlapped>>,
         status' = status \/ status' \notin Settled
  PROVE  LedgerTop' /\ StagesKnown'
<1>1. LedgerTop' /\ MaxVersion' = MaxVersion /\ (Consistent' <=> Consistent)
  BY DEF LedgerTop, MaxVersion, Versions, Consistent, SettleInv
<1>2. call'[p].pc \notin EnginePC \cup {"snapshot"}
  BY DEF Running
<1>3. ASSUME ~overlapped PROVE OneEngine' /\ (status' \in Settled => Consistent')
  BY <1>1, <1>2, <1>3 DEF SettleInv, StagesKnown, OneEngine, Running
<1>4. ASSUME ~overlapped, NEW q \in Call PROVE Stage(q)'
  <2>1. Stage(q)
    BY <1>4 DEF SettleInv, StagesKnown
  <2>2. CASE q = p
    BY <1>2, <2>2 DEF Stage, EnginePC
  <2>3. CASE q # p
    BY <1>1, <2>1, <2>3 DEF Stage
  <2> QED
    BY <2>2, <2>3
<1> QED
  BY <1>1, <1>3, <1>4 DEF StagesKnown

\* A step of a run of the engine.
LEMMA EngineStage ==
  ASSUME SettleInv, NEW p \in Call, Running(p), UNCHANGED overlapped,
         \A q \in Call : q # p => call'[q] = call[q],
         LedgerTop', ~overlapped => Stage(p)' /\ (status' \in Settled => Consistent')
  PROVE  LedgerTop' /\ StagesKnown'
<1>1. ASSUME ~overlapped, NEW q \in Call, q # p PROVE ~Running(q) /\ ~Running(q)'
  BY <1>1 DEF SettleInv, StagesKnown, OneEngine, Running
<1>2. ASSUME ~overlapped PROVE OneEngine'
  BY <1>1, <1>2 DEF OneEngine
<1>3. ASSUME ~overlapped, NEW q \in Call PROVE Stage(q)'
  <2>1. CASE q = p
    BY <1>3, <2>1
  <2>2. CASE q # p
    BY <1>1, <1>3, <2>2 DEF Stage, Running, EnginePC
  <2> QED
    BY <2>1, <2>2
<1> QED
  BY <1>2, <1>3 DEF StagesKnown

\* The fields of a call that notes a number.
LEMMA NoteTyped ==
  ASSUME ReconTypeOK, NEW p \in Call, NEW pc \in CallPC, NEW n \in Nat,
         \/ call' = [call EXCEPT ![p].pc = pc, ![p].seen = n]
         \/ call' = [call EXCEPT ![p].pc = pc, ![p].version = n]
         \/ call' = [call EXCEPT ![p].pc = pc, ![p].token = n]
  PROVE  /\ call' \in [Call -> CallRecord] /\ call'[p].pc = pc
         /\ call' = [call EXCEPT ![p].pc = pc, ![p].version = n] => call'[p].version = n
         /\ \A q \in Call : q # p => call'[q] = call[q]
<1>1. call \in [Call -> CallRecord] /\ call[p] \in CallRecord
  BY DEF ReconTypeOK, CallRecord
<1>2. /\ DOMAIN call' = Call /\ \A q \in Call : q # p => call'[q] = call[q]
      /\ \/ call'[p] = [call[p] EXCEPT !.pc = pc, !.seen = n]
         \/ call'[p] = [call[p] EXCEPT !.pc = pc, !.version = n]
         \/ call'[p] = [call[p] EXCEPT !.pc = pc, !.token = n]
      /\ call' = [q \in Call |-> call'[q]]
      /\ call' = [call EXCEPT ![p].pc = pc, ![p].version = n] =>
           call'[p] = [call[p] EXCEPT !.pc = pc, !.version = n]
  BY <1>1
<1>3. call'[p] \in CallRecord /\ call'[p].pc = pc
  BY <1>1, <1>2 DEF CallRecord
<1>4. call' = [call EXCEPT ![p].pc = pc, ![p].version = n] => call'[p].version = n
  BY <1>1, <1>2 DEF CallRecord
<1> QED
  BY <1>1, <1>2, <1>3, <1>4

\* What a step of one call that is not a run of the engine comes to.
LEMMA OutsideKeeps ==
  ASSUME SettleInv, NEW p \in Call,
         \/ RouteLock(p) \/ RoutePeek(p) \/ RouteCount(p) \/ RouteUnlock(p)
         \/ MultiRead(p) \/ MultiLock(p) \/ MultiStaleCheck(p) \/ MultiStaleDelete(p)
         \/ MultiStaleCreate(p) \/ MultiRelease(p) \/ EngineControlFailure(p)
         \/ Throw(p) \/ Die(p)
  PROVE  SettleInv'
<1> USE DEF stored, history
<1>0. /\ ReconTypeOK /\ lock \in [token : Nat, stale : BOOLEAN] /\ tokens \in Nat
      /\ tokens + 1 \in Nat /\ lock.token \in Nat
  BY DEF SettleInv, ReconTypeOK
<1>1. /\ UNCHANGED <<results, exceptions, ledger, overlapped, routing, snapshots>>
      /\ status' \in {status, "PROCESSING", "CREATED", "CONTROL_FAILURE"}
  BY DEF RouteLock, RoutePeek, RouteCount, RouteUnlock, MultiRead, MultiLock, MultiStaleCheck,
         MultiStaleDelete, MultiStaleCreate, MultiRelease, EngineControlFailure, Throw, Die
<1>2. PICK pc \in {"idle", "peek", "count", "unlock", "start", "done", "dead", "lockRow",
                   "staleCheck", "staleDelete", "staleCreate", "release"}, n \in Nat :
        \/ Goto(p, pc)
        \/ call' = [call EXCEPT ![p].pc = pc, ![p].seen = n]
        \/ call' = [call EXCEPT ![p].pc = pc, ![p].token = n]
  <2>1. CASE RouteLock(p) \/ RoutePeek(p) \/ RouteCount(p) \/ RouteUnlock(p)
    BY <2>1 DEF RouteLock, RoutePeek, RouteCount, RouteUnlock
  <2>2. CASE MultiRead(p) \/ MultiStaleDelete(p) \/ MultiRelease(p)
    BY <2>2 DEF MultiRead, MultiStaleDelete, MultiRelease
  <2>3. CASE MultiLock(p) \/ MultiStaleCreate(p)
    BY <1>0, <2>3 DEF MultiLock, MultiStaleCreate, TakeLock
  <2>4. CASE MultiStaleCheck(p)
    BY <1>0, <2>4 DEF MultiStaleCheck
  <2>5. CASE EngineControlFailure(p) \/ Throw(p) \/ Die(p)
    BY <2>5 DEF EngineControlFailure, Throw, Die
  <2> QED
    BY <2>1, <2>2, <2>3, <2>4, <2>5
<1>3. pc \in CallPC /\ pc \notin EnginePC \cup {"snapshot"}
  BY <1>2 DEF CallPC, MultiPC, EnginePC
<1>4. /\ call' \in [Call -> CallRecord] /\ call'[p].pc = pc
      /\ \A q \in Call : q # p => call'[q] = call[q]
  BY <1>0, <1>2, <1>3, GotoTyped, NoteTyped
<1>5. LedgerTop' /\ StagesKnown'
  <2>1. ~Running(p)'
    BY <1>3, <1>4 DEF Running
  <2> QED
    BY <1>1, <1>4, <2>1, QuietStage DEF Settled
<1>6. /\ lock' \in [token : Nat, stale : BOOLEAN] /\ tokens' \in Nat
      /\ reclaimed' \subseteq Nat /\ faults' \in 0..MaxFaults
  <2>1. lock' \in [token : Nat, stale : BOOLEAN]
    <3>1. lock' \in {lock, [token |-> 0, stale |-> FALSE], [token |-> tokens + 1, stale |-> FALSE]}
      BY DEF RouteLock, RoutePeek, RouteCount, RouteUnlock, MultiRead, MultiLock,
           MultiStaleCheck, MultiStaleDelete, MultiStaleCreate, MultiRelease, TakeLock,
           EngineControlFailure, Throw, Die
    <3>2. /\ [token |-> 0, stale |-> FALSE] \in [token : Nat, stale : BOOLEAN]
          /\ [token |-> tokens + 1, stale |-> FALSE] \in [token : Nat, stale : BOOLEAN]
      BY <1>0
    <3> QED
      BY <1>0, <3>1, <3>2, Zenon
  <2>2. tokens' \in Nat
    BY <1>0 DEF RouteLock, RoutePeek, RouteCount, RouteUnlock, MultiRead, MultiLock,
           MultiStaleCheck, MultiStaleDelete, MultiStaleCreate, MultiRelease, TakeLock,
           EngineControlFailure, Throw, Die
  <2>3. reclaimed' \subseteq Nat
    BY <1>0 DEF ReconTypeOK, RouteLock, RoutePeek, RouteCount, RouteUnlock, MultiRead, MultiLock,
           MultiStaleCheck, MultiStaleDelete, MultiStaleCreate, MultiRelease,
           EngineControlFailure, Throw, Die
  <2>4. faults' \in 0..MaxFaults
    BY <1>0, ReconciliationAssumption DEF ReconTypeOK, RouteLock, RoutePeek, RouteCount,
           RouteUnlock, MultiRead, MultiLock, MultiStaleCheck, MultiStaleDelete,
           MultiStaleCreate, MultiRelease, EngineControlFailure, Throw, Die
  <2> QED
    BY <2>1, <2>2, <2>3, <2>4
<1>7. ReconTypeOK'
  BY <1>0, <1>1, <1>4, <1>6 DEF ReconTypeOK, CallRecord, BatchStatus
<1> QED
  BY <1>5, <1>7 DEF SettleInv

\* The engine begins: alone, or the overlap is noted.
LEMMA EngineStartKeeps ==
  ASSUME SettleInv, NEW p \in Call, EngineStart(p)
  PROVE  SettleInv'
<1>1. /\ Goto(p, "clearResults") /\ status' = "PROCESSING" /\ call[p].pc = "start"
      /\ overlapped' = (overlapped \/ \E q \in Call \ {p} : Running(q))
      /\ UNCHANGED <<routing, lock, snapshots, results, exceptions, ledger, tokens, faults,
                     reclaimed>>
  BY DEF EngineStart, At, stored
<1>2. /\ call' \in [Call -> CallRecord] /\ call'[p].pc = "clearResults"
      /\ \A q \in Call : q # p => call'[q] = call[q]
  BY <1>1, GotoTyped DEF SettleInv, CallPC, EnginePC
<1>3. ReconTypeOK'
  <2>1. overlapped' \in BOOLEAN
    BY <1>1
  <2> QED
    BY <1>1, <1>2, <2>1 DEF SettleInv, ReconTypeOK, CallRecord, BatchStatus
<1>4. LedgerTop'
  BY <1>1 DEF SettleInv, LedgerTop
<1>5. StagesKnown'
  <2> SUFFICES ASSUME ~overlapped' PROVE StagesKnown'
    BY DEF StagesKnown
  <2>1. \A q \in Call : q # p => ~Running(q) /\ ~Running(q)'
    BY <1>1, <1>2 DEF Running
  <2>2. OneEngine'
    BY <2>1 DEF OneEngine
  <2>3. \A q \in Call : Stage(q)'
    BY <1>1, <1>2, <2>1 DEF Stage, Running, EnginePC, Settled
  <2> QED
    BY <1>1, <2>2, <2>3 DEF StagesKnown, Settled
<1> QED
  BY <1>3, <1>4, <1>5 DEF SettleInv

\* The engine clears and stores its rows, and passes the gate or not.
LEMMA EngineRowsKeep ==
  ASSUME SettleInv, NEW p \in Call,
         \/ EngineClearResults(p) \/ EngineClearExceptions(p) \/ EngineStoreResults(p)
         \/ EngineStoreExceptions(p) \/ EngineGate(p)
  PROVE  SettleInv'
<1> USE DEF stored, history, At
<1>1. PICK pc \in {"clearExceptions", "storeResults", "storeExceptions", "gate", "ledgerRead",
                   "controlFailure"} :
        /\ Goto(p, pc)
        /\ pc = "clearExceptions" =>
             call[p].pc = "clearResults" /\ results' = {} /\ UNCHANGED exceptions
        /\ pc = "storeResults" =>
             call[p].pc = "clearExceptions" /\ exceptions' = {} /\ UNCHANGED results
        /\ pc = "storeExceptions" =>
             call[p].pc = "storeResults" /\ results' = results \cup {p} /\ UNCHANGED exceptions
        /\ pc = "gate" =>
             call[p].pc = "storeExceptions" /\ exceptions' = exceptions \cup {p} /\ UNCHANGED results
        /\ pc \in {"ledgerRead", "controlFailure"} =>
             call[p].pc = "gate" /\ UNCHANGED <<results, exceptions>>
  BY DEF EngineClearResults, EngineClearExceptions, EngineStoreResults, EngineStoreExceptions,
         EngineGate, Cleared
<1>2. UNCHANGED <<routing, status, lock, snapshots, ledger, tokens, faults, overlapped, reclaimed>>
  BY DEF EngineClearResults, EngineClearExceptions, EngineStoreResults, EngineStoreExceptions,
         EngineGate
<1>3. pc \in CallPC /\ pc \in EnginePC /\ call[p].pc \in EnginePC
  BY <1>1 DEF CallPC, EnginePC
<1>4. /\ call' \in [Call -> CallRecord] /\ call'[p].pc = pc
      /\ \A q \in Call : q # p => call'[q] = call[q]
  BY <1>1, <1>3, GotoTyped DEF SettleInv
<1>5. ReconTypeOK'
  BY <1>1, <1>2, <1>4 DEF SettleInv, ReconTypeOK, CallRecord
<1>6. LedgerTop'
  BY <1>2 DEF SettleInv, LedgerTop
<1>7. ASSUME ~overlapped PROVE Stage(p)' /\ status' \notin Settled
  <2>1. Stage(p)
    BY <1>7 DEF SettleInv, StagesKnown
  <2>2. status' \notin Settled
    BY <1>2, <1>3, <2>1 DEF Stage
  <2> QED
    BY <1>1, <1>2, <1>4, <2>1, <2>2 DEF Stage
<1>8. Running(p)
  BY <1>3 DEF Running
<1> QED
  BY <1>2, <1>4, <1>5, <1>6, <1>7, <1>8, EngineStage DEF SettleInv

\* persistLedger reads the newest version.
LEMMA LedgerReadKeeps ==
  ASSUME SettleInv, NEW p \in Call, LedgerRead(p)
  PROVE  SettleInv'
<1>1. /\ call' = [call EXCEPT ![p].pc = "ledgerSupersede", ![p].version = MaxVersion + 1]
      /\ call[p].pc = "ledgerRead"
      /\ UNCHANGED <<routing, status, lock, snapshots, results, exceptions, ledger, tokens,
                     faults, overlapped, reclaimed>>
  BY DEF LedgerRead, At, stored, history
<1>2. MaxVersion \in Nat /\ MaxVersion + 1 \in Nat /\ MaxVersion' = MaxVersion /\ LedgerTop'
  BY <1>1, TopVersion DEF SettleInv, MaxVersion, Versions, LedgerTop
<1>3. /\ call' \in [Call -> CallRecord] /\ call'[p].pc = "ledgerSupersede"
      /\ call'[p].version = MaxVersion + 1
      /\ \A q \in Call : q # p => call'[q] = call[q]
  <2>1. "ledgerSupersede" \in CallPC
    BY DEF CallPC, EnginePC
  <2> HIDE DEF MaxVersion
  <2> QED
    BY <1>1, <1>2, <2>1, NoteTyped DEF SettleInv
<1>4. ReconTypeOK'
  BY <1>1, <1>3 DEF SettleInv, ReconTypeOK, CallRecord
<1>5. ASSUME ~overlapped PROVE Stage(p)' /\ status' \notin Settled
  <2>1. Stage(p)
    BY <1>5 DEF SettleInv, StagesKnown
  <2>2. status' \notin Settled
    BY <1>1, <2>1 DEF Stage, EnginePC
  <2> QED
    BY <1>1, <1>2, <1>3, <2>1, <2>2 DEF Stage
<1>6. Running(p)
  BY <1>1 DEF Running, EnginePC
<1> QED
  BY <1>1, <1>2, <1>3, <1>4, <1>5, <1>6, EngineStage DEF SettleInv

\* The sets of earlier runs are superseded.
LEMMA LedgerSupersedeKeeps ==
  ASSUME SettleInv, NEW p \in Call, LedgerSupersede(p)
  PROVE  SettleInv'
<1>1. /\ ledger' = {[s EXCEPT !.active = FALSE] : s \in ledger}
      /\ Goto(p, "ledgerInsert") /\ call[p].pc = "ledgerSupersede"
      /\ UNCHANGED <<routing, status, lock, snapshots, results, exceptions, tokens, faults,
                     overlapped, reclaimed>>
  BY DEF LedgerSupersede, At, history
<1>2. ledger \subseteq LedgerSet
  BY DEF SettleInv, ReconTypeOK, LedgerSet
<1>3. /\ ledger' \subseteq LedgerSet /\ \A t \in ledger' : ~t.active
      /\ \A t \in ledger' : \E s \in ledger : t.version = s.version
      /\ \A s \in ledger : \E t \in ledger' : t.version = s.version
  <2>1. \A s \in ledger : /\ [s EXCEPT !.active = FALSE] \in LedgerSet
                          /\ [s EXCEPT !.active = FALSE].version = s.version
                          /\ ~[s EXCEPT !.active = FALSE].active
    BY <1>2 DEF LedgerSet
  <2> QED
    BY <1>1, <2>1
<1>4. MaxVersion' = MaxVersion /\ LedgerTop'
  <2>1. \A n : n \in Versions' <=> n \in Versions
    BY <1>3 DEF Versions
  <2>2. Versions' = Versions /\ (ledger' = {} <=> ledger = {})
    BY <1>3, <2>1
  <2>3. LedgerTop'
    BY <1>3 DEF SettleInv, LedgerTop
  <2> QED
    BY <2>2, <2>3 DEF MaxVersion
<1>5. /\ call' \in [Call -> CallRecord] /\ call'[p].pc = "ledgerInsert"
      /\ call'[p].version = call[p].version
      /\ \A q \in Call : q # p => call'[q] = call[q]
  BY <1>1, GotoTyped DEF SettleInv, CallPC, EnginePC
<1>6. ReconTypeOK'
  BY <1>1, <1>3, <1>5 DEF SettleInv, ReconTypeOK, CallRecord, LedgerSet
<1>7. ASSUME ~overlapped PROVE Stage(p)' /\ status' \notin Settled
  <2>1. Stage(p)
    BY <1>7 DEF SettleInv, StagesKnown
  <2>2. status' \notin Settled
    BY <1>1, <2>1 DEF Stage, EnginePC
  <2> QED
    BY <1>1, <1>3, <1>4, <1>5, <2>1, <2>2 DEF Stage
<1>8. Running(p)
  BY <1>1 DEF Running, EnginePC
<1> QED
  BY <1>1, <1>4, <1>5, <1>6, <1>7, <1>8, EngineStage DEF SettleInv

\* The run's own set is the newest and the only ACTIVE one.
LEMMA LedgerInsertKeeps ==
  ASSUME SettleInv, NEW p \in Call, LedgerInsert(p)
  PROVE  SettleInv'
<1> DEFINE new == [run |-> p, version |-> call[p].version, active |-> TRUE]
<1>1. /\ ledger' = ledger \cup {new}
      /\ Goto(p, "routeBatch") /\ call[p].pc = "ledgerInsert"
      /\ UNCHANGED <<routing, status, lock, snapshots, results, exceptions, tokens, faults,
                     overlapped, reclaimed>>
  BY DEF LedgerInsert, At, history
<1>2. /\ new \in LedgerSet /\ new.version \in Nat /\ new.version = call[p].version
      /\ new.active /\ new.run = p
      /\ ledger \subseteq LedgerSet /\ \A s \in ledger : s.version \in Nat
  BY DEF SettleInv, ReconTypeOK, LedgerSet
<1> HIDE DEF new
<1>3. /\ call' \in [Call -> CallRecord] /\ call'[p].pc = "routeBatch"
      /\ \A q \in Call : q # p => call'[q] = call[q]
  BY <1>1, GotoTyped DEF SettleInv, CallPC, EnginePC
<1>4. ReconTypeOK'
  BY <1>1, <1>2, <1>3 DEF SettleInv, ReconTypeOK, CallRecord, LedgerSet
<1>5. LedgerTop'
  <2>1. CASE ledger = {} \/ \A t \in ledger : t.version <= new.version
    BY <1>1, <1>2, <2>1 DEF LedgerTop
  <2>2. CASE \E t \in ledger : ~(t.version <= new.version)
    <3>1. PICK s \in ledger : \A t \in ledger : t.version <= s.version
      BY <2>2 DEF SettleInv, LedgerTop
    <3>2. new.version <= s.version
      BY <1>2, <2>2, <3>1
    <3> QED
      BY <1>1, <1>2, <3>1, <3>2 DEF LedgerTop
  <2> QED
    BY <2>1, <2>2
<1>6. ASSUME ~overlapped PROVE Stage(p)' /\ status' \notin Settled
  <2>1. Stage(p)
    BY <1>6 DEF SettleInv, StagesKnown
  <2>2. status' \notin Settled
    BY <1>1, <2>1 DEF Stage, EnginePC
  <2>3. /\ results = {p} /\ exceptions = {p} /\ new.version = MaxVersion + 1
        /\ \A t \in ledger : ~t.active
    BY <1>1, <1>2, <2>1 DEF Stage
  <2>4. MaxVersion \in Nat /\ \A t \in ledger : t.version <= MaxVersion
    BY TopVersion DEF SettleInv
  <2>5. \A t \in ledger' : t.version <= new.version
    BY <1>1, <1>2, <2>3, <2>4
  <2>6. new.version = MaxVersion'
    <3>1. /\ MaxVersion' \in Nat /\ \A t \in ledger' : t.version <= MaxVersion'
          /\ \A s \in ledger' : (\A t \in ledger' : t.version <= s.version) => s.version = MaxVersion'
      BY <1>4, <1>5, TopNext
    <3> QED
      BY <1>1, <2>5, <3>1
  <2>7. Consistent'
    BY <1>1, <1>2, <2>3, <2>6 DEF Consistent
  <2> QED
    BY <1>3, <2>2, <2>7 DEF Stage
<1>7. Running(p)
  BY <1>1 DEF Running, EnginePC
<1> QED
  BY <1>1, <1>3, <1>4, <1>5, <1>6, <1>7, EngineStage DEF SettleInv

\* The batch is routed; the multi-pass run completes it.
LEMMA SettlingKeeps ==
  ASSUME SettleInv, NEW p \in Call, EngineRoute(p) \/ MultiSnapshot(p)
  PROVE  SettleInv'
<1>1. /\ call[p].pc \in {"routeBatch", "snapshot"} /\ status' \in BatchStatus
      /\ snapshots' \in Nat
      /\ UNCHANGED <<routing, lock, results, exceptions, ledger, tokens, faults, overlapped,
                     reclaimed>>
      /\ \E pc \in {"snapshot", "done", "release"} : Goto(p, pc)
  BY DEF EngineRoute, MultiSnapshot, At, stored, history, RoutedStatus, BatchStatus, SettleInv,
         ReconTypeOK
<1>2. PICK pc \in {"snapshot", "done", "release"} : Goto(p, pc)
  BY <1>1
<1>3. pc \in CallPC
  BY DEF CallPC, MultiPC
<1>4. /\ call' \in [Call -> CallRecord] /\ call'[p].pc = pc
      /\ \A q \in Call : q # p => call'[q] = call[q]
  BY <1>2, <1>3, GotoTyped DEF SettleInv
<1>5. ReconTypeOK'
  BY <1>1, <1>4 DEF SettleInv, ReconTypeOK, CallRecord
<1>6. LedgerTop' /\ MaxVersion' = MaxVersion
  BY <1>1 DEF SettleInv, LedgerTop, MaxVersion, Versions
<1>7. ASSUME ~overlapped PROVE Stage(p)' /\ Consistent'
  <2>1. Consistent
    BY <1>1, <1>7 DEF SettleInv, StagesKnown, Stage
  <2>2. Consistent'
    BY <1>1, <1>6, <2>1 DEF Consistent
  <2> QED
    BY <1>4, <2>2 DEF Stage, EnginePC
<1>8. Running(p)
  BY <1>1 DEF Running, EnginePC
<1> QED
  BY <1>1, <1>4, <1>5, <1>6, <1>7, <1>8, EngineStage DEF SettleInv

\* For any number of calls, deaths and exceptions: as long as no two runs of
\* the engine were under way at once, a batch in a final status has exactly one
\* ACTIVE ledger set, the newest, written by the run whose rows are stored.
THEOREM ReconSettles == ReconSpec => [](ReconTypeOK /\ SettledIsConsistent)
<1>1. ReconInit => SettleInv
  <2> SUFFICES ASSUME ReconInit PROVE SettleInv
    OBVIOUS
  <2>1. \A p \in Call : call[p].pc \in {"idle", "done"}
    BY InitCalls
  <2>2. call \in [Call -> CallRecord]
    <3>1. PICK made \in SUBSET Call :
            call = [p \in Call |-> IF p \in made THEN NoCall ELSE [NoCall EXCEPT !.pc = "done"]]
      BY DEF ReconInit
    <3> QED
      BY <3>1 DEF NoCall, CallRecord, CallPC
  <2>3. ReconTypeOK
    <3>1. overlapped \in BOOLEAN /\ lock \in [token : Nat, stale : BOOLEAN]
      BY DEF ReconInit
    <3>2. faults \in 0..MaxFaults /\ status \in BatchStatus
      BY ReconciliationAssumption DEF ReconInit, BatchStatus
    <3>3. /\ snapshots \in Nat /\ tokens \in Nat /\ routing \in Routing
          /\ results = {} /\ exceptions = {} /\ ledger = {} /\ reclaimed = {}
      BY DEF ReconInit
    <3> QED
      BY <2>2, <3>1, <3>2, <3>3 DEF ReconTypeOK, CallRecord
  <2>4. \A p \in Call : ~Running(p) /\ Stage(p)
    BY <2>1 DEF Running, Stage, EnginePC
  <2> QED
    BY <2>3, <2>4 DEF ReconInit, SettleInv, LedgerTop, StagesKnown, OneEngine, Settled
<1>2. SettleInv /\ [ReconNext]_reconVars => SettleInv'
  <2>1. ASSUME SettleInv, NEW p \in Call, CallStep(p) \/ Throw(p) \/ Die(p) PROVE SettleInv'
    BY <2>1, OutsideKeeps, EngineStartKeeps, EngineRowsKeep, LedgerReadKeeps,
       LedgerSupersedeKeeps, LedgerInsertKeeps, SettlingKeeps DEF CallStep
  <2>2. ASSUME SettleInv, LockAges \/ UNCHANGED reconVars PROVE SettleInv'
    <3>1. /\ UNCHANGED <<routing, status, snapshots, results, exceptions, ledger, call, tokens,
                         faults, overlapped, reclaimed>>
          /\ lock' \in [token : Nat, stale : BOOLEAN]
      BY <2>2 DEF LockAges, reconVars, stored, history, SettleInv, ReconTypeOK
    <3>2. ReconTypeOK'
      BY <2>2, <3>1 DEF SettleInv, ReconTypeOK
    <3>3. LedgerTop' /\ MaxVersion' = MaxVersion /\ (Consistent' <=> Consistent)
      BY <2>2, <3>1 DEF SettleInv, LedgerTop, MaxVersion, Versions, Consistent
    <3>4. \A p : (Stage(p)' <=> Stage(p)) /\ (Running(p)' <=> Running(p))
      BY <3>1, <3>3 DEF Stage, Running
    <3>5. StagesKnown'
      BY <2>2, <3>1, <3>3, <3>4 DEF SettleInv, StagesKnown, OneEngine
    <3> QED
      BY <3>2, <3>3, <3>5 DEF SettleInv
  <2> QED
    BY <2>1, <2>2 DEF ReconNext
<1>3. SettleInv => ReconTypeOK /\ SettledIsConsistent
  BY DEF SettleInv, StagesKnown, Consistent, SettledIsConsistent
<1> QED
  BY <1>1, <1>2, <1>3, PTL DEF ReconSpec

-----------------------------------------------------------------------------
(* The persisted scale run *)

\* What the runs of one plan count with: sets of its partitions are finite.
LEMMA PartSets ==
  /\ IsFiniteSet(Part) /\ Cardinality(Part) = PlanSize
  /\ \A S \in SUBSET Part : IsFiniteSet(S) /\ Cardinality(S) \in Nat
<1>1. IsFiniteSet(Part) /\ Cardinality(Part) = PlanSize
  BY ScaleAssumption, FS_Interval DEF Part
<1> QED
  BY <1>1, FS_Subset, FS_CardinalityType

\* The first partitions of a set are some of it, and none only if it is empty.
LEMMA FirstOfSome ==
  ASSUME NEW S \in SUBSET Part, NEW k \in Nat \ {0}
  PROVE  FirstOf(S, k) \subseteq S /\ (FirstOf(S, k) = {} => S = {})
<1>1. ASSUME S # {} PROVE FirstOf(S, k) # {}
  <2>1. S \subseteq Nat
    BY ScaleAssumption DEF Part
  <2>2. PICK n \in S : \A m \in S : ~(<<m, n>> \in OpToRel(<, Nat))
    BY <1>1, <2>1, NatLessThanWellFounded, WFMin
  <2>3. \A m \in S : ~(m < n)
    BY <2>1, <2>2 DEF OpToRel
  <2>4. Cardinality({m \in S : m < n}) = 0
    BY <2>3, FS_EmptySet
  <2> QED
    BY <2>4 DEF FirstOf
<1> QED
  BY <1>1 DEF FirstOf

-----------------------------------------------------------------------------

\* Only one invocation is under way.
OneRunner == \A q, r \in Runner : RunnerUnderWay(q) /\ RunnerUnderWay(r) => q = r

\* What an invocation that runs alone knows of its batch: it is not completed,
\* or it is and not counted yet.
BatchKnown(r) ==
  /\ runner[r].pc \in {"claimWrite", "complete"} => runner[r].batch \cap DoneParts = {}
  /\ runner[r].pc = "countRead" =>
       /\ runner[r].batch \subseteq DoneParts
       /\ scaleRun.completed + Cardinality(runner[r].batch) <= Cardinality(DoneParts)
  /\ runner[r].pc = "countWrite" =>
       /\ runner[r].batch \subseteq DoneParts /\ runner[r].logged \subseteq DoneParts
       /\ runner[r].seen + Cardinality(runner[r].batch) <= Cardinality(DoneParts)

\* The inductive invariant behind ProgressNeverAhead.
ProgressInv ==
  ~concurrent =>
    /\ OneRunner
    /\ scaleRun.completed <= Cardinality(DoneParts) /\ scaleRun.logged \subseteq DoneParts
    /\ \A r \in Runner : BatchKnown(r)

\* The partitions that S does not name wait or are completed.
OthersWait(S) == \A n \in Part \ S : parts[n] \in {"PENDING", "COMPLETED"}

\* The first invocation on its way through the plan, when it runs alone and
\* does not die: how far it is, what it has counted and what it has matched.
PlanStage(r) ==
  /\ runner[r].pc = "createParts" =>
       /\ \A n \in Part : parts[n] \in {"ABSENT", "PENDING"}
       /\ scaleRun.completed = 0 /\ runner[r].matched = {}
  /\ runner[r].pc \in {"claimRead", "claimWrite"} =>
       /\ OthersWait({}) /\ runner[r].matched = DoneParts
       /\ scaleRun.completed = Cardinality(DoneParts)
  /\ runner[r].pc = "complete" =>
       /\ OthersWait(runner[r].batch) /\ runner[r].matched = DoneParts \cup runner[r].batch
       /\ scaleRun.completed = Cardinality(DoneParts)
  /\ runner[r].pc = "countRead" =>
       /\ OthersWait({}) /\ runner[r].matched = DoneParts
       /\ scaleRun.completed + Cardinality(runner[r].batch) = Cardinality(DoneParts)
  /\ runner[r].pc = "countWrite" =>
       /\ OthersWait({}) /\ runner[r].matched = DoneParts
       /\ runner[r].seen + Cardinality(runner[r].batch) = Cardinality(DoneParts)
  /\ runner[r].pc = "finalize" =>
       DoneParts = Part /\ scaleRun.completed = PlanSize /\ runner[r].matched = Part

\* The whole plan is done, counted and in one invocation's hands.
Whole ==
  /\ DoneParts = Part /\ scaleRun.completed = PlanSize
  /\ \E r \in Runner : runner[r].matched = Part

\* Where invocations may be for each status of the run.
PlacesKnown ==
  /\ \A r \in Runner :
       /\ runner[r].pc \in {"idle", "create"} => runner[r].matched = {}
       /\ runner[r].pc # "failed"
  /\ scaleRun.status = "ABSENT" =>
       /\ \A r \in Runner : runner[r].pc \in {"idle", "create"}
       /\ \A n \in Part : parts[n] = "ABSENT"
       /\ scaleRun.completed = 0
  /\ scaleRun.status = "RUNNING" =>
       /\ \A r \in Runner : runner[r].pc \notin {"create", "done"} /\ PlanStage(r)
       /\ \E r \in Runner : RunnerUnderWay(r)
  /\ scaleRun.status = "COMPLETED" =>
       /\ Whole
       /\ \A r \in Runner : runner[r].pc \in {"idle", "claimRead", "finalize", "done"}

\* The inductive invariant behind CompletedIsWhole.
WholeInv == runnerDeaths = 0 /\ ~concurrent => PlacesKnown

\* The whole of it.
ScaleInv ==
  /\ ScaleTypeOK /\ runnerDeaths \in Nat /\ concurrent \in BOOLEAN
  /\ ProgressInv /\ WholeInv

-----------------------------------------------------------------------------

\* Nothing has begun.
LEMMA ScaleInvInit == ScaleInit => ScaleInv
<1> SUFFICES ASSUME ScaleInit PROVE ScaleInv
  OBVIOUS
<1>1. ScaleTypeOK
  BY ScaleAssumption DEF ScaleInit, ScaleTypeOK, NoRunner, RunnerPC
<1>2. DoneParts = {} /\ Cardinality(DoneParts) = 0
  BY FS_EmptySet DEF ScaleInit, DoneParts
<1>3. ProgressInv
  BY <1>2 DEF ScaleInit, ProgressInv, OneRunner, RunnerUnderWay, BatchKnown, NoRunner
<1>4. WholeInv
  BY DEF ScaleInit, WholeInv, PlacesKnown, NoRunner
<1> QED
  BY <1>1, <1>3, <1>4 DEF ScaleInv, ScaleInit

\* An invocation's fields.
RunnerRecord ==
  [pc : RunnerPC, batch : SUBSET Part, seen : Nat, logged : SUBSET Part,
   sweep : 0..ScaleSweeps, inner : BOOLEAN, matched : SUBSET Part]

\* One invocation moves, the others stay.
LEMMA GotoMoves ==
  ASSUME ScaleTypeOK, NEW r \in Runner, NEW pc \in RunnerPC, RunnerGoto(r, pc)
  PROVE  /\ runner' \in [Runner -> RunnerRecord]
         /\ \A q \in Runner : q # r => runner'[q] = runner[q]
         /\ runner'[r].pc = pc /\ runner'[r].batch = runner[r].batch
         /\ runner'[r].seen = runner[r].seen /\ runner'[r].logged = runner[r].logged
         /\ runner'[r].matched = runner[r].matched
  BY DEF ScaleTypeOK, RunnerGoto, RunnerRecord

\* While one invocation runs alone the others have not begun or are over.
LEMMA Alone ==
  ASSUME OneRunner, NEW r \in Runner, RunnerUnderWay(r), NEW q \in Runner, q # r
  PROVE  runner[q].pc \in {"idle", "done", "failed"}
  BY DEF OneRunner, RunnerUnderWay

\* The partitions are as they were.
LEMMA SameParts ==
  ASSUME UNCHANGED parts
  PROVE  DoneParts' = DoneParts /\ \A S : OthersWait(S)' <=> OthersWait(S)
  BY DEF DoneParts, OthersWait

\* Completed partitions are partitions.
LEMMA DoneType == DoneParts \in SUBSET Part /\ DoneParts' \in SUBSET Part
  BY DEF DoneParts

\* An invocation begins: alone, or the overlap is noted.
LEMMA FindRunKeeps ==
  ASSUME ScaleInv, NEW r \in Runner, FindRun(r)
  PROVE  ScaleInv'
<1>1. /\ UNCHANGED <<scaleRun, parts, runnerDeaths>>
      /\ runner[r].pc = "idle"
      /\ \A q \in Runner : q # r => runner'[q] = runner[q]
      /\ runner'[r].matched = runner[r].matched
      /\ runner'[r].pc = IF scaleRun.status = "ABSENT" THEN "create" ELSE "claimRead"
      /\ ScaleTypeOK'
  <2>1. RunnerGoto(r, "create") \/ RunnerGoto(r, "claimRead")
    BY DEF FindRun
  <2> QED
    BY <2>1, GotoMoves DEF FindRun, ScaleInv, RunnerPC, ScaleTypeOK, RunnerRecord, RunnerAt
<1>2. concurrent' \in BOOLEAN
  BY DEF FindRun, ScaleInv
<1>3. ASSUME ~concurrent' PROVE ~concurrent /\ \A q \in Runner : ~RunnerUnderWay(q)
  BY <1>3 DEF FindRun
<1>4. DoneParts' = DoneParts
  BY <1>1, SameParts
<1>5. ProgressInv'
  <2> SUFFICES ASSUME ~concurrent' PROVE ProgressInv'
    BY DEF ProgressInv
  <2>1. OneRunner'
    BY <1>1, <1>3 DEF OneRunner, RunnerUnderWay
  <2>2. \A q \in Runner : BatchKnown(q)'
    BY <1>1, <1>3, <1>4 DEF ScaleInv, ProgressInv, BatchKnown
  <2> QED
    BY <1>1, <1>3, <1>4, <2>1, <2>2 DEF ScaleInv, ProgressInv
<1>6. WholeInv'
  <2> SUFFICES ASSUME ~concurrent', runnerDeaths = 0 PROVE PlacesKnown'
    BY <1>1 DEF WholeInv
  <2>1. PlacesKnown /\ scaleRun.status # "RUNNING"
    BY <1>3 DEF ScaleInv, WholeInv, PlacesKnown
  <2>2. \A q \in Runner : runner'[q].matched = runner[q].matched
    BY <1>1
  <2>3. Whole => Whole'
    BY <1>1, <1>4, <2>2 DEF Whole
  <2> QED
    BY <1>1, <2>1, <2>2, <2>3 DEF PlacesKnown, ScaleInv, ScaleTypeOK
<1> QED
  BY <1>1, <1>2, <1>5, <1>6 DEF ScaleInv

\* What is left to show of a step of an invocation under way.
LEMMA ProgressKept ==
  ASSUME ScaleInv, NEW r \in Runner, RunnerUnderWay(r), UNCHANGED concurrent,
         \A q \in Runner : q # r => runner'[q] = runner[q],
         ~concurrent => /\ scaleRun'.completed <= Cardinality(DoneParts')
                        /\ scaleRun'.logged \subseteq DoneParts'
                        /\ BatchKnown(r)'
  PROVE  ProgressInv'
<1> SUFFICES ASSUME ~concurrent PROVE ProgressInv'
  BY DEF ProgressInv
<1>1. OneRunner
  BY DEF ScaleInv, ProgressInv
<1>2. \A q \in Runner : q # r => runner'[q].pc \in {"idle", "done", "failed"}
  BY <1>1, Alone
<1>3. OneRunner'
  BY <1>2 DEF OneRunner, RunnerUnderWay
<1>4. \A q \in Runner : BatchKnown(q)'
  BY <1>2 DEF BatchKnown
<1> QED
  BY <1>3, <1>4 DEF ProgressInv

\* The same for the first invocation on its way through the plan.
LEMMA RunningKept ==
  ASSUME ScaleInv, runnerDeaths = 0, ~concurrent, NEW r \in Runner, RunnerUnderWay(r),
         scaleRun.status \in {"ABSENT", "RUNNING"}, scaleRun'.status = "RUNNING",
         \A q \in Runner : q # r => runner'[q] = runner[q],
         runner'[r].pc \notin {"idle", "create", "done", "failed"}, PlanStage(r)'
  PROVE  PlacesKnown'
<1>1. OneRunner /\ PlacesKnown
  BY DEF ScaleInv, ProgressInv, WholeInv
<1>2. \A q \in Runner : q # r => runner[q].pc \in {"idle", "done", "failed"}
  BY <1>1, Alone
<1>3. \A q \in Runner : q # r => runner'[q].pc = "idle" /\ runner'[q].matched = {}
  BY <1>1, <1>2 DEF PlacesKnown
<1>4. \A q \in Runner : PlanStage(q)'
  BY <1>3 DEF PlanStage
<1>5. RunnerUnderWay(r)'
  BY DEF RunnerUnderWay
<1> QED
  BY <1>3, <1>4, <1>5 DEF PlacesKnown

\* Where an invocation that runs alone is tells the status of the run.
LEMMA StatusKnown ==
  ASSUME ScaleInv, runnerDeaths = 0, ~concurrent, NEW r \in Runner
  PROVE  /\ runner[r].pc = "create" => scaleRun.status = "ABSENT"
         /\ runner[r].pc \in {"createParts", "claimWrite", "complete", "countRead", "countWrite"} =>
              scaleRun.status = "RUNNING" /\ PlanStage(r)
         /\ runner[r].pc \in {"claimRead", "finalize"} =>
              \/ scaleRun.status = "RUNNING" /\ PlanStage(r)
              \/ scaleRun.status = "COMPLETED" /\ Whole
  BY DEF ScaleInv, WholeInv, PlacesKnown, ScaleTypeOK

\* The row is created, or somebody else has created it.
LEMMA CreateRunKeeps ==
  ASSUME ScaleInv, NEW r \in Runner, CreateRun(r)
  PROVE  ScaleInv'
<1>1. /\ UNCHANGED <<parts, runnerDeaths, concurrent>> /\ RunnerUnderWay(r)
      /\ runner[r].pc = "create"
      /\ scaleRun'.completed = scaleRun.completed /\ scaleRun'.logged = scaleRun.logged
      /\ scaleRun.status = "ABSENT" => scaleRun'.status = "RUNNING" /\ runner'[r].pc = "createParts"
      /\ runner'[r].pc \in {"createParts", "failed"}
      /\ \A q \in Runner : q # r => runner'[q] = runner[q]
      /\ runner'[r].matched = runner[r].matched
      /\ ScaleTypeOK'
  <2>1. RunnerGoto(r, "createParts") \/ RunnerGoto(r, "failed")
    BY DEF CreateRun
  <2>2. scaleRun' = scaleRun \/ scaleRun' = [scaleRun EXCEPT !.status = "RUNNING"]
    BY DEF CreateRun
  <2>3. UNCHANGED parts
    BY DEF CreateRun
  <2>4. ScaleTypeOK'
    BY <2>1, <2>2, <2>3, GotoMoves DEF ScaleInv, RunnerPC, ScaleTypeOK, RunnerRecord
  <2> QED
    BY <2>1, <2>2, <2>4, GotoMoves
       DEF CreateRun, ScaleInv, RunnerPC, ScaleTypeOK, RunnerAt, RunnerUnderWay
<1>2. DoneParts' = DoneParts
  BY <1>1, SameParts
<1>3. ProgressInv'
  <2>1. BatchKnown(r)'
    BY <1>1 DEF BatchKnown
  <2> QED
    BY <1>1, <1>2, <2>1, ProgressKept DEF ScaleInv, ProgressInv
<1>4. WholeInv'
  <2> SUFFICES ASSUME ~concurrent, runnerDeaths = 0 PROVE PlacesKnown'
    BY <1>1 DEF WholeInv
  <2>1. scaleRun.status = "ABSENT" /\ PlacesKnown
    BY <1>1, StatusKnown DEF ScaleInv, WholeInv
  <2>2. PlanStage(r)'
    BY <1>1, <2>1 DEF PlanStage, PlacesKnown
  <2> QED
    BY <1>1, <2>1, <2>2, RunningKept
<1> QED
  BY <1>1, <1>3, <1>4 DEF ScaleInv

\* One more chunk of the partitions.
LEMMA CreatePartsKeeps ==
  ASSUME ScaleInv, NEW r \in Runner, CreateParts(r)
  PROVE  ScaleInv'
<1> DEFINE chunk == FirstOf(Absent, CreateChunk)
<1>1. /\ UNCHANGED <<scaleRun, runnerDeaths, concurrent>> /\ RunnerUnderWay(r)
      /\ runner[r].pc = "createParts"
      /\ parts' = [n \in Part |-> IF n \in chunk THEN "PENDING" ELSE parts[n]]
      /\ runner'[r].pc \in {"createParts", "claimRead"}
      /\ runner'[r].pc = "claimRead" => chunk = Absent
      /\ \A q \in Runner : q # r => runner'[q] = runner[q]
      /\ runner'[r].matched = runner[r].matched
      /\ ScaleTypeOK'
  <2>1. /\ RunnerGoto(r, IF chunk # Absent THEN "createParts" ELSE "claimRead")
        /\ parts' = [n \in Part |-> IF n \in chunk THEN "PENDING" ELSE parts[n]]
        /\ UNCHANGED <<scaleRun, runnerDeaths, concurrent>> /\ runner[r].pc = "createParts"
    BY DEF CreateParts, MoreChunks, RunnerAt
  <2>2. (IF chunk # Absent THEN "createParts" ELSE "claimRead") \in RunnerPC
    BY DEF RunnerPC
  <2>3. /\ runner' \in [Runner -> RunnerRecord]
        /\ \A q \in Runner : q # r => runner'[q] = runner[q]
        /\ runner'[r].pc = (IF chunk # Absent THEN "createParts" ELSE "claimRead")
        /\ runner'[r].matched = runner[r].matched
    BY <2>1, <2>2, GotoMoves DEF ScaleInv
  <2>4. ScaleTypeOK'
    BY <2>1, <2>3 DEF ScaleInv, ScaleTypeOK, RunnerRecord
  <2> QED
    BY <2>1, <2>3, <2>4 DEF RunnerUnderWay
<1>2. chunk \subseteq Absent
  BY FirstOfSome, ScaleAssumption DEF Absent
<1>3. DoneParts' = DoneParts
  BY <1>1, <1>2 DEF DoneParts, Absent
<1>4. ProgressInv'
  <2>1. BatchKnown(r)'
    BY <1>1 DEF BatchKnown
  <2> QED
    BY <1>1, <1>3, <2>1, ProgressKept DEF ScaleInv, ProgressInv
<1>5. WholeInv'
  <2> SUFFICES ASSUME ~concurrent, runnerDeaths = 0 PROVE PlacesKnown'
    BY <1>1 DEF WholeInv
  <2>1. scaleRun.status = "RUNNING" /\ PlanStage(r)
    BY <1>1, StatusKnown
  <2>2. DoneParts = {} /\ Cardinality(DoneParts) = 0
    BY <1>1, <2>1, FS_EmptySet DEF PlanStage, DoneParts
  <2>3. \A n \in Part : parts'[n] \in {"ABSENT", "PENDING"}
    BY <1>1, <2>1 DEF PlanStage
  <2>4. runner'[r].pc = "claimRead" => OthersWait({})'
    BY <1>1, <2>1 DEF PlanStage, OthersWait, Absent
  <2>5. PlanStage(r)'
    BY <1>1, <1>3, <2>1, <2>2, <2>3, <2>4 DEF PlanStage
  <2> QED
    BY <1>1, <2>1, <2>5, RunningKept
<1> QED
  BY <1>1, <1>4, <1>5 DEF ScaleInv

\* The next batch, or none: then everything is completed.
LEMMA ClaimReadKeeps ==
  ASSUME ScaleInv, NEW r \in Runner, ClaimRead(r)
  PROVE  ScaleInv'
<1> DEFINE pending == {n \in Part : parts[n] \in ClaimableStatus}
           batch == FirstOf(pending, ScaleBatch)
<1>1. batch \subseteq pending /\ (batch = {} => pending = {})
  BY FirstOfSome, ScaleAssumption
<1>2. /\ UNCHANGED <<scaleRun, parts, runnerDeaths, concurrent>> /\ RunnerUnderWay(r)
      /\ runner[r].pc = "claimRead"
      /\ \A q \in Runner : q # r => runner'[q] = runner[q]
      /\ runner' \in [Runner -> RunnerRecord]
      /\ runner'[r].matched = runner[r].matched
      /\ \/ batch # {} /\ runner'[r].pc = "claimWrite" /\ runner'[r].batch = batch
         \/ batch = {} /\ runner'[r].pc \in {"claimRead", "finalize"}
  <2> DEFINE old == runner[r]
             new == IF batch # {} THEN [old EXCEPT !.pc = "claimWrite", !.batch = batch, !.inner = TRUE]
                    ELSE IF old.inner /\ old.sweep + 1 < ScaleSweeps
                      THEN [old EXCEPT !.sweep = old.sweep + 1, !.inner = FALSE]
                    ELSE [old EXCEPT !.pc = "finalize"]
  <2>1. /\ UNCHANGED <<scaleRun, parts, runnerDeaths, concurrent>> /\ runner[r].pc = "claimRead"
        /\ runner' = [runner EXCEPT ![r] = new]
    BY DEF ClaimRead, RunnerAt
  <2>2. old \in RunnerRecord /\ runner \in [Runner -> RunnerRecord]
    BY DEF ScaleInv, ScaleTypeOK, RunnerRecord
  <2>3. batch \in SUBSET Part
    BY <1>1
  <2>4. /\ new \in RunnerRecord /\ new.matched = old.matched
        /\ \/ batch # {} /\ new.pc = "claimWrite" /\ new.batch = batch
           \/ batch = {} /\ new.pc \in {"claimRead", "finalize"}
    <3> HIDE DEF batch
    <3>1. CASE batch # {}
      BY <2>1, <2>2, <2>3, <3>1 DEF RunnerRecord, RunnerPC
    <3>2. CASE batch = {} /\ old.inner /\ old.sweep + 1 < ScaleSweeps
      <4>1. new = [old EXCEPT !.sweep = old.sweep + 1, !.inner = FALSE]
        BY <3>2
      <4>2. old.sweep + 1 \in 0..ScaleSweeps
        BY <2>2, <3>2, ScaleAssumption DEF RunnerRecord
      <4> QED
        BY <2>1, <2>2, <3>2, <4>1, <4>2 DEF RunnerRecord
    <3>3. CASE batch = {} /\ ~(old.inner /\ old.sweep + 1 < ScaleSweeps)
      BY <2>1, <2>2, <3>3 DEF RunnerRecord, RunnerPC
    <3> QED
      BY <3>1, <3>2, <3>3
  <2> HIDE DEF new, batch
  <2> QED
    BY <2>1, <2>2, <2>4 DEF RunnerUnderWay
<1>3. ScaleTypeOK'
  BY <1>2 DEF ScaleInv, ScaleTypeOK, RunnerRecord
<1>4. DoneParts' = DoneParts /\ batch \cap DoneParts = {} /\ (OthersWait({})' <=> OthersWait({}))
  BY <1>1, <1>2, SameParts DEF DoneParts, ClaimableStatus
<1> HIDE DEF batch
<1>5. ProgressInv'
  <2>1. BatchKnown(r)'
    BY <1>2, <1>4 DEF BatchKnown
  <2> QED
    BY <1>2, <1>4, <2>1, ProgressKept DEF ScaleInv, ProgressInv
<1>6. WholeInv'
  <2> SUFFICES ASSUME ~concurrent, runnerDeaths = 0 PROVE PlacesKnown'
    BY <1>2 DEF WholeInv
  <2>1. CASE scaleRun.status = "RUNNING" /\ PlanStage(r)
    <3>1. /\ OthersWait({}) /\ runner[r].matched = DoneParts
          /\ scaleRun.completed = Cardinality(DoneParts)
      BY <1>2, <2>1 DEF PlanStage
    <3>2. batch = {} => DoneParts = Part /\ Cardinality(DoneParts) = PlanSize
      BY <1>1, <3>1, PartSets DEF OthersWait, ClaimableStatus, DoneParts
    <3>3. PlanStage(r)'
      BY <1>2, <1>4, <3>1, <3>2 DEF PlanStage
    <3> QED
      BY <1>2, <2>1, <3>3, RunningKept
  <2>2. CASE scaleRun.status = "COMPLETED" /\ Whole
    <3>1. batch = {}
      BY <1>1, <2>2 DEF Whole, DoneParts, ClaimableStatus
    <3>2. \A q \in Runner : runner'[q].matched = runner[q].matched
      BY <1>2
    <3>3. Whole'
      BY <1>2, <1>4, <2>2, <3>2 DEF Whole
    <3>4. PlacesKnown
      BY DEF ScaleInv, WholeInv
    <3> QED
      BY <1>2, <2>2, <3>1, <3>3, <3>4 DEF PlacesKnown
  <2> QED
    BY <1>2, <2>1, <2>2, StatusKnown
<1> QED
  BY <1>2, <1>3, <1>5, <1>6 DEF ScaleInv

\* The batch is marked and matched.
LEMMA ClaimWriteKeeps ==
  ASSUME ScaleInv, NEW r \in Runner, ClaimWrite(r)
  PROVE  ScaleInv'
<1>1. /\ UNCHANGED <<scaleRun, runnerDeaths, concurrent>> /\ RunnerUnderWay(r)
      /\ runner[r].pc = "claimWrite"
      /\ parts' = [n \in Part |-> IF n \in runner[r].batch THEN "RUNNING" ELSE parts[n]]
      /\ \A q \in Runner : q # r => runner'[q] = runner[q]
      /\ runner' \in [Runner -> RunnerRecord]
      /\ runner'[r].pc = "complete" /\ runner'[r].batch = runner[r].batch
      /\ runner'[r].matched = runner[r].matched \cup runner[r].batch
  <2>1. /\ UNCHANGED <<scaleRun, runnerDeaths, concurrent>> /\ runner[r].pc = "claimWrite"
        /\ parts' = [n \in Part |-> IF n \in runner[r].batch THEN "RUNNING" ELSE parts[n]]
        /\ runner' = [runner EXCEPT ![r].pc = "complete", ![r].matched = @ \cup runner[r].batch]
    BY DEF ClaimWrite, RunnerAt
  <2>2. runner \in [Runner -> RunnerRecord]
    BY DEF ScaleInv, ScaleTypeOK, RunnerRecord
  <2>3. /\ \A q \in Runner : q # r => runner'[q] = runner[q]
        /\ runner'[r] = [runner[r] EXCEPT !.pc = "complete",
                                         !.matched = runner[r].matched \cup runner[r].batch]
        /\ DOMAIN runner' = Runner /\ runner' = [q \in Runner |-> runner'[q]]
    BY <2>1, <2>2
  <2>4. /\ runner'[r] \in RunnerRecord /\ runner'[r].pc = "complete"
        /\ runner'[r].batch = runner[r].batch
        /\ runner'[r].matched = runner[r].matched \cup runner[r].batch
    <3>1. runner[r] \in RunnerRecord
      BY <2>2
    <3>2. runner[r].matched \cup runner[r].batch \in SUBSET Part
      BY <3>1 DEF RunnerRecord
    <3>3. "complete" \in RunnerPC
      BY DEF RunnerPC
    <3> QED
      BY <2>3, <3>1, <3>2, <3>3 DEF RunnerRecord
  <2>5. runner' \in [Runner -> RunnerRecord]
    BY <2>2, <2>3, <2>4
  <2> QED
    BY <2>1, <2>3, <2>4, <2>5 DEF RunnerUnderWay
<1>2. ScaleTypeOK'
  BY <1>1 DEF ScaleInv, ScaleTypeOK, RunnerRecord
<1>3. DoneParts' = DoneParts \ runner[r].batch
  BY <1>1 DEF DoneParts, ScaleInv, ScaleTypeOK
<1>4. ASSUME ~concurrent PROVE DoneParts' = DoneParts /\ runner[r].batch \cap DoneParts = {}
  BY <1>1, <1>3, <1>4 DEF ScaleInv, ProgressInv, BatchKnown
<1>5. ProgressInv'
  <2>1. ~concurrent => BatchKnown(r)'
    BY <1>1, <1>4 DEF BatchKnown
  <2> QED
    BY <1>1, <1>4, <2>1, ProgressKept DEF ScaleInv, ProgressInv
<1>6. WholeInv'
  <2> SUFFICES ASSUME ~concurrent, runnerDeaths = 0 PROVE PlacesKnown'
    BY <1>1 DEF WholeInv
  <2>1. /\ scaleRun.status = "RUNNING" /\ OthersWait({}) /\ runner[r].matched = DoneParts
        /\ scaleRun.completed = Cardinality(DoneParts)
    BY <1>1, StatusKnown DEF PlanStage
  <2>2. OthersWait(runner[r].batch)'
    BY <1>1, <2>1 DEF OthersWait
  <2>3. PlanStage(r)'
    BY <1>1, <1>4, <2>1, <2>2 DEF PlanStage, OthersWait
  <2> QED
    BY <1>1, <2>1, <2>3, RunningKept
<1> QED
  BY <1>1, <1>2, <1>5, <1>6 DEF ScaleInv

\* The batch is completed, which nobody has counted yet.
LEMMA CompletePartsKeeps ==
  ASSUME ScaleInv, NEW r \in Runner, CompleteParts(r)
  PROVE  ScaleInv'
<1>1. /\ UNCHANGED <<scaleRun, runnerDeaths, concurrent>> /\ RunnerUnderWay(r)
      /\ runner[r].pc = "complete" /\ runner[r].batch \in SUBSET Part
      /\ parts' = [n \in Part |-> IF n \in runner[r].batch THEN "COMPLETED" ELSE parts[n]]
      /\ \A q \in Runner : q # r => runner'[q] = runner[q]
      /\ runner' \in [Runner -> RunnerRecord]
      /\ runner'[r].pc = "countRead" /\ runner'[r].batch = runner[r].batch
      /\ runner'[r].matched = runner[r].matched
  <2>1. RunnerGoto(r, "countRead") /\ "countRead" \in RunnerPC /\ runner[r].pc = "complete"
    BY DEF CompleteParts, RunnerPC, RunnerAt
  <2> QED
    BY <2>1, GotoMoves DEF CompleteParts, RunnerUnderWay, ScaleInv, ScaleTypeOK
<1>2. ScaleTypeOK'
  BY <1>1 DEF ScaleInv, ScaleTypeOK, RunnerRecord
<1>3. DoneParts' = DoneParts \cup runner[r].batch
  BY <1>1 DEF DoneParts, ScaleInv, ScaleTypeOK
<1>4. /\ IsFiniteSet(DoneParts) /\ Cardinality(DoneParts) \in Nat
      /\ IsFiniteSet(runner[r].batch) /\ Cardinality(runner[r].batch) \in Nat
      /\ scaleRun.completed \in Nat
  BY <1>1, PartSets, DoneType DEF ScaleInv, ScaleTypeOK
<1>5. ASSUME ~concurrent
      PROVE  Cardinality(DoneParts') = Cardinality(DoneParts) + Cardinality(runner[r].batch)
  <2>1. DoneParts \cap runner[r].batch = {}
    BY <1>1, <1>5 DEF ScaleInv, ProgressInv, BatchKnown
  <2> QED
    <3>1. Cardinality(DoneParts \cup runner[r].batch) =
            Cardinality(DoneParts) + Cardinality(runner[r].batch)
              - Cardinality(DoneParts \cap runner[r].batch)
      BY <1>4, FS_Union
    <3>2. Cardinality(DoneParts \cap runner[r].batch) = 0
      BY <2>1, FS_EmptySet
    <3> QED
      BY <1>3, <1>4, <3>1, <3>2
<1>6. ProgressInv'
  <2>1. ASSUME ~concurrent
        PROVE  scaleRun.completed <= Cardinality(DoneParts) /\ scaleRun.logged \subseteq DoneParts
    BY <2>1 DEF ScaleInv, ProgressInv
  <2>2. ASSUME ~concurrent
        PROVE  scaleRun.completed + Cardinality(runner[r].batch) <= Cardinality(DoneParts')
    BY <1>4, <1>5, <2>1, <2>2
  <2>3. ASSUME ~concurrent PROVE BatchKnown(r)'
    BY <1>1, <1>3, <2>2, <2>3 DEF BatchKnown
  <2>4. ASSUME ~concurrent
        PROVE  scaleRun.completed <= Cardinality(DoneParts') /\ scaleRun.logged \subseteq DoneParts'
    BY <1>3, <1>4, <1>5, <2>1, <2>4
  <2> QED
    BY <1>1, <2>3, <2>4, ProgressKept
<1>7. WholeInv'
  <2> SUFFICES ASSUME ~concurrent, runnerDeaths = 0 PROVE PlacesKnown'
    BY <1>1 DEF WholeInv
  <2>1. /\ scaleRun.status = "RUNNING" /\ OthersWait(runner[r].batch)
        /\ runner[r].matched = DoneParts \cup runner[r].batch
        /\ scaleRun.completed = Cardinality(DoneParts)
    BY <1>1, StatusKnown DEF PlanStage
  <2>2. OthersWait({})'
    BY <1>1, <2>1 DEF OthersWait
  <2>3. PlanStage(r)'
    BY <1>1, <1>3, <1>5, <2>1, <2>2 DEF PlanStage
  <2> QED
    BY <1>1, <2>1, <2>3, RunningKept
<1> QED
  BY <1>1, <1>2, <1>6, <1>7 DEF ScaleInv

\* The row is read.
LEMMA CountReadKeeps ==
  ASSUME ScaleInv, NEW r \in Runner, CountRead(r)
  PROVE  ScaleInv'
<1>1. /\ UNCHANGED <<scaleRun, parts, runnerDeaths, concurrent>> /\ RunnerUnderWay(r)
      /\ runner[r].pc = "countRead"
      /\ \A q \in Runner : q # r => runner'[q] = runner[q]
      /\ runner' \in [Runner -> RunnerRecord]
      /\ runner'[r].pc = "countWrite" /\ runner'[r].batch = runner[r].batch
      /\ runner'[r].seen = scaleRun.completed /\ runner'[r].logged = scaleRun.logged
      /\ runner'[r].matched = runner[r].matched
  <2>1. /\ UNCHANGED <<scaleRun, parts, runnerDeaths, concurrent>> /\ runner[r].pc = "countRead"
        /\ runner' = [runner EXCEPT ![r].pc = "countWrite", ![r].seen = scaleRun.completed,
                              ![r].logged = scaleRun.logged]
    BY DEF CountRead, RunnerAt
  <2>2. runner \in [Runner -> RunnerRecord] /\ runner[r] \in RunnerRecord
    BY DEF ScaleInv, ScaleTypeOK, RunnerRecord
  <2>3. /\ \A q \in Runner : q # r => runner'[q] = runner[q]
        /\ runner'[r] = [runner[r] EXCEPT !.pc = "countWrite", !.seen = scaleRun.completed,
                                          !.logged = scaleRun.logged]
        /\ DOMAIN runner' = Runner /\ runner' = [q \in Runner |-> runner'[q]]
    BY <2>1, <2>2
  <2>4. scaleRun.completed \in Nat /\ scaleRun.logged \in SUBSET Part /\ "countWrite" \in RunnerPC
    BY DEF ScaleInv, ScaleTypeOK, RunnerPC
  <2>5. /\ runner'[r] \in RunnerRecord /\ runner'[r].pc = "countWrite"
        /\ runner'[r].batch = runner[r].batch
        /\ runner'[r].seen = scaleRun.completed /\ runner'[r].logged = scaleRun.logged
        /\ runner'[r].matched = runner[r].matched
    BY <2>2, <2>3, <2>4 DEF RunnerRecord
  <2> QED
    BY <2>1, <2>2, <2>3, <2>5 DEF RunnerUnderWay
<1>2. ScaleTypeOK'
  BY <1>1 DEF ScaleInv, ScaleTypeOK, RunnerRecord
<1>3. DoneParts' = DoneParts /\ (OthersWait({})' <=> OthersWait({}))
  BY <1>1, SameParts
<1>4. ProgressInv'
  <2>1. ~concurrent => BatchKnown(r)'
    BY <1>1, <1>3 DEF BatchKnown, ScaleInv, ProgressInv
  <2> QED
    BY <1>1, <1>3, <2>1, ProgressKept DEF ScaleInv, ProgressInv
<1>5. WholeInv'
  <2> SUFFICES ASSUME ~concurrent, runnerDeaths = 0 PROVE PlacesKnown'
    BY <1>1 DEF WholeInv
  <2>1. scaleRun.status = "RUNNING" /\ PlanStage(r)
    BY <1>1, StatusKnown
  <2>2. PlanStage(r)'
    BY <1>1, <1>3, <2>1 DEF PlanStage
  <2> QED
    BY <1>1, <2>1, <2>2, RunningKept
<1> QED
  BY <1>1, <1>2, <1>4, <1>5 DEF ScaleInv

\* The row is written with the batch counted.
LEMMA CountWriteKeeps ==
  ASSUME ScaleInv, NEW r \in Runner, CountWrite(r)
  PROVE  ScaleInv'
<1>1. /\ UNCHANGED <<parts, runnerDeaths, concurrent>> /\ RunnerUnderWay(r)
      /\ runner[r].pc = "countWrite"
      /\ \A q \in Runner : q # r => runner'[q] = runner[q]
      /\ runner' \in [Runner -> RunnerRecord]
      /\ runner'[r].pc = "claimRead" /\ runner'[r].matched = runner[r].matched
      /\ scaleRun'.completed = runner[r].seen + Cardinality(runner[r].batch)
      /\ scaleRun'.logged = runner[r].logged \cup runner[r].batch
      /\ scaleRun'.status = scaleRun.status
      /\ scaleRun' \in [status : {"ABSENT", "RUNNING", "COMPLETED"}, completed : Nat,
                        logged : SUBSET Part]
  <2>1. /\ UNCHANGED <<parts, runnerDeaths, concurrent>> /\ runner[r].pc = "countWrite"
        /\ runner' = [runner EXCEPT ![r].pc = "claimRead", ![r].batch = {}]
        /\ scaleRun' = [scaleRun EXCEPT
             !.completed = runner[r].seen + Cardinality(runner[r].batch),
             !.logged = runner[r].logged \cup runner[r].batch]
    BY DEF CountWrite, RunnerAt, Counted
  <2>2. runner \in [Runner -> RunnerRecord] /\ runner[r] \in RunnerRecord
    BY DEF ScaleInv, ScaleTypeOK, RunnerRecord
  <2>3. /\ \A q \in Runner : q # r => runner'[q] = runner[q]
        /\ runner'[r] = [runner[r] EXCEPT !.pc = "claimRead", !.batch = {}]
        /\ DOMAIN runner' = Runner /\ runner' = [q \in Runner |-> runner'[q]]
    BY <2>1, <2>2
  <2>4. /\ runner'[r] \in RunnerRecord /\ runner'[r].pc = "claimRead"
        /\ runner'[r].matched = runner[r].matched
    BY <2>2, <2>3 DEF RunnerRecord, RunnerPC
  <2>5. /\ runner[r].seen + Cardinality(runner[r].batch) \in Nat
        /\ runner[r].logged \cup runner[r].batch \in SUBSET Part
    BY <2>2, PartSets DEF RunnerRecord
  <2>6. scaleRun \in [status : {"ABSENT", "RUNNING", "COMPLETED"}, completed : Nat,
                      logged : SUBSET Part]
    BY DEF ScaleInv, ScaleTypeOK
  <2>7. /\ scaleRun'.completed = runner[r].seen + Cardinality(runner[r].batch)
        /\ scaleRun'.logged = runner[r].logged \cup runner[r].batch
        /\ scaleRun'.status = scaleRun.status
        /\ scaleRun' \in [status : {"ABSENT", "RUNNING", "COMPLETED"}, completed : Nat,
                          logged : SUBSET Part]
    BY <2>1, <2>5, <2>6
  <2> QED
    BY <2>1, <2>2, <2>3, <2>4, <2>7 DEF RunnerUnderWay
<1>2. ScaleTypeOK'
  BY <1>1 DEF ScaleInv, ScaleTypeOK, RunnerRecord
<1>3. DoneParts' = DoneParts /\ (OthersWait({})' <=> OthersWait({}))
  BY <1>1, SameParts
<1>4. ProgressInv'
  <2>1. BatchKnown(r)'
    BY <1>1 DEF BatchKnown
  <2>2. ~concurrent => BatchKnown(r)
    BY DEF ScaleInv, ProgressInv
  <2> QED
    BY <1>1, <1>3, <2>1, <2>2, ProgressKept DEF BatchKnown
<1>5. WholeInv'
  <2> SUFFICES ASSUME ~concurrent, runnerDeaths = 0 PROVE PlacesKnown'
    BY <1>1 DEF WholeInv
  <2>1. scaleRun.status = "RUNNING" /\ PlanStage(r)
    BY <1>1, StatusKnown
  <2>2. PlanStage(r)'
    BY <1>1, <1>3, <2>1 DEF PlanStage
  <2> QED
    BY <1>1, <2>1, <2>2, RunningKept
<1> QED
  BY <1>1, <1>2, <1>4, <1>5 DEF ScaleInv

\* The run is completed, by its first invocation or once more.
LEMMA FinalizeKeeps ==
  ASSUME ScaleInv, NEW r \in Runner, Finalize(r)
  PROVE  ScaleInv'
<1>1. /\ UNCHANGED <<parts, runnerDeaths, concurrent>> /\ RunnerUnderWay(r)
      /\ runner[r].pc = "finalize"
      /\ \A q \in Runner : q # r => runner'[q] = runner[q]
      /\ runner' \in [Runner -> RunnerRecord]
      /\ runner'[r].pc = "done" /\ runner'[r].matched = runner[r].matched
      /\ scaleRun'.completed = scaleRun.completed /\ scaleRun'.logged = {}
      /\ scaleRun'.status = "COMPLETED"
      /\ scaleRun' \in [status : {"ABSENT", "RUNNING", "COMPLETED"}, completed : Nat,
                        logged : SUBSET Part]
  <2>1. RunnerGoto(r, "done") /\ "done" \in RunnerPC /\ runner[r].pc = "finalize"
    BY DEF Finalize, RunnerPC, RunnerAt
  <2> QED
    BY <2>1, GotoMoves DEF Finalize, FinalStatus, RunnerUnderWay, ScaleInv, ScaleTypeOK
<1>2. ScaleTypeOK'
  BY <1>1 DEF ScaleInv, ScaleTypeOK, RunnerRecord
<1>3. DoneParts' = DoneParts
  BY <1>1, SameParts
<1>4. ProgressInv'
  <2>1. BatchKnown(r)'
    BY <1>1 DEF BatchKnown
  <2> QED
    BY <1>1, <1>3, <2>1, ProgressKept DEF ScaleInv, ProgressInv
<1>5. WholeInv'
  <2> SUFFICES ASSUME ~concurrent, runnerDeaths = 0 PROVE PlacesKnown'
    BY <1>1 DEF WholeInv
  <2>1. Whole
    BY <1>1, StatusKnown DEF PlanStage, Whole
  <2>2. \A q \in Runner : runner'[q].matched = runner[q].matched
    BY <1>1
  <2>3. Whole'
    BY <1>1, <1>3, <2>1, <2>2 DEF Whole
  <2>4. OneRunner /\ PlacesKnown
    BY DEF ScaleInv, ProgressInv, WholeInv
  <2>5. \A q \in Runner : q # r => runner[q].pc \in {"idle", "done"}
    BY <1>1, <2>4, Alone DEF PlacesKnown
  <2> QED
    BY <1>1, <2>3, <2>4, <2>5 DEF PlacesKnown
<1> QED
  BY <1>1, <1>2, <1>4, <1>5 DEF ScaleInv

\* A death costs no more than the promise of a whole run.
LEMMA RunnerDiesKeeps ==
  ASSUME ScaleInv, NEW r \in Runner, RunnerDies(r)
  PROVE  ScaleInv'
<1>1. /\ UNCHANGED <<scaleRun, parts, concurrent>> /\ RunnerUnderWay(r)
      /\ \A q \in Runner : q # r => runner'[q] = runner[q]
      /\ runner' \in [Runner -> RunnerRecord] /\ runner'[r].pc = "failed"
      /\ runnerDeaths' \in Nat \ {0}
  <2>1. RunnerGoto(r, "failed") /\ "failed" \in RunnerPC
    BY DEF RunnerDies, RunnerPC
  <2>2. runnerDeaths' \in Nat \ {0}
    BY DEF RunnerDies, ScaleInv
  <2> QED
    BY <2>1, <2>2, GotoMoves DEF RunnerDies, ScaleInv
<1>2. ScaleTypeOK'
  BY <1>1 DEF ScaleInv, ScaleTypeOK, RunnerRecord
<1>3. DoneParts' = DoneParts
  BY <1>1, SameParts
<1>4. ProgressInv'
  <2>1. BatchKnown(r)'
    BY <1>1 DEF BatchKnown
  <2> QED
    BY <1>1, <1>3, <2>1, ProgressKept DEF ScaleInv, ProgressInv
<1> QED
  BY <1>1, <1>2, <1>4 DEF ScaleInv, WholeInv

\* For any number of invocations, any plan and batch size, and deaths between
\* any two statements: while invocations do not overlap the counter counts no
\* partition twice and the checkpoint names only completed ones, and a run that
\* COMPLETED without a death or an overlap has done, counted and matched the
\* whole plan.
THEOREM ScaleProgress == ScaleSpec => [](ScaleTypeOK /\ ScaleProgressSound)
<1>1. ScaleInv /\ [ScaleNext]_scaleVars => ScaleInv'
  <2>1. ASSUME ScaleInv, ScaleNext PROVE ScaleInv'
    BY <2>1, FindRunKeeps, CreateRunKeeps, CreatePartsKeeps, ClaimReadKeeps, ClaimWriteKeeps,
       CompletePartsKeeps, CountReadKeeps, CountWriteKeeps, FinalizeKeeps, RunnerDiesKeeps
       DEF ScaleNext, RunnerStep
  <2>2. ASSUME ScaleInv, UNCHANGED scaleVars PROVE ScaleInv'
    <3>1. DoneParts' = DoneParts /\ \A S : OthersWait(S)' <=> OthersWait(S)
      BY <2>2, SameParts DEF scaleVars
    <3>2. ProgressInv'
      BY <2>2, <3>1 DEF ScaleInv, ProgressInv, OneRunner, RunnerUnderWay, BatchKnown, scaleVars
    <3>3. \A r : PlanStage(r)' <=> PlanStage(r)
      BY <2>2, <3>1 DEF PlanStage, scaleVars
    <3>4. WholeInv'
      BY <2>2, <3>1, <3>3 DEF ScaleInv, WholeInv, PlacesKnown, Whole, RunnerUnderWay, scaleVars
    <3>5. ScaleTypeOK'
      BY <2>2 DEF ScaleInv, ScaleTypeOK, scaleVars
    <3> QED
      BY <2>2, <3>2, <3>4, <3>5 DEF ScaleInv, scaleVars
  <2> QED
    BY <2>1, <2>2
<1>2. ScaleInv => ScaleTypeOK /\ ScaleProgressSound
  BY DEF ScaleInv, ProgressInv, WholeInv, PlacesKnown, Whole, ScaleProgressSound,
         ProgressNeverAhead, CompletedIsWhole
<1> QED
  BY ScaleInvInit, <1>1, <1>2, PTL DEF ScaleSpec

-----------------------------------------------------------------------------
(* The webhook outbox *)

\* The workers about to send entry e.
Senders(e) == {w \in Deliverer : copies[w][e].pc = "claimed"}

\* Entry e can be claimed, now or once it is enqueued.
Offered(e) == outbox[e].status = "ABSENT" \/ Claimable(e)

\* The POSTs of entry e that may still be made without a lapse or a replay.
Chances(e) == Cardinality(Senders(e)) + (IF Offered(e) THEN 1 ELSE 0)

\* The inductive invariant behind DuplicatesExplained: a delivery that may still
\* be made counts as if it had been.
ChancesExplained ==
  \A e \in OutboxEntry : received[e] + Chances(e) <= 1 + lapses[e] + replays[e]

\* The whole of it.
OutboxInv == OutboxTypeOK /\ ChancesExplained

\* What one step does to the chances of one entry it does not touch.
LEMMA EntryUntouched ==
  ASSUME NEW e, \A w \in Deliverer : copies'[w][e] = copies[w][e], outbox'[e] = outbox[e]
  PROVE  Chances(e)' = Chances(e)
<1>1. Senders(e)' = Senders(e)
  BY DEF Senders
<1>2. Offered(e)' = Offered(e)
  BY DEF Offered, Claimable
<1> QED
  BY <1>1, <1>2 DEF Chances

\* Chances are a number.
LEMMA ChancesType ==
  ASSUME NEW e
  PROVE  /\ IsFiniteSet(Senders(e)) /\ Cardinality(Senders(e)) \in Nat
         /\ IsFiniteSet(Senders(e)') /\ Cardinality(Senders(e)') \in Nat
<1>1. IsFiniteSet(Senders(e)) /\ IsFiniteSet(Senders(e)')
  BY FS_Subset, OutboxAssumption DEF Senders
<1> QED
  BY <1>1, FS_CardinalityType

\* A worker that stops being a sender of e is one sender less.
LEMMA SenderGone ==
  ASSUME NEW e, NEW w \in Deliverer, copies[w][e].pc = "claimed", copies'[w][e].pc # "claimed",
         \A v \in Deliverer : v # w => copies'[v][e] = copies[v][e]
  PROVE  Cardinality(Senders(e)') = Cardinality(Senders(e)) - 1
<1>1. Senders(e)' = Senders(e) \ {w} /\ w \in Senders(e)
  BY DEF Senders
<1> QED
  BY <1>1, FS_RemoveElement, ChancesType

\* A worker that becomes one is one more.
LEMMA SenderNew ==
  ASSUME NEW e, NEW w \in Deliverer, copies[w][e].pc # "claimed", copies'[w][e].pc = "claimed",
         \A v \in Deliverer : v # w => copies'[v][e] = copies[v][e]
  PROVE  Cardinality(Senders(e)') = Cardinality(Senders(e)) + 1
<1>1. Senders(e)' = Senders(e) \cup {w} /\ w \notin Senders(e)
  BY DEF Senders
<1> QED
  BY <1>1, FS_AddElement, ChancesType

\* Where no worker becomes a sender there are no more than before.
LEMMA SendersFewer ==
  ASSUME NEW e,
         \A w \in Deliverer : copies'[w][e].pc = "claimed" => copies[w][e].pc = "claimed"
  PROVE  Cardinality(Senders(e)') <= Cardinality(Senders(e))
<1>1. Senders(e)' \subseteq Senders(e)
  BY DEF Senders
<1> QED
  BY <1>1, FS_Subset, ChancesType

\* Nothing was sent.
LEMMA OutboxInvInit == OutboxInit => OutboxInv
<1> SUFFICES ASSUME OutboxInit PROVE OutboxInv
  OBVIOUS
<1>1. OutboxTypeOK
  BY OutboxAssumption DEF OutboxInit, OutboxTypeOK, DeliveryStatus, NoCopy
<1>2. ASSUME NEW e \in OutboxEntry PROVE received[e] + Chances(e) <= 1 + lapses[e] + replays[e]
  <2>1. Senders(e) = {}
    BY DEF OutboxInit, Senders, NoCopy
  <2> QED
    BY <2>1, FS_EmptySet DEF OutboxInit, Chances
<1> QED
  BY <1>1, <1>2 DEF OutboxInv, ChancesExplained

\* Every step keeps the types.
LEMMA OutboxTypeStep ==
  ASSUME OutboxTypeOK, OutboxNext
  PROVE  OutboxTypeOK'
<1> USE DEF OutboxTypeOK
<1>1. ASSUME NEW e \in OutboxEntry, EnqueueWebhook(e) PROVE OutboxTypeOK'
  BY <1>1 DEF EnqueueWebhook, DeliveryStatus
<1>2. ASSUME NEW e \in OutboxEntry, ReplayWebhook(e) PROVE OutboxTypeOK'
  <2>1. outbox' \in [OutboxEntry -> [status : DeliveryStatus, attempts : Nat, leased : BOOLEAN]]
    BY <1>2 DEF ReplayWebhook, DeliveryStatus
  <2>2. replays' \in [OutboxEntry -> Nat]
    BY <1>2 DEF ReplayWebhook
  <2> QED
    BY <1>2, <2>1, <2>2 DEF ReplayWebhook
<1>3. ASSUME NEW e \in OutboxEntry, WebhookLeaseEnds(e) PROVE OutboxTypeOK'
  <2>1. outbox' \in [OutboxEntry -> [status : DeliveryStatus, attempts : Nat, leased : BOOLEAN]]
    BY <1>3 DEF WebhookLeaseEnds
  <2>2. lapses' \in [OutboxEntry -> Nat]
    BY <1>3 DEF WebhookLeaseEnds
  <2>3. slow' \in 0..MaxSlow
    BY <1>3, OutboxAssumption DEF WebhookLeaseEnds
  <2> QED
    BY <1>3, <2>1, <2>2, <2>3 DEF WebhookLeaseEnds
<1>4. ASSUME NEW w \in Deliverer, ClaimWebhookBatch(w) PROVE OutboxTypeOK'
  <2>1. outbox' \in [OutboxEntry -> [status : DeliveryStatus, attempts : Nat, leased : BOOLEAN]]
    BY <1>4 DEF ClaimWebhookBatch, DeliveryStatus
  <2>2. copies' \in [Deliverer -> [OutboxEntry -> [pc : {"none", "claimed", "posted"},
                                               attempts : Nat, got : BOOLEAN]]]
    BY <1>4 DEF ClaimWebhookBatch, NoCopy
  <2> QED
    BY <1>4, <2>1, <2>2 DEF ClaimWebhookBatch
<1>5. ASSUME NEW w \in Deliverer, NEW e \in OutboxEntry, NEW s \in DeliveryStatus,
             WriteBack(w, e, s), UNCHANGED <<received, lapses, replays, slow, workerDeaths>>
      PROVE  OutboxTypeOK'
  BY <1>5 DEF WriteBack, NoCopy
<1>6. ASSUME NEW w \in Deliverer, NEW e \in OutboxEntry, Blocked(w, e) PROVE OutboxTypeOK'
  BY <1>5, <1>6 DEF Blocked, DeliveryStatus
<1>7. ASSUME NEW w \in Deliverer, NEW e \in OutboxEntry, PostOk(w, e) PROVE OutboxTypeOK'
  BY <1>5, <1>7 DEF PostOk, DeliveryStatus
<1>8. ASSUME NEW w \in Deliverer, NEW e \in OutboxEntry, PostFails(w, e) PROVE OutboxTypeOK'
  BY <1>5, <1>8 DEF PostFails, DeliveryStatus, FailureStatus
<1>9. ASSUME NEW w \in Deliverer, NEW e \in OutboxEntry, Post(w, e) PROVE OutboxTypeOK'
  BY <1>9 DEF Post
<1>10. ASSUME NEW w \in Deliverer, DelivererDies(w) PROVE OutboxTypeOK'
  BY <1>10, OutboxAssumption DEF DelivererDies, NoCopy
<1> QED
  BY <1>1, <1>2, <1>3, <1>4, <1>6, <1>7, <1>8, <1>9, <1>10 DEF OutboxNext, DelivererStep

\* One entry is written over by a copy: nobody becomes a sender of it, and it
\* is not offered.
LEMMA WriteBackChances ==
  ASSUME OutboxTypeOK, NEW w \in Deliverer, NEW e \in OutboxEntry,
         NEW s \in {"DELIVERED", "FAILED", "DEAD_LETTER"},
         WriteBack(w, e, s), NEW f \in OutboxEntry
  PROVE  Chances(f)' <= Chances(f) /\ Chances(f) \in Nat /\ Chances(f)' \in Nat
<1>1. /\ \A v \in Deliverer, g \in OutboxEntry :
           copies'[v][g] = IF v = w /\ g = e THEN NoCopy ELSE copies[v][g]
      /\ \A g \in OutboxEntry : g # e => outbox'[g] = outbox[g]
      /\ outbox'[e].status = s
  BY DEF WriteBack, OutboxTypeOK
<1>2. Cardinality(Senders(f)') <= Cardinality(Senders(f))
  BY <1>1, SendersFewer DEF NoCopy
<1>3. Offered(f)' => Offered(f)
  BY <1>1 DEF Offered, Claimable
<1> QED
  BY <1>2, <1>3, ChancesType DEF Chances

\* Every step keeps the bound.
LEMMA ChancesStep ==
  ASSUME OutboxInv, OutboxNext
  PROVE  ChancesExplained'
<1> DEFINE Kept(f) == received'[f] + Chances(f)' <= 1 + lapses'[f] + replays'[f]
<1>0. /\ \A f \in OutboxEntry : /\ received[f] \in Nat /\ lapses[f] \in Nat /\ replays[f] \in Nat
                               /\ received[f] + Chances(f) <= 1 + lapses[f] + replays[f]
      /\ \A f : Chances(f) \in Nat /\ Chances(f)' \in Nat
  BY ChancesType DEF OutboxInv, OutboxTypeOK, ChancesExplained, Chances
<1> SUFFICES ASSUME NEW f \in OutboxEntry PROVE Kept(f)
  BY DEF ChancesExplained
<1>1. ASSUME NEW e \in OutboxEntry, EnqueueWebhook(e) PROVE Kept(f)
  <2>1. Senders(f)' = Senders(f)
    BY <1>1 DEF EnqueueWebhook, Senders
  <2>2. Offered(f)' => Offered(f)
    BY <1>1 DEF EnqueueWebhook, Offered, Claimable, OutboxInv, OutboxTypeOK
  <2> QED
    BY <1>0, <1>1, <2>1, <2>2, ChancesType DEF EnqueueWebhook, Chances
<1>2. ASSUME NEW e \in OutboxEntry, ReplayWebhook(e) PROVE Kept(f)
  <2>1. Senders(f)' = Senders(f)
    BY <1>2 DEF ReplayWebhook, Senders
  <2>2. /\ f # e => (Offered(f)' => Offered(f)) /\ replays'[f] = replays[f]
        /\ f = e => ~Offered(f) /\ replays'[f] = replays[f] + 1
    BY <1>2 DEF ReplayWebhook, Offered, Claimable, OutboxInv, OutboxTypeOK
  <2> QED
    BY <1>0, <1>2, <2>1, <2>2, ChancesType DEF ReplayWebhook, Chances
<1>3. ASSUME NEW e \in OutboxEntry, WebhookLeaseEnds(e) PROVE Kept(f)
  <2>1. Senders(f)' = Senders(f)
    BY <1>3 DEF WebhookLeaseEnds, Senders
  <2>2. /\ f # e => (Offered(f)' => Offered(f)) /\ lapses'[f] = lapses[f]
        /\ f = e => ~Offered(f) /\ lapses'[f] = lapses[f] + 1
    BY <1>3 DEF WebhookLeaseEnds, Offered, Claimable, OutboxInv, OutboxTypeOK
  <2> QED
    BY <1>0, <1>3, <2>1, <2>2, ChancesType DEF WebhookLeaseEnds, Chances
<1>4. ASSUME NEW w \in Deliverer, ClaimWebhookBatch(w) PROVE Kept(f)
  <2>0. UNCHANGED <<received, lapses, replays>> /\ copies[w][f] = NoCopy
    BY <1>4 DEF ClaimWebhookBatch
  <2>1. /\ copies[w][f].pc # "claimed"
        /\ \A v \in Deliverer : v # w => copies'[v][f] = copies[v][f]
        /\ f \notin ClaimedBatch => copies'[w][f] = NoCopy /\ outbox'[f] = outbox[f]
        /\ f \in ClaimedBatch => /\ copies'[w][f].pc = "claimed"
                                 /\ outbox'[f].status = "DELIVERING" /\ outbox'[f].leased
    <3>1. copies[w][f].pc # "claimed"
      BY <2>0 DEF NoCopy
    <3>2. /\ \A v \in Deliverer : v # w => copies'[v][f] = copies[v][f]
          /\ copies'[w][f] = IF f \in ClaimedBatch
               THEN [pc |-> "claimed", attempts |-> outbox[f].attempts, got |-> FALSE]
               ELSE NoCopy
      BY <1>4 DEF ClaimWebhookBatch, OutboxInv, OutboxTypeOK
    <3>3. /\ f \notin ClaimedBatch => outbox'[f] = outbox[f]
          /\ f \in ClaimedBatch => outbox'[f].status = "DELIVERING" /\ outbox'[f].leased
      BY <1>4 DEF ClaimWebhookBatch, OutboxInv, OutboxTypeOK
    <3> QED
      BY <3>1, <3>2, <3>3
  <2>2. CASE f \in ClaimedBatch
    <3>1. Offered(f) /\ ~Offered(f)'
      BY <2>1, <2>2 DEF ClaimedBatch, Offered, Claimable
    <3>2. Cardinality(Senders(f)') = Cardinality(Senders(f)) + 1
      BY <2>1, <2>2, SenderNew
    <3> QED
      BY <1>0, <2>0, <3>1, <3>2, ChancesType DEF Chances
  <2>3. CASE f \notin ClaimedBatch
    <3>1. Offered(f)' = Offered(f)
      BY <2>1, <2>3 DEF Offered, Claimable
    <3>2. Cardinality(Senders(f)') <= Cardinality(Senders(f))
      BY <2>1, <2>3, SendersFewer DEF NoCopy
    <3> QED
      BY <1>0, <2>0, <3>1, <3>2, ChancesType DEF Chances
  <2> QED
    BY <2>2, <2>3
<1>5. ASSUME NEW w \in Deliverer, NEW e \in OutboxEntry, NEW s \in {"DELIVERED", "FAILED", "DEAD_LETTER"},
             WriteBack(w, e, s), UNCHANGED <<received, lapses, replays>>
      PROVE  Kept(f)
  BY <1>0, <1>5, WriteBackChances DEF OutboxInv
<1>6. ASSUME NEW w \in Deliverer, NEW e \in OutboxEntry, Blocked(w, e) PROVE Kept(f)
  BY <1>5, <1>6 DEF Blocked
<1>7. ASSUME NEW w \in Deliverer, NEW e \in OutboxEntry, PostOk(w, e) PROVE Kept(f)
  BY <1>5, <1>7 DEF PostOk
<1>8. ASSUME NEW w \in Deliverer, NEW e \in OutboxEntry, PostFails(w, e) PROVE Kept(f)
  BY <1>5, <1>8 DEF PostFails, FailureStatus
<1>9. ASSUME NEW w \in Deliverer, NEW e \in OutboxEntry, Post(w, e) PROVE Kept(f)
  <2>1. /\ copies[w][e].pc = "claimed" /\ copies'[w][e].pc = "posted"
        /\ \A v \in Deliverer, g \in OutboxEntry :
             v # w \/ g # e => copies'[v][g] = copies[v][g]
        /\ received'[e] \in {received[e], received[e] + 1}
        /\ \A g \in OutboxEntry : g # e => received'[g] = received[g]
        /\ UNCHANGED <<outbox, lapses, replays>>
    BY <1>9 DEF Post, OutboxInv, OutboxTypeOK
  <2>2. CASE f = e
    <3>1. Cardinality(Senders(f)') = Cardinality(Senders(f)) - 1
      BY <2>1, <2>2, SenderGone
    <3>2. Offered(f)' = Offered(f)
      BY <2>1 DEF Offered, Claimable
    <3> QED
      BY <1>0, <2>1, <2>2, <3>1, <3>2, ChancesType DEF Chances
  <2>3. CASE f # e
    BY <1>0, <2>1, <2>3, EntryUntouched
  <2> QED
    BY <2>2, <2>3
<1>10. ASSUME NEW w \in Deliverer, DelivererDies(w) PROVE Kept(f)
  <2>1. \A v \in Deliverer : copies'[v][f].pc = "claimed" => copies[v][f].pc = "claimed"
    BY <1>10 DEF DelivererDies, NoCopy, OutboxInv, OutboxTypeOK
  <2>2. Cardinality(Senders(f)') <= Cardinality(Senders(f))
    BY <2>1, SendersFewer
  <2>3. Offered(f)' = Offered(f)
    BY <1>10 DEF DelivererDies, Offered, Claimable
  <2> QED
    BY <1>0, <1>10, <2>2, <2>3, ChancesType DEF DelivererDies, Chances
<1> QED
  BY <1>1, <1>2, <1>3, <1>4, <1>6, <1>7, <1>8, <1>9, <1>10 DEF OutboxNext, DelivererStep

\* For any number of workers, entries, deaths, lapses and replays: a receiver
\* gets an event at most once for its enqueueing, for each lease that ended
\* undelivered and for each replay.  Copies that a slow worker writes back late
\* over the entry of another one cause no delivery.
THEOREM OutboxDuplicates == OutboxSpec => [](OutboxTypeOK /\ DuplicatesExplained)
<1>1. OutboxInv /\ [OutboxNext]_outboxVars => OutboxInv'
  <2>1. ASSUME OutboxInv, OutboxNext PROVE OutboxInv'
    BY <2>1, OutboxTypeStep, ChancesStep DEF OutboxInv
  <2>2. ASSUME OutboxInv, UNCHANGED outboxVars PROVE OutboxInv'
    <3>1. OutboxTypeOK'
      BY <2>2 DEF OutboxInv, OutboxTypeOK, outboxVars
    <3>2. \A e : Chances(e)' = Chances(e)
      BY <2>2, EntryUntouched DEF outboxVars
    <3> QED
      BY <2>2, <3>1, <3>2 DEF OutboxInv, ChancesExplained, outboxVars
  <2> QED
    BY <2>1, <2>2
<1>2. OutboxInv => DuplicatesExplained
  <2>1. \A e : Chances(e) \in Nat
    BY ChancesType DEF Chances
  <2> QED
    BY <2>1 DEF OutboxInv, OutboxTypeOK, ChancesExplained, DuplicatesExplained
<1> QED
  BY OutboxInvInit, <1>1, <1>2, PTL DEF OutboxSpec, OutboxInv

-----------------------------------------------------------------------------
(* The three components in the instance that is model-checked *)

\* A behaviour of the instance is a behaviour of each component, so that what
\* is proved of the components holds of it.
LEMMA RecoveryUses == RecoverySpec => ReconSpec /\ ScaleSpec /\ OutboxSpec
<1>1. RecoveryInit => ReconInit /\ ScaleInit /\ OutboxInit
  BY DEF RecoveryInit
<1>2. [RecoveryNext]_recoveryVars =>
        [ReconNext]_reconVars /\ [ScaleNext]_scaleVars /\ [OutboxNext]_outboxVars
  BY DEF RecoveryNext, recoveryVars
<1> QED
  BY <1>1, <1>2, PTL DEF RecoverySpec, ReconSpec, ScaleSpec, OutboxSpec

\* The batch, the locks, the ledger, the persisted run and the outbox keep
\* their types: statuses, places and counters that the code writes stay within
\* those it reads.
THEOREM RecoveryTypeCorrect == RecoverySpec => []RecoveryTypeOK
  BY RecoveryUses, ReconSettles, ScaleProgress, OutboxDuplicates, PTL DEF RecoveryTypeOK
=============================================================================
