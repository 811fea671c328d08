-------------------------- MODULE JobStepperProofs --------------------------
(***************************************************************************)
(* Theorems about JobStepper: its types, the exactness of the in-flight    *)
(* counter, and that the checkpoint of a job never runs ahead of the       *)
(* records inserted for it, for any number of requests, users, records and *)
(* chunk sizes.                                                            *)
(***************************************************************************)
EXTENDS JobStepper, TLAPS, FiniteSetTheorems

\* The statements on the row write rows, whoever issues them.
LEMMA RowWritesType ==
  ASSUME NEW r \in JobRow(UserIds), NEW w \in UserIds
  PROVE  /\ StepClaimed(r, w) \in JobRow(UserIds)
         /\ Completed(r, w) \in JobRow(UserIds)
         /\ Cancelled(r) \in JobRow(UserIds)
         /\ [r EXCEPT !.lease = "expired"] \in JobRow(UserIds)
  BY DEF StepClaimed, Completed, Cancelled, JobRow, JobStatus

\* So do the statements of failJob and of the sweep.
LEMMA ReleaseWritesType ==
  ASSUME NEW r \in JobRow(UserIds), NEW n, NEW c
  PROVE  /\ Failed(r, n, c) \in JobRow(UserIds)
         /\ Reclaimed(r, n) \in JobRow(UserIds)
<1>1. Failed(r, n, c) \in JobRow(UserIds)
  <2>1. CASE DeadLetters(n, c)
    BY <2>1 DEF Failed, JobRow, JobStatus
  <2>2. CASE ~DeadLetters(n, c)
    BY <2>2 DEF Failed, JobRow, JobStatus
  <2> QED
    BY <2>1, <2>2
<1>2. Reclaimed(r, n) \in JobRow(UserIds)
  <2>1. CASE n >= MaxRetries
    BY <2>1 DEF Reclaimed, JobRow, JobStatus
  <2>2. CASE ~(n >= MaxRetries)
    BY <2>2 DEF Reclaimed, JobRow, JobStatus
  <2> QED
    BY <2>1, <2>2
<1> QED
  BY <1>1, <1>2

\* A request that moves to another place keeps its local variables typed.
LEMMA GotoType ==
  ASSUME TypeOK, NEW s \in Steppers, NEW l \in Labels, Goto(s, l)
  PROVE  st' \in [Steppers -> Request]
  BY DEF TypeOK, Goto, Request

\* A request that returns leaves the counter within the limit.
LEMMA ReturnType ==
  ASSUME TypeOK, NEW s \in Steppers, Return(s)
  PROVE  /\ st' \in [Steppers -> Request]
         /\ inFlight' \in 0..MaxConcurrentSteps
<1>1. IdleRequest \in Request
  BY StepperAssumption DEF IdleRequest, Request, Labels
<1>2. st' \in [Steppers -> Request]
  BY <1>1 DEF TypeOK, Return
<1>3. inFlight' \in 0..MaxConcurrentSteps
  BY StepperAssumption DEF TypeOK, Return
<1> QED
  BY <1>2, <1>3

\* A slice ends inside the batch.
LEMMA SliceEndType ==
  ASSUME NEW from \in 0..Total, NEW chunk \in ChunkSizes
  PROVE  SliceEnd(from, chunk) \in 0..Total
  BY StepperAssumption DEF SliceEnd

\* A request that has its slice is still a request.
LEMMA SliceSetType ==
  ASSUME st \in [Steppers -> Request], NEW s \in Steppers,
         NEW n \in 0..Total, NEW label \in Labels
  PROVE  [st EXCEPT ![s].to = n, ![s].pc = label] \in [Steppers -> Request]
<1>1. [st[s] EXCEPT !.to = n, !.pc = label] \in Request
  BY DEF Request
<1>2. [st EXCEPT ![s].to = n, ![s].pc = label]
        = [st EXCEPT ![s] = [st[s] EXCEPT !.to = n, !.pc = label]]
  OBVIOUS
<1> QED
  BY <1>1, <1>2

\* Every action keeps every variable in its type.
LEMMA TypeStep ==
  ASSUME TypeOK, [Next]_vars
  PROVE  TypeOK'
<1> USE DEF TypeOK
<1>1. ASSUME NEW s \in Steppers, StepRoute(s) PROVE TypeOK'
  <2>1. st' \in [Steppers -> Request]
    BY <1>1, GotoType DEF StepRoute, Labels
  <2> QED
    BY <1>1, <2>1 DEF StepRoute, env
<1>2. ASSUME NEW s \in Steppers, ReadJob(s) PROVE TypeOK'
  <2>1. CASE Return(s)
    BY <1>2, <2>1, ReturnType DEF ReadJob, env
  <2>2. CASE ~Return(s)
    BY <1>2, <2>2 DEF ReadJob, Request, Labels, env
  <2> QED
    BY <2>1, <2>2
<1>3. ASSUME NEW s \in Steppers, CheckBeforeStep(s) PROVE TypeOK'
  <2>1. st' \in [Steppers -> Request]
    BY <1>3, GotoType DEF CheckBeforeStep, Labels
  <2> QED
    BY <1>3, <2>1 DEF CheckBeforeStep, env
<1>4. ASSUME NEW s \in Steppers, Gate(s) PROVE TypeOK'
  <2>1. CASE Return(s)
    BY <1>4, <2>1, ReturnType DEF Gate, env
  <2>2. CASE ~Return(s)
    BY <1>4, <2>2, StepperAssumption DEF Gate, Request, Labels, env
  <2> QED
    BY <2>1, <2>2
<1>5. ASSUME NEW s \in Steppers, ClaimStep(s) PROVE TypeOK'
  <2>1. st' \in [Steppers -> Request]
    BY <1>5, GotoType DEF ClaimStep, Labels
  <2>2. row' \in JobRow(UserIds)
    BY <1>5, RowWritesType, StepperAssumption DEF ClaimStep
  <2> QED
    BY <1>5, <2>1, <2>2 DEF ClaimStep, env
<1>6. ASSUME NEW s \in Steppers, ClaimMissed(s) PROVE TypeOK'
  <2>1. st' \in [Steppers -> Request]
    BY <1>6, GotoType DEF ClaimMissed, Labels
  <2> QED
    BY <1>6, <2>1 DEF ClaimMissed, env
<1>7. ASSUME NEW s \in Steppers, StartSlice(s) PROVE TypeOK'
  <2>0. UNCHANGED <<row, progress, batch, inserted, inFlight, cancelPc, swept>>
    BY <1>7 DEF StartSlice, env
  <2>1. CASE Goto(s, "cancel")
    <3>1. st' \in [Steppers -> Request]
      BY <2>1, GotoType DEF Labels
    <3> QED
      BY <2>0, <3>1
  <2>2. CASE ~Goto(s, "cancel")
    <3>1. PICK chunk \in ChunkSizes :
            st' = [st EXCEPT ![s].to = SliceEnd(st[s].from, chunk),
                             ![s].pc = IF st[s].from < Total
                                         THEN "insert" ELSE "postcheck"]
      BY <1>7, <2>2 DEF StartSlice
    <3>2. SliceEnd(st[s].from, chunk) \in 0..Total
      BY SliceEndType DEF Request
    <3>3. st' \in [Steppers -> Request]
      <4>1. (IF st[s].from < Total THEN "insert" ELSE "postcheck") \in Labels
        BY DEF Labels
      <4> QED
        BY <3>1, <3>2, <4>1, SliceSetType
    <3> QED
      BY <2>0, <3>3
  <2> QED
    BY <2>1, <2>2
<1>8. ASSUME NEW s \in Steppers, InsertSlice(s) PROVE TypeOK'
  <2>1. st' \in [Steppers -> Request]
    BY <1>8, GotoType DEF InsertSlice, Labels
  <2>2. inserted' \in [Records -> 0..2]
    BY <1>8 DEF InsertSlice
  <2> QED
    BY <1>8, <2>1, <2>2 DEF InsertSlice, env
<1>9. ASSUME NEW s \in Steppers, HandlerThrows(s) PROVE TypeOK'
  <2>1. st' \in [Steppers -> Request]
    BY <1>9, GotoType DEF HandlerThrows, Labels
  <2> QED
    BY <1>9, <2>1 DEF HandlerThrows, env
<1>10. ASSUME NEW s \in Steppers, UpdateProgress(s) PROVE TypeOK'
  <2>1. st' \in [Steppers -> Request]
    BY <1>10, GotoType DEF UpdateProgress, Labels
  <2>2. progress' \in 0..Total
    BY <1>10 DEF UpdateProgress, Request
  <2> QED
    BY <1>10, <2>1, <2>2 DEF UpdateProgress, env
<1>11. ASSUME NEW s \in Steppers, CheckAfterSlice(s) PROVE TypeOK'
  <2>1. CASE Return(s)
    BY <1>11, <2>1, ReturnType DEF CheckAfterSlice, env
  <2>2. CASE ~Return(s)
    <3>1. st' \in [Steppers -> Request]
      BY <1>11, <2>2, GotoType DEF CheckAfterSlice, Labels
    <3> QED
      BY <1>11, <2>2, <3>1 DEF CheckAfterSlice, env
  <2> QED
    BY <2>1, <2>2
<1>12. ASSUME NEW s \in Steppers, FinishBatch(s) PROVE TypeOK'
  <2>1. st' \in [Steppers -> Request]
    BY <1>12, GotoType DEF FinishBatch, Labels
  <2> QED
    BY <1>12, <2>1 DEF FinishBatch, env
<1>13. ASSUME NEW s \in Steppers, CompleteStep(s) PROVE TypeOK'
  <2>1. st' \in [Steppers -> Request]
    BY <1>13, GotoType DEF CompleteStep, Labels
  <2>2. row' \in JobRow(UserIds)
    BY <1>13, RowWritesType, StepperAssumption DEF CompleteStep
  <2> QED
    BY <1>13, <2>1, <2>2 DEF CompleteStep, env
<1>14. ASSUME NEW s \in Steppers, CompleteBatch(s) PROVE TypeOK'
  BY <1>14, ReturnType DEF CompleteBatch, env
<1>15. ASSUME NEW s \in Steppers, CancelStep(s) PROVE TypeOK'
  <2>1. st' \in [Steppers -> Request]
    BY <1>15, GotoType DEF CancelStep, Labels
  <2>2. row' \in JobRow(UserIds)
    BY <1>15, RowWritesType, StepperAssumption DEF CancelStep
  <2> QED
    BY <1>15, <2>1, <2>2 DEF CancelStep, env
<1>16. ASSUME NEW s \in Steppers, CancelBatch(s) PROVE TypeOK'
  BY <1>16, ReturnType DEF CancelBatch, env
<1>17. ASSUME NEW s \in Steppers, FailRead(s) PROVE TypeOK'
  <2>1. st' \in [Steppers -> Request]
    BY <1>17, GotoType DEF FailRead, Labels
  <2> QED
    BY <1>17, <2>1 DEF FailRead, env
<1>18. ASSUME NEW s \in Steppers, FailWrite(s) PROVE TypeOK'
  <2>1. row' \in JobRow(UserIds)
    BY <1>18, ReleaseWritesType DEF FailWrite
  <2> QED
    BY <1>18, <2>1, ReturnType DEF FailWrite, env
<1>19. CASE RequestCancellation
  BY <1>19 DEF RequestCancellation, requests
<1>20. CASE CancellationWrite
  <2>1. row' \in JobRow(UserIds)
    BY <1>20 DEF CancellationWrite, Cancelled, JobRow, JobStatus
  <2> QED
    BY <1>20, <2>1 DEF CancellationWrite, requests
<1>21. CASE CancellationBatch
  BY <1>21 DEF CancellationBatch, requests
<1>22. CASE SweepSelect
  BY <1>22 DEF SweepSelect, requests
<1>23. CASE SweepUpdate
  <2>1. row' \in JobRow(UserIds)
    BY <1>23, ReleaseWritesType DEF SweepUpdate
  <2> QED
    BY <1>23, <2>1 DEF SweepUpdate, requests
<1>24. CASE LeaseExpires
  <2>1. row' \in JobRow(UserIds)
    BY <1>24 DEF LeaseExpires, JobRow
  <2> QED
    BY <1>24, <2>1 DEF LeaseExpires, requests
<1>25. CASE UNCHANGED vars
  BY <1>25 DEF vars
<1> QED
  BY <1>1, <1>2, <1>3, <1>4, <1>5, <1>6, <1>7, <1>8, <1>9, <1>10, <1>11,
     <1>12, <1>13, <1>14, <1>15, <1>16, <1>17, <1>18, <1>19, <1>20, <1>21,
     <1>22, <1>23, <1>24, <1>25
  DEF Next, Step

\* The state a new job and an idle server are in is typed.
LEMMA TypeInit == Init => TypeOK
<1>1. NewJob \in JobRow(UserIds)
  BY JobTableAssumption DEF NewJob, JobRow, JobStatus
<1>2. IdleRequest \in Request
  BY StepperAssumption DEF IdleRequest, Request, Labels
<1>3. 0 \in 0..Total /\ 0 \in 0..MaxConcurrentSteps
  BY StepperAssumption
<1>4. [k \in Records |-> 0] \in [Records -> 0..2]
  OBVIOUS
<1>5. [s \in Steppers |-> IdleRequest] \in [Steppers -> Request]
  BY <1>2
<1>6. Init => swept \in BOOLEAN
  BY DEF Init
<1> QED
  BY <1>1, <1>3, <1>4, <1>5, <1>6 DEF Init, TypeOK

\* Every variable stays in its type; in particular the counter of steps in
\* flight never leaves 0..MAX_CONCURRENT_STEPS.
THEOREM StepperTypeCorrect == Spec => []TypeOK
<1> QED
  BY TypeInit, TypeStep, PTL DEF Spec

-----------------------------------------------------------------------------
(* The in-flight counter *)

Slots == {s \in Steppers : st[s].counted}

\* The places of a request that has not reached the gate.
BeforeGate == {"idle", "read", "check", "gate"}

\* InFlightExact needs that a request at the gate holds no slot yet.
SlotInv ==
  /\ inFlight = Cardinality(Slots)
  /\ \A s \in Steppers : st[s].pc \in BeforeGate => ~st[s].counted

\* The requests that hold a slot are finitely many.
LEMMA SlotsFinite == IsFiniteSet(Slots) /\ Cardinality(Slots) \in Nat
  BY StepperAssumption, FS_Subset, FS_CardinalityType DEF Slots

\* A request that moves on without passing the gate keeps what it holds.
LEMMA MoveKeepsSlots ==
  ASSUME TypeOK, SlotInv, NEW s \in Steppers, inFlight' = inFlight,
         st' = [st EXCEPT ![s] = st'[s]],
         st'[s].counted = st[s].counted,
         st'[s].pc \in BeforeGate => st[s].pc \in BeforeGate
  PROVE  SlotInv'
<1>1. Slots' = Slots
  BY DEF TypeOK, Slots
<1>2. \A t \in Steppers : st'[t].pc \in BeforeGate => ~st'[t].counted
  BY DEF TypeOK, SlotInv
<1> QED
  BY <1>1, <1>2 DEF SlotInv

\* A request that returns gives back its slot, and only its own.
LEMMA ReturnKeepsSlots ==
  ASSUME TypeOK, SlotInv, NEW s \in Steppers, Return(s)
  PROVE  SlotInv'
<1>1. \A t \in Steppers : st'[t].pc \in BeforeGate => ~st'[t].counted
  BY DEF TypeOK, SlotInv, Return, IdleRequest
<1>2. Slots' = Slots \ {s}
  BY DEF TypeOK, Slots, Return, IdleRequest
<1>3. CASE st[s].counted
  <2>1. s \in Slots
    BY <1>3 DEF Slots
  <2>2. Cardinality(Slots') = Cardinality(Slots) - 1
    BY <1>2, <2>1, SlotsFinite, FS_RemoveElement
  <2>3. Cardinality(Slots) > 0
    BY <2>1, SlotsFinite, FS_EmptySet
  <2> QED
    BY <1>1, <1>3, <2>2, <2>3, SlotsFinite DEF SlotInv, Return
<1>4. CASE ~st[s].counted
  <2>1. Slots' = Slots
    BY <1>2, <1>4 DEF Slots
  <2> QED
    BY <1>1, <1>4, <2>1 DEF SlotInv, Return
<1> QED
  BY <1>3, <1>4

\* A request that passes the gate takes one slot.
LEMMA GateTakesSlot ==
  ASSUME TypeOK, SlotInv, NEW s \in Steppers, Gate(s)
  PROVE  SlotInv'
<1>1. CASE Return(s)
  BY <1>1, ReturnKeepsSlots
<1>2. CASE ~Return(s)
  <2>1. /\ inFlight' = inFlight + 1
        /\ st' = [st EXCEPT ![s].pc = "claim", ![s].counted = TRUE]
    BY <1>2 DEF Gate
  <2>2. s \notin Slots
    BY DEF Gate, At, SlotInv, BeforeGate, Slots
  <2>3. Slots' = Slots \cup {s}
    BY <2>1 DEF TypeOK, Request, Slots
  <2>4. Cardinality(Slots') = Cardinality(Slots) + 1
    BY <2>2, <2>3, SlotsFinite, FS_AddElement
  <2>5. \A t \in Steppers : st'[t].pc \in BeforeGate => ~st'[t].counted
    BY <2>1 DEF TypeOK, Request, SlotInv, BeforeGate
  <2> QED
    BY <2>1, <2>4, <2>5 DEF SlotInv
<1> QED
  BY <1>1, <1>2

\* Every step keeps the counter equal to the number of slots held.
LEMMA SlotStep ==
  ASSUME TypeOK, SlotInv, [Next]_vars
  PROVE  SlotInv'
<1>a. ASSUME NEW s \in Steppers, NEW l \in Labels, Goto(s, l),
             inFlight' = inFlight,
             l \in BeforeGate => st[s].pc \in BeforeGate
      PROVE  SlotInv'
  <2>1. st' = [st EXCEPT ![s] = st'[s]]
    BY <1>a DEF TypeOK, Goto, Request
  <2>2. st'[s].counted = st[s].counted /\ st'[s].pc = l
    BY <1>a DEF TypeOK, Goto, Request
  <2> QED
    BY <1>a, <2>1, <2>2, MoveKeepsSlots
<1>b. ASSUME UNCHANGED <<st, inFlight>> PROVE SlotInv'
  BY <1>b DEF SlotInv, Slots
<1>1. ASSUME NEW s \in Steppers, StepRoute(s) PROVE SlotInv'
  BY <1>1, <1>a DEF StepRoute, At, Labels, BeforeGate
<1>2. ASSUME NEW s \in Steppers, ReadJob(s) PROVE SlotInv'
  <2>1. CASE Return(s)
    BY <2>1, ReturnKeepsSlots
  <2>2. CASE ~Return(s)
    <3>1. st' = [st EXCEPT ![s] = st'[s]]
      BY <1>2, <2>2 DEF ReadJob, TypeOK, Request
    <3>2. /\ st'[s].counted = st[s].counted
          /\ st[s].pc \in BeforeGate
          /\ inFlight' = inFlight
      BY <1>2, <2>2 DEF ReadJob, At, TypeOK, Request, BeforeGate
    <3> QED
      BY <3>1, <3>2, MoveKeepsSlots
  <2> QED
    BY <2>1, <2>2
<1>3. ASSUME NEW s \in Steppers, CheckBeforeStep(s) PROVE SlotInv'
  BY <1>3, <1>a DEF CheckBeforeStep, At, Labels, BeforeGate
<1>4. ASSUME NEW s \in Steppers, Gate(s) PROVE SlotInv'
  BY <1>4, GateTakesSlot
<1>5. ASSUME NEW s \in Steppers, ClaimStep(s) PROVE SlotInv'
  BY <1>5, <1>a DEF ClaimStep, Labels, BeforeGate
<1>6. ASSUME NEW s \in Steppers, ClaimMissed(s) PROVE SlotInv'
  BY <1>6, <1>a DEF ClaimMissed, Labels, BeforeGate
<1>7. ASSUME NEW s \in Steppers, StartSlice(s) PROVE SlotInv'
  <2>1. inFlight' = inFlight
    BY <1>7 DEF StartSlice
  <2>2. CASE Goto(s, "cancel")
    BY <2>1, <2>2, <1>a DEF Labels, BeforeGate
  <2>3. CASE ~Goto(s, "cancel")
    <3>1. PICK chunk \in ChunkSizes :
            st' = [st EXCEPT ![s].to = SliceEnd(st[s].from, chunk),
                             ![s].pc = IF st[s].from < Total
                                         THEN "insert" ELSE "postcheck"]
      BY <1>7, <2>3 DEF StartSlice
    <3>2. st' = [st EXCEPT ![s] = st'[s]]
      BY <3>1 DEF TypeOK, Request
    <3>3. st'[s].counted = st[s].counted /\ st'[s].pc \notin BeforeGate
      BY <3>1 DEF TypeOK, Request, BeforeGate
    <3> QED
      BY <2>1, <3>2, <3>3, MoveKeepsSlots
  <2> QED
    BY <2>2, <2>3
<1>8. ASSUME NEW s \in Steppers, InsertSlice(s) PROVE SlotInv'
  BY <1>8, <1>a DEF InsertSlice, Labels, BeforeGate
<1>9. ASSUME NEW s \in Steppers, HandlerThrows(s) PROVE SlotInv'
  BY <1>9, <1>a DEF HandlerThrows, Labels, BeforeGate
<1>10. ASSUME NEW s \in Steppers, UpdateProgress(s) PROVE SlotInv'
  BY <1>10, <1>a DEF UpdateProgress, Labels, BeforeGate
<1>11. ASSUME NEW s \in Steppers, CheckAfterSlice(s) PROVE SlotInv'
  <2>1. CASE Return(s)
    BY <2>1, ReturnKeepsSlots
  <2>2. CASE ~Return(s)
    BY <1>11, <2>2, <1>a DEF CheckAfterSlice, Labels, BeforeGate
  <2> QED
    BY <2>1, <2>2
<1>12. ASSUME NEW s \in Steppers, FinishBatch(s) \/ CompleteStep(s) PROVE SlotInv'
  BY <1>12, <1>a DEF FinishBatch, CompleteStep, Labels, BeforeGate
<1>13. ASSUME NEW s \in Steppers, CompleteBatch(s) \/ CancelBatch(s) PROVE SlotInv'
  BY <1>13, ReturnKeepsSlots DEF CompleteBatch, CancelBatch
<1>14. ASSUME NEW s \in Steppers, CancelStep(s) \/ FailRead(s) PROVE SlotInv'
  BY <1>14, <1>a DEF CancelStep, FailRead, Labels, BeforeGate
<1>15. ASSUME NEW s \in Steppers, FailWrite(s) PROVE SlotInv'
  BY <1>15, ReturnKeepsSlots DEF FailWrite
<1>16. CASE RequestCancellation \/ CancellationWrite \/ CancellationBatch
  BY <1>16, <1>b
  DEF RequestCancellation, CancellationWrite, CancellationBatch, requests
<1>17. CASE SweepSelect \/ SweepUpdate \/ LeaseExpires
  BY <1>17, <1>b DEF SweepSelect, SweepUpdate, LeaseExpires, requests
<1>18. CASE UNCHANGED vars
  BY <1>18, <1>b DEF vars
<1> QED
  BY <1>1, <1>2, <1>3, <1>4, <1>5, <1>6, <1>7, <1>8, <1>9, <1>10, <1>11,
     <1>12, <1>13, <1>14, <1>15, <1>16, <1>17, <1>18
  DEF Next, Step

\* activeInFlightSteps counts exactly the requests between the gate and their
\* finally block, whatever way out of stepJobChunk they take, and never exceeds
\* MAX_CONCURRENT_STEPS: no slot leaks, for any number of requests.
THEOREM InFlightCounted == Spec => []InFlightExact
<1>1. Init => SlotInv
  <2> SUFFICES ASSUME Init PROVE SlotInv
    OBVIOUS
  <2>1. Slots = {}
    BY DEF Init, Slots, IdleRequest
  <2> QED
    BY <2>1, FS_EmptySet DEF Init, SlotInv, IdleRequest
<1>2. TypeOK /\ SlotInv => InFlightExact
  BY StepperAssumption DEF TypeOK, SlotInv, InFlightExact, Slots
<1> QED
  BY <1>1, <1>2, TypeInit, TypeStep, SlotStep, PTL DEF Spec

-----------------------------------------------------------------------------
(* Cancellation *)

Blocked(r) == r.cancelRequested => r.status \notin {"RUNNING", "COMPLETED"}

\* Every statement on the row keeps a cancelled job from running: the claim by
\* its guard, completion because it asks for a running row, and failJob and the
\* sweep, which look at no cancellation, because they write neither status.
LEMMA WritesKeepBlocked ==
  ASSUME NEW r \in JobRow(UserIds), Blocked(r)
  PROVE  /\ \A w \in UserIds : StepClaimable(r) => Blocked(StepClaimed(r, w))
         /\ \A w \in UserIds : Blocked(Completed(r, w))
         /\ Blocked(Cancelled(r))
         /\ Blocked([r EXCEPT !.lease = "expired"])
         /\ \A n, c : Blocked(Failed(r, n, c))
         /\ \A n : Blocked(Reclaimed(r, n))
<1>1. \A w \in UserIds : StepClaimable(r) => Blocked(StepClaimed(r, w))
  BY DEF StepClaimable, StepClaimed, Blocked, JobRow
<1>2. \A w \in UserIds : Blocked(Completed(r, w))
  BY DEF Completed, OwnedRunning, Blocked, JobRow
<1>3. Blocked(Cancelled(r)) /\ Blocked([r EXCEPT !.lease = "expired"])
  BY DEF Cancelled, Blocked, JobRow
<1>4. \A n, c : Blocked(Failed(r, n, c))
  BY DEF Failed, Blocked, JobRow
<1>5. \A n : Blocked(Reclaimed(r, n))
  BY DEF Reclaimed, Blocked, JobRow
<1> QED
  BY <1>1, <1>2, <1>3, <1>4, <1>5

LEMMA BlockedStep ==
  ASSUME TypeOK, Blocked(row), [Next]_vars
  PROVE  Blocked(row)'
<1> SUFFICES Blocked(row')
  BY DEF Blocked
<1>0. row \in JobRow(UserIds) /\ \A s \in Steppers : UserOf[s] \in UserIds
  BY StepperAssumption DEF TypeOK
<1>1. ASSUME NEW s \in Steppers, ClaimStep(s) PROVE Blocked(row')
  BY <1>0, <1>1, WritesKeepBlocked DEF ClaimStep
<1>2. ASSUME NEW s \in Steppers, CompleteStep(s) PROVE Blocked(row')
  BY <1>0, <1>2, WritesKeepBlocked DEF CompleteStep
<1>3. ASSUME NEW s \in Steppers, CancelStep(s) PROVE Blocked(row')
  BY <1>0, <1>3, WritesKeepBlocked DEF CancelStep
<1>4. ASSUME NEW s \in Steppers, FailWrite(s) PROVE Blocked(row')
  BY <1>0, <1>4, WritesKeepBlocked DEF FailWrite
<1>5. ASSUME NEW s \in Steppers, Step(s),
             ~ClaimStep(s), ~CompleteStep(s), ~CancelStep(s), ~FailWrite(s)
      PROVE  Blocked(row')
  <2>1. row' = row
    BY <1>5
    DEF Step, StepRoute, ReadJob, CheckBeforeStep, Gate, ClaimMissed, StartSlice,
        InsertSlice, UpdateProgress, CheckAfterSlice, FinishBatch, CompleteBatch,
        CancelBatch, HandlerThrows, FailRead
  <2> QED
    BY <2>1
<1>6. CASE CancellationWrite
  BY <1>0, <1>6, WritesKeepBlocked DEF CancellationWrite
<1>7. CASE SweepUpdate
  BY <1>0, <1>7, WritesKeepBlocked DEF SweepUpdate
<1>8. CASE LeaseExpires
  BY <1>0, <1>8, WritesKeepBlocked DEF LeaseExpires
<1>9. CASE RequestCancellation \/ CancellationBatch \/ SweepSelect \/ UNCHANGED vars
  <2>1. row' = row
    BY <1>9 DEF RequestCancellation, CancellationBatch, SweepSelect, vars
  <2> QED
    BY <2>1
<1> QED
  BY <1>1, <1>2, <1>3, <1>4, <1>5, <1>6, <1>7, <1>8, <1>9 DEF Next

\* Once cancellation of a job was requested, no request runs or completes it:
\* a claim that another tab has under way, a completion already decided, a
\* failure written by id and the sweep included.
THEOREM StepperCancelBlocks == Spec => []CancelBlocksExecution
<1>1. Init => Blocked(row)
  BY DEF Init, NewJob, Blocked
<1>2. Blocked(row) => CancelBlocksExecution
  BY DEF Blocked, CancelBlocksExecution
<1>3. TypeOK /\ Blocked(row) /\ [Next]_vars => Blocked(row)'
  BY BlockedStep
<1> QED
  BY <1>1, <1>2, <1>3, TypeInit, TypeStep, PTL DEF Spec

-----------------------------------------------------------------------------
(* The checkpoint *)

Covered(n) == \A k \in Records : k < n => inserted[k] > 0

\* The slice in hand has been inserted; it reaches the end of the batch.
SliceInserted == {"progress", "postcheck", "finishBatch", "complete", "completeBatch"}
LastSlice == {"finishBatch", "complete", "completeBatch"}

\* What CheckpointCovered rests on: the bound a request is about to write as
\* the new checkpoint, or to complete the job with, is covered as well.
RequestCovered(x) ==
  /\ Covered(x.from)
  /\ x.pc \in SliceInserted => Covered(x.to)
  /\ x.pc \in LastSlice => x.to >= Total

CoverInv ==
  /\ Covered(progress)
  /\ \A s \in Steppers : RequestCovered(st[s])
  /\ row.status = "COMPLETED" => Covered(Total)

\* A request that returned needs nothing.
LEMMA IdleCovered == TypeOK => RequestCovered(IdleRequest)
  BY DEF TypeOK, RequestCovered, IdleRequest, Covered, Records, SliceInserted, LastSlice

\* A step of one request that inserts nothing, moves the checkpoint to a
\* covered place and completes the job only when all is covered.
LEMMA CoverMove ==
  ASSUME TypeOK, CoverInv, NEW s \in Steppers, inserted' = inserted,
         st' = [st EXCEPT ![s] = st'[s]], RequestCovered(st'[s]),
         Covered(progress'),
         row'.status = "COMPLETED" => row.status = "COMPLETED" \/ Covered(Total)
  PROVE  CoverInv'
<1>1. \A t \in Steppers : RequestCovered(st'[t])
  BY DEF TypeOK, CoverInv
<1>2. \A t \in Steppers : RequestCovered(st[t])'
  BY <1>1 DEF RequestCovered, Covered
<1>3. (row.status = "COMPLETED" => Covered(Total))'
  BY DEF CoverInv, Covered
<1>4. Covered(progress)'
  BY DEF Covered
<1> QED
  BY <1>2, <1>3, <1>4 DEF CoverInv

\* The createMany calls extend what is covered from the request's snapshot to
\* the end of its slice, and uncover nothing.
LEMMA InsertCovers ==
  ASSUME ~InsertMayFail, ~UniqueKeys, TypeOK, CoverInv, NEW s \in Steppers, InsertSlice(s)
  PROVE  CoverInv'
<1>1. inserted' = [k \in Records |->
           IF st[s].from <= k /\ k < st[s].to /\ inserted[k] < 2
             THEN inserted[k] + 1 ELSE inserted[k]]
  BY DEF InsertSlice, Slice, Clashes
<1>2. \A k \in Records : inserted[k] > 0 => inserted'[k] > 0
  BY <1>1 DEF TypeOK
<1>3. \A n : Covered(n) => \A k \in Records : k < n => inserted'[k] > 0
  BY <1>2 DEF Covered
<1>4. \A k \in Records : k < st[s].to => inserted'[k] > 0
  <2> SUFFICES ASSUME NEW k \in Records, k < st[s].to PROVE inserted'[k] > 0
    OBVIOUS
  <2>1. k \in Nat /\ st[s].from \in Nat /\ st[s].to \in Nat /\ inserted[k] \in 0..2
    BY StepperAssumption DEF TypeOK, Request, Records
  <2>2. CASE k < st[s].from
    BY <1>2, <2>2 DEF CoverInv, RequestCovered, Covered
  <2>3. CASE st[s].from <= k
    BY <1>1, <2>1, <2>3
  <2> QED
    BY <2>1, <2>2, <2>3
<1>5. /\ st' = [st EXCEPT ![s].pc = "progress"]
      /\ row' = row /\ progress' = progress
  BY DEF InsertSlice, Goto
<1>6. ASSUME NEW t \in Steppers PROVE RequestCovered(st[t])'
  <2>1. CASE t = s
    <3>1. /\ st'[s].from = st[s].from /\ st'[s].to = st[s].to
          /\ st'[s].pc = "progress"
      BY <1>5 DEF TypeOK, Request
    <3>2. Covered(st[s].from)' /\ Covered(st[s].to)'
      BY <1>3, <1>4, <3>1 DEF Covered, CoverInv, RequestCovered
    <3> QED
      BY <2>1, <3>1, <3>2 DEF RequestCovered, LastSlice
  <2>2. CASE t # s
    <3>1. st'[t] = st[t] /\ RequestCovered(st[t])
      BY <1>5, <2>2 DEF TypeOK, CoverInv
    <3> QED
      BY <1>3, <3>1 DEF RequestCovered, Covered
  <2> QED
    BY <2>1, <2>2
<1>7. Covered(progress)' /\ (row.status = "COMPLETED" => Covered(Total))'
  BY <1>3, <1>5 DEF CoverInv, Covered
<1> QED
  BY <1>6, <1>7 DEF CoverInv

\* Every step keeps the checkpoint, and every checkpoint about to be written,
\* covered.
LEMMA CoverStep ==
  ASSUME ~InsertMayFail, ~UniqueKeys, TypeOK, CoverInv, [Next]_vars
  PROVE  CoverInv'
<1>0. Covered(progress) /\ \A s \in Steppers : RequestCovered(st[s])
  BY DEF CoverInv
<1>a. ASSUME NEW s \in Steppers, NEW l \in Labels, Goto(s, l),
             UNCHANGED <<inserted, progress>>,
             row'.status = "COMPLETED" =>
               row.status = "COMPLETED" \/ Covered(Total),
             l \in SliceInserted => st[s].pc \in SliceInserted,
             l \in LastSlice => st[s].to >= Total
      PROVE  CoverInv'
  <2>1. st' = [st EXCEPT ![s] = st'[s]]
    BY <1>a DEF TypeOK, Goto, Request
  <2>2. RequestCovered(st'[s])
    BY <1>a, <1>0 DEF TypeOK, Goto, Request, RequestCovered
  <2> QED
    BY <1>a, <1>0, <2>1, <2>2, CoverMove
<1>b. ASSUME NEW s \in Steppers, Return(s), UNCHANGED <<inserted, progress>>,
             row'.status = "COMPLETED" => row.status = "COMPLETED"
      PROVE  CoverInv'
  <2>1. st' = [st EXCEPT ![s] = st'[s]] /\ st'[s] = IdleRequest
    BY <1>b DEF TypeOK, Return
  <2> QED
    BY <1>b, <1>0, <2>1, IdleCovered, CoverMove
<1>c. ASSUME UNCHANGED <<st, inserted, progress>>,
             row'.status = "COMPLETED" => row.status = "COMPLETED"
      PROVE  CoverInv'
  BY <1>c DEF CoverInv, RequestCovered, Covered
<1> HIDE DEF CoverInv
<1>1. ASSUME NEW s \in Steppers, StepRoute(s) PROVE CoverInv'
  BY <1>1, <1>a DEF StepRoute, Labels, SliceInserted, LastSlice
<1>2. ASSUME NEW s \in Steppers, ReadJob(s) PROVE CoverInv'
  <2>1. CASE Return(s)
    BY <1>2, <2>1, <1>b DEF ReadJob
  <2>2. CASE ~Return(s)
    <3>1. st' = [st EXCEPT ![s] = st'[s]] /\ UNCHANGED <<row, inserted, progress>>
      BY <1>2, <2>2 DEF ReadJob, TypeOK, Request
    <3>2. /\ st'[s].from = progress
          /\ st'[s].pc \notin SliceInserted
          /\ st'[s].pc \notin LastSlice
      BY <1>2, <2>2 DEF ReadJob, TypeOK, Request, SliceInserted, LastSlice
    <3> QED
      BY <1>0, <3>1, <3>2, CoverMove DEF RequestCovered
  <2> QED
    BY <2>1, <2>2
<1>3. ASSUME NEW s \in Steppers, CheckBeforeStep(s) PROVE CoverInv'
  BY <1>3, <1>a DEF CheckBeforeStep, Labels, SliceInserted, LastSlice
<1>4. ASSUME NEW s \in Steppers, Gate(s) PROVE CoverInv'
  <2>1. CASE Return(s)
    BY <1>4, <2>1, <1>b DEF Gate
  <2>2. CASE ~Return(s)
    <3>1. st' = [st EXCEPT ![s] = st'[s]] /\ UNCHANGED <<row, inserted, progress>>
      BY <1>4, <2>2 DEF Gate, TypeOK, Request
    <3>2. st'[s].from = st[s].from /\ st'[s].pc = "claim"
      BY <1>4, <2>2 DEF Gate, TypeOK, Request
    <3> QED
      BY <1>0, <3>1, <3>2, CoverMove DEF RequestCovered, SliceInserted, LastSlice
  <2> QED
    BY <2>1, <2>2
<1>5. ASSUME NEW s \in Steppers, ClaimStep(s) PROVE CoverInv'
  <2>1. row'.status = "COMPLETED" => row.status = "COMPLETED"
    BY <1>5 DEF ClaimStep, StepClaimed, TypeOK, JobRow
  <2> QED
    BY <1>5, <2>1, <1>a DEF ClaimStep, Labels, SliceInserted, LastSlice
<1>6. ASSUME NEW s \in Steppers, ClaimMissed(s) PROVE CoverInv'
  BY <1>6, <1>a DEF ClaimMissed, Labels, SliceInserted, LastSlice
<1>7. ASSUME NEW s \in Steppers, StartSlice(s) PROVE CoverInv'
  <2>1. UNCHANGED <<row, inserted, progress>>
    BY <1>7 DEF StartSlice
  <2>2. CASE Goto(s, "cancel")
    BY <2>1, <2>2, <1>a DEF Labels, SliceInserted, LastSlice
  <2>3. CASE ~Goto(s, "cancel")
    <3>1. PICK chunk \in ChunkSizes :
            st' = [st EXCEPT ![s].to = SliceEnd(st[s].from, chunk),
                             ![s].pc = IF st[s].from < Total
                                         THEN "insert" ELSE "postcheck"]
      BY <1>7, <2>3 DEF StartSlice
    <3>2. st' = [st EXCEPT ![s] = st'[s]]
      BY <3>1 DEF TypeOK, Request
    <3>3. /\ st'[s].from = st[s].from
          /\ st'[s].to = SliceEnd(st[s].from, chunk)
          /\ st'[s].pc = IF st[s].from < Total THEN "insert" ELSE "postcheck"
      BY <3>1 DEF TypeOK, Request
    <3>4. st[s].from \in 0..Total
      BY DEF TypeOK, Request
    <3>5. ~(st[s].from < Total) => SliceEnd(st[s].from, chunk) = st[s].from
      BY <3>4, StepperAssumption DEF SliceEnd
    <3>6. RequestCovered(st'[s])
      BY <1>0, <3>3, <3>5 DEF RequestCovered, SliceInserted, LastSlice
    <3> QED
      BY <1>0, <2>1, <3>2, <3>6, CoverMove
  <2> QED
    BY <2>2, <2>3
<1>8. ASSUME NEW s \in Steppers, InsertSlice(s) PROVE CoverInv'
  BY <1>8, InsertCovers
<1>9. ASSUME NEW s \in Steppers, HandlerThrows(s) \/ FailRead(s) PROVE CoverInv'
  BY <1>9, <1>a DEF HandlerThrows, FailRead, Labels, SliceInserted, LastSlice
<1>10. ASSUME NEW s \in Steppers, UpdateProgress(s) PROVE CoverInv'
  <2>1. Covered(progress')
    BY <1>10, <1>0 DEF UpdateProgress, At, RequestCovered, SliceInserted
  <2>2. /\ st' = [st EXCEPT ![s] = st'[s]]
        /\ st'[s].from = st[s].from /\ st'[s].to = st[s].to
        /\ st'[s].pc = "postcheck" /\ st[s].pc = "progress"
    BY <1>10 DEF UpdateProgress, Goto, At, TypeOK, Request
  <2>3. RequestCovered(st'[s])
    BY <1>0, <2>2 DEF RequestCovered, SliceInserted, LastSlice
  <2> QED
    BY <1>10, <2>1, <2>2, <2>3, CoverMove DEF UpdateProgress
<1>11. ASSUME NEW s \in Steppers, CheckAfterSlice(s) PROVE CoverInv'
  <2>1. CASE Return(s)
    BY <1>11, <2>1, <1>b DEF CheckAfterSlice
  <2>2. CASE ~Return(s)
    BY <1>11, <2>2, <1>a
    DEF CheckAfterSlice, At, Labels, SliceInserted, LastSlice
  <2> QED
    BY <2>1, <2>2
<1>12. ASSUME NEW s \in Steppers, FinishBatch(s) PROVE CoverInv'
  <2>1. st[s].to >= Total
    BY <1>12, <1>0 DEF FinishBatch, At, RequestCovered, LastSlice
  <2> QED
    BY <1>12, <2>1, <1>a DEF FinishBatch, At, Labels, SliceInserted
<1>13. ASSUME NEW s \in Steppers, CompleteStep(s) PROVE CoverInv'
  <2>1. st[s].to >= Total /\ Covered(st[s].to)
    BY <1>13, <1>0 DEF CompleteStep, At, RequestCovered, LastSlice, SliceInserted
  <2>2. st[s].to = Total
    <3>1. st[s].to \in 0..Total
      BY DEF TypeOK, Request
    <3> QED
      BY <2>1, <3>1, StepperAssumption
  <2> QED
    BY <1>13, <2>1, <2>2, <1>a DEF CompleteStep, At, Labels, SliceInserted
<1>14. ASSUME NEW s \in Steppers, CompleteBatch(s) \/ CancelBatch(s) PROVE CoverInv'
  BY <1>14, <1>b DEF CompleteBatch, CancelBatch
<1>15. ASSUME NEW s \in Steppers, CancelStep(s) PROVE CoverInv'
  <2>1. row'.status = "COMPLETED" => row.status = "COMPLETED"
    BY <1>15 DEF CancelStep, Cancelled, TypeOK, JobRow
  <2> QED
    BY <1>15, <2>1, <1>a DEF CancelStep, Labels, SliceInserted, LastSlice
<1>16. ASSUME NEW s \in Steppers, FailWrite(s) PROVE CoverInv'
  <2>1. row'.status = "COMPLETED" => row.status = "COMPLETED"
    BY <1>16 DEF FailWrite, Failed, TypeOK, JobRow
  <2> QED
    BY <1>16, <2>1, <1>b DEF FailWrite
<1>17. CASE RequestCancellation \/ CancellationBatch \/ SweepSelect
  BY <1>17, <1>c DEF RequestCancellation, CancellationBatch, SweepSelect, requests
<1>18. CASE CancellationWrite \/ SweepUpdate \/ LeaseExpires
  <2>1. row'.status = "COMPLETED" => row.status = "COMPLETED"
    BY <1>18
    DEF CancellationWrite, SweepUpdate, LeaseExpires, Cancelled, Reclaimed,
        TypeOK, JobRow
  <2> QED
    BY <1>18, <2>1, <1>c DEF CancellationWrite, SweepUpdate, LeaseExpires, requests
<1>19. CASE UNCHANGED vars
  BY <1>19, <1>c DEF vars
<1> QED
  BY <1>1, <1>2, <1>3, <1>4, <1>5, <1>6, <1>7, <1>8, <1>9, <1>10, <1>11,
     <1>12, <1>13, <1>14, <1>15, <1>16, <1>17, <1>18, <1>19
  DEF Next, Step

\* As long as no createMany fails (nor is refused by a unique key), the progress a job reports, every request's
\* snapshot of it and a COMPLETED status are backed by inserted records, for
\* any number of concurrent requests of any users, with stolen claims, stale
\* snapshots, cancellations, failures and reclaims in between.
THEOREM CheckpointSafe ==
  ASSUME ~InsertMayFail, ~UniqueKeys
  PROVE  Spec => []CheckpointCovered
<1>1. Init => CoverInv
  BY IdleCovered, TypeInit
  DEF Init, CoverInv, Covered, Records, NewJob
<1>2. TypeOK /\ CoverInv => CheckpointCovered
  <2> SUFFICES ASSUME TypeOK, CoverInv, NEW k \in Records, ~(inserted[k] > 0)
               PROVE  /\ progress <= k
                      /\ \A s \in Steppers : st[s].from <= k
                      /\ row.status # "COMPLETED"
    BY DEF CheckpointCovered
  <2>1. k \in Nat /\ k < Total /\ progress \in Nat
    BY StepperAssumption DEF TypeOK, Records
  <2>2. \A s \in Steppers : st[s].from \in Nat
    BY DEF TypeOK, Request
  <2> QED
    BY <2>1, <2>2 DEF CoverInv, RequestCovered, Covered
<1>3. TypeOK /\ CoverInv /\ [Next]_vars => CoverInv'
  BY CoverStep
<1> QED
  BY <1>1, <1>2, <1>3, TypeInit, TypeStep, PTL DEF Spec
=============================================================================
