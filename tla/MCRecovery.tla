------------------------------ MODULE MCRecovery ------------------------------
(* One model-checking instance for the components that go on after a       *)
(* process was lost: the reconciliation of a batch, the persisted scale    *)
(* run and the webhook outbox.  They share no state; a behaviour is one of *)
(* the component chosen at the start, the others stay as they began.       *)
EXTENDS ReconciliationRun, ScaleRun, WebhookOutbox

CONSTANTS a, b, m1, m2

\* Which calls are made: a and b are alike, and so are m1 and m2, so one of each
\* choice of two stands for all of them.  Two calls of the multi-pass run meet a
\* routing that completes the batch and one that blocks it: the other two differ
\* from the first in the status the last step writes, which one call reaches.
CallsMade == SUBSET {a, b} \cup SUBSET {a, m1} \cup SUBSET {m1, m2}

VARIABLE focus  \* the component this behaviour is one of

recoveryVars == <<reconVars, scaleVars, outboxVars, focus>>

RecoveryInit ==
  /\ focus \in {"batch", "scale", "outbox"}
  /\ ReconInit /\ ScaleInit /\ OutboxInit
  /\ LET made == {p \in Call : call[p].pc = "idle"}
     IN  /\ made \in CallsMade
         /\ made = {m1, m2} => routing \in {"STRAIGHT_THROUGH", "CRITICAL_BLOCKED"}
  /\ focus # "batch" =>
       routing = "CRITICAL_BLOCKED" /\ \A p \in Call : call[p].pc # "idle"

RecoveryNext ==
  /\ UNCHANGED focus
  /\ \/ focus = "batch" /\ ReconNext /\ UNCHANGED <<scaleVars, outboxVars>>
     \/ focus = "scale" /\ ScaleNext /\ UNCHANGED <<reconVars, outboxVars>>
     \/ focus = "outbox" /\ OutboxNext /\ UNCHANGED <<reconVars, scaleVars>>

\* The fairness of the components, each in its own behaviours.
RecoverySpec ==
  /\ RecoveryInit /\ [][RecoveryNext]_recoveryVars
  /\ \A p \in Call : WF_reconVars(focus = "batch" /\ CallStep(p))
  /\ WF_reconVars(focus = "batch" /\ LockAges)
  /\ \A w \in Deliverer : WF_outboxVars(focus = "outbox" /\ DelivererStep(w))
  /\ \A e \in OutboxEntry : WF_outboxVars(focus = "outbox" /\ WebhookLeaseEnds(e))

\* The fields of the three components.
RecoveryTypeOK == ReconTypeOK /\ ScaleTypeOK /\ OutboxTypeOK
=============================================================================
