----------------------------- MODULE MCReviewDesk -----------------------------
(* One model-checking instance for what reviewers do: the exception        *)
(* workflow with the audit chain it appends to, the approval of            *)
(* corrections and the life cycle of policies.  The three share no state;  *)
(* a behaviour is one of the component chosen at the start.                *)
EXTENDS ExceptionWorkflow, CorrectionRepository, PolicyManager, TLC

CONSTANTS r1, r2, ai

\* What each requester asks for: an administrator, an analyst and the AI.
Targets ==
  r1 :> {"RE_VERIFICATION", "FINALIZABLE", "RESOLVED", "REOPENED"}
  @@ r2 :> {"INVESTIGATING", "CORRECTING", "RE_CALCULATING", "RESOLVED"}
  @@ ai :> {"INVESTIGATING", "RESOLVED"}

VARIABLE focus  \* the component this behaviour is one of

deskVars == <<workflowVars, correctionVars, policyVars, focus>>

DeskInit ==
  /\ focus \in {"exception", "correction", "policy"}
  /\ WorkflowInit /\ CorrectionInit /\ PolicyInit

DeskNext ==
  /\ UNCHANGED focus
  /\ \/ focus = "exception" /\ WorkflowNext /\ UNCHANGED <<correctionVars, policyVars>>
     \/ focus = "correction" /\ CorrectionNext /\ UNCHANGED <<workflowVars, policyVars>>
     \/ focus = "policy" /\ PolicyNext /\ UNCHANGED <<workflowVars, correctionVars>>

DeskSpec == DeskInit /\ [][DeskNext]_deskVars
=============================================================================
