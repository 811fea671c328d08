------------------------ MODULE CorrectionRepository ------------------------
(***************************************************************************)
(* src/lib/corrections/repository.ts with calculator.ts and prover.ts: the *)
(* correction proposed for one transaction of one tenant, concurrent       *)
(* approvals and rejections of it, and proposing it again.  The store is a *)
(* process-local map; a call runs up to its await of getCorrection (which  *)
(* returns a copy) and from there to its end.                              *)
(*                                                                         *)
(* correctionId is a digest of tenant, transaction, difference and number  *)
(* of lines, so the same POST again has the same id and saveCorrection     *)
(* replaces the stored record.                                             *)
(***************************************************************************)
EXTENDS Integers

CONSTANTS
  Reviewer,       \* concurrent calls of the approve and reject routes
  Amount,         \* amounts a proposal is posted with
  RecordVersion,  \* versions of the underlying record
  AnyVersion,     \* a request that names no version
  MaxProposals    \* bound: how often the correction is posted

ASSUME CorrectionAssumption ==
  /\ Amount \subseteq Nat
  /\ RecordVersion # {} /\ AnyVersion \notin RecordVersion
  /\ MaxProposals \in Nat

VARIABLES
  correction,   \* the stored record
  activeLocks,  \* the approvals that hold the lock of the correction
  review,       \* per reviewer: its call and the copy it works on
  proposals,    \* history: how often the correction was saved
  approvals     \* history: CORRECTION_APPROVED entries in the audit ledger

correctionVars == <<correction, activeLocks, review, proposals, approvals>>

CorrectionStatus ==
  {"ABSENT", "AWAITING_REVIEW", "APPROVED", "REJECTED", "STALE", "FAILED"}

-----------------------------------------------------------------------------
(* calculateMinimalCorrection and proveRestoration *)

\* The calculator offers a pair of lines of the detected difference unless
\* there is none.
Applicable(debit, credit, difference) == difference # 0 /\ debit # credit

\* The simulated balances after the lines: the lower side gets its line.
AfterState(debit, credit, difference) ==
  IF debit < credit THEN <<debit + difference, credit>> ELSE <<debit, credit + difference>>

Verified(debit, credit, difference) ==
  LET after == AfterState(debit, credit, difference) IN after[1] = after[2]

-----------------------------------------------------------------------------

NoCorrection == [status |-> "ABSENT", version |-> CHOOSE n \in RecordVersion : TRUE,
                 imbalance |-> 0, lines |-> 0, verified |-> FALSE]

NoReview == [pc |-> "idle", copy |-> NoCorrection, expects |-> AnyVersion]

CorrectionInit ==
  /\ correction = NoCorrection
  /\ activeLocks = {}
  /\ review = [v \in Reviewer |-> NoReview]
  /\ proposals = 0 /\ approvals = 0

\* POST /api/corrections: calculate, prove, save.
Propose(debit, credit, difference, version) ==
  /\ proposals < MaxProposals
  /\ Applicable(debit, credit, difference)
  /\ correction' = [status |-> "AWAITING_REVIEW", version |-> version,
                    imbalance |-> credit - debit, lines |-> difference,
                    verified |-> Verified(debit, credit, difference)]
  /\ proposals' = proposals + 1
  /\ UNCHANGED <<activeLocks, review, approvals>>

\* Mutant: the lock is not tested.
LockFreeNever == TRUE

LockFree == activeLocks = {}

\* approveCorrection up to its await; without the lock it throws.
ApproveBegin(v, version) ==
  /\ review[v].pc = "idle" /\ correction.status # "ABSENT"
  /\ LockFree
  /\ activeLocks' = activeLocks \cup {v}
  /\ review' = [review EXCEPT ![v] = [pc |-> "approving", copy |-> correction,
                                      expects |-> version]]
  /\ UNCHANGED <<correction, proposals, approvals>>

\* The checks in their order; STALE and FAILED records may be approved later.
ApprovalOutcome(copy, expects) ==
  IF expects # AnyVersion /\ copy.version # expects THEN "STALE"
  ELSE IF ~copy.verified THEN "FAILED"
  ELSE "APPROVED"

\* The rest of approveCorrection; the finally block returns the lock.
ApproveEnd(v) ==
  /\ review[v].pc = "approving"
  /\ activeLocks' = activeLocks \ {v}
  /\ review' = [review EXCEPT ![v] = NoReview]
  /\ LET copy == review[v].copy
         outcome == ApprovalOutcome(copy, review[v].expects)
     IN \/ /\ copy.status \in {"APPROVED", "REJECTED"}
           /\ UNCHANGED <<correction, approvals>>
        \/ /\ copy.status \notin {"APPROVED", "REJECTED"}
           /\ correction' = [copy EXCEPT !.status = outcome]
           /\ approvals' = approvals + IF outcome = "APPROVED" THEN 1 ELSE 0
  /\ UNCHANGED proposals

\* rejectCorrection takes no lock.
RejectBegin(v) ==
  /\ review[v].pc = "idle" /\ correction.status # "ABSENT"
  /\ review' = [review EXCEPT ![v] = [pc |-> "rejecting", copy |-> correction,
                                      expects |-> AnyVersion]]
  /\ UNCHANGED <<correction, activeLocks, proposals, approvals>>

RejectEnd(v) ==
  /\ review[v].pc = "rejecting"
  /\ review' = [review EXCEPT ![v] = NoReview]
  /\ correction' = IF review[v].copy.status \in {"APPROVED", "REJECTED"}
                     THEN correction
                     ELSE [review[v].copy EXCEPT !.status = "REJECTED"]
  /\ UNCHANGED <<activeLocks, proposals, approvals>>

CorrectionNext ==
  \/ \E d, c, diff \in Amount, n \in RecordVersion : Propose(d, c, diff, n)
  \/ \E v \in Reviewer :
       \/ \E n \in RecordVersion \cup {AnyVersion} : ApproveBegin(v, n)
       \/ ApproveEnd(v)
       \/ RejectBegin(v)
       \/ RejectEnd(v)

CorrectionSpec == CorrectionInit /\ [][CorrectionNext]_correctionVars

-----------------------------------------------------------------------------

CorrectionRecord ==
  [status : CorrectionStatus, version : RecordVersion, imbalance : Int,
   lines : Nat, verified : BOOLEAN]

CorrectionTypeOK ==
  /\ correction \in CorrectionRecord
  /\ activeLocks \subseteq Reviewer
  /\ review \in [Reviewer -> [pc : {"idle", "approving", "rejecting"},
                              copy : CorrectionRecord,
                              expects : RecordVersion \cup {AnyVersion}]]
  /\ proposals \in 0..MaxProposals
  /\ approvals \in Nat

\* Each time a correction is proposed it is approved at most once, although
\* approvals race with each other, with rejections that overwrite them and with
\* the same proposal posted again.
ApprovedOncePerProposal == approvals <= proposals

\* An approved correction makes the books balance: its lines are as large as
\* the imbalance it was proposed for, whichever copy was written last.
ApprovedBalances ==
  correction.status = "APPROVED" =>
    correction.lines \in {correction.imbalance, 0 - correction.imbalance}

\* What is approved was approved once per proposal, and balances
\* (repository.ts 131-228).
ApprovalsSound == ApprovedOncePerProposal /\ ApprovedBalances

-----------------------------------------------------------------------------
(* Stated by the code and not kept; README.md says when. *)

\* "Reject invalid state transitions": a decision is not replaced by the
\* opposite one, except by proposing the correction again.
DecisionIsFinal ==
  [][ /\ correction.status \in {"APPROVED", "REJECTED"} /\ proposals' = proposals
      => correction'.status = correction.status ]_correctionVars
=============================================================================
