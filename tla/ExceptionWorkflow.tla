------------------------- MODULE ExceptionWorkflow -------------------------
(***************************************************************************)
(* src/lib/exceptions/service.ts with state-machine.ts: the status of one  *)
(* exception under concurrent transition requests, composed with the audit *)
(* chain its batch shares with the engine's own appends.                   *)
(*                                                                         *)
(* transitionException reads the status, validates the transition and then *)
(* runs a transaction: a compare-and-swap on the status column (which      *)
(* locks the row), an AuditLog row, an append to the audit chain for human *)
(* actors, and the commit.  Nothing of it is visible before the commit.    *)
(***************************************************************************)
EXTENDS AuditChain

CONSTANTS
  Admin,      \* human actors whose session has the role ADMIN
  AIActor,    \* callers that name themselves AI
  TargetsOf,  \* the states each requester asks for
  MaxLog      \* bound: no request is made once the log is this long

\* Human actors are the callers that append inside the transaction.
Human == InTx
Requester == Human \cup AIActor

ASSUME WorkflowAssumption ==
  /\ Admin \subseteq Human
  /\ AIActor \cap Appender = {}
  /\ MaxLog \in Nat

VARIABLES
  exc,        \* the Exception row: present, status, whether it carries a resolution
  auditLog,   \* WORKFLOW_TRANSITION rows of the AuditLog, in commit order
  req         \* per requester: its transition and where it is

workflowVars == <<exc, auditLog, req, rows, appends>>

WorkflowState ==
  {"OPEN", "INVESTIGATING", "PENDING_APPROVAL", "APPROVED", "REJECTED",
   "CORRECTING", "RE_CALCULATING", "RE_VERIFICATION", "FINALIZABLE",
   "RESOLVED", "ESCALATED", "UNRESOLVABLE", "REOPENED"}

WORKFLOW_TRANSITIONS ==
  [s \in WorkflowState |->
    CASE s = "OPEN"             -> {"INVESTIGATING", "ESCALATED"}
      [] s = "INVESTIGATING"    -> {"PENDING_APPROVAL", "CORRECTING", "ESCALATED"}
      [] s = "PENDING_APPROVAL" -> {"APPROVED", "REJECTED", "ESCALATED"}
      [] s = "REJECTED"         -> {"INVESTIGATING", "CORRECTING", "ESCALATED"}
      [] s = "APPROVED"         -> {"CORRECTING", "RE_CALCULATING"}
      [] s = "CORRECTING"       -> {"RE_CALCULATING", "ESCALATED"}
      [] s = "RE_CALCULATING"   -> {"RE_VERIFICATION", "ESCALATED"}
      [] s = "RE_VERIFICATION"  -> {"FINALIZABLE", "CORRECTING", "ESCALATED", "UNRESOLVABLE"}
      [] s = "FINALIZABLE"      -> {"RESOLVED", "ESCALATED"}
      [] s = "ESCALATED"        -> {"INVESTIGATING", "UNRESOLVABLE"}
      [] s = "UNRESOLVABLE"     -> {"INVESTIGATING"}
      [] s = "RESOLVED"         -> {"REOPENED"}
      [] s = "REOPENED"         -> {"INVESTIGATING"}]

canTransition(from, to) == to \in WORKFLOW_TRANSITIONS[from]

\* An AuditLog entry, and the payload of the chain's HUMAN_ACTION event.
Transition(v, from, to) == [by |-> v, from |-> from, to |-> to]

\* The payload of an event the engine appends.
SystemEvent == [by |-> "SYSTEM", from |-> "-", to |-> "-"]

WorkflowPayload ==
  {t \in [by : Human, from : WorkflowState, to : WorkflowState] :
     t.to \in TargetsOf[t.by] /\ canTransition(t.from, t.to)} \cup {SystemEvent}

ASSUME PayloadAssumption == WorkflowPayload \subseteq Payload

NoRequest == [pc |-> "idle", from |-> "OPEN", to |-> "OPEN"]

WorkflowInit ==
  /\ ChainInit
  /\ exc = [present |-> TRUE, status |-> "OPEN", resolution |-> FALSE]
  /\ auditLog = << >>
  /\ req = [v \in Requester |-> NoRequest]

\* The role check of the status route and the rule that AI cannot resolve.
Permitted(v, to) ==
  /\ v \in Human /\ to \in {"RESOLVED", "REJECTED"} => v \in Admin
  /\ v \in AIActor => to # "RESOLVED"

\* findUnique and the validations; a request that fails one changes nothing.
ReadStatus(v, to) ==
  /\ req[v].pc = "idle"
  /\ exc.present
  /\ Len(auditLog) < MaxLog
  /\ canTransition(exc.status, to)
  /\ Permitted(v, to)
  /\ req' = [req EXCEPT ![v] = [pc |-> "checked", from |-> exc.status, to |-> to]]
  /\ UNCHANGED <<exc, auditLog, rows, appends>>

RowFree == \A v \in Requester : req[v].pc # "locked"

\* Mutant: the update names the id only.
SwapsById(v) == exc.present

Swaps(v) == exc.present /\ exc.status = req[v].from

\* updateMany ... where status = fromState finds the row and locks it; a human
\* actor's append begins in the same transaction.
CompareAndSwap(v) ==
  /\ req[v].pc = "checked"
  /\ RowFree /\ Swaps(v)
  /\ req' = [req EXCEPT ![v].pc = "locked"]
  /\ IF v \in Human
       THEN BeginAppend(v, Transition(v, req[v].from, req[v].to))
       ELSE UNCHANGED <<rows, appends>>
  /\ UNCHANGED <<exc, auditLog>>

\* updateMany matched no row: WorkflowConflictError.
Conflict(v) ==
  /\ req[v].pc = "checked"
  /\ RowFree /\ ~Swaps(v)
  /\ req' = [req EXCEPT ![v] = NoRequest]
  /\ UNCHANGED <<exc, auditLog, rows, appends>>

\* Mutant: reopening keeps the resolution.
ResolutionKept(r, from, to) == r \/ to = "RESOLVED"

ResolutionAfter(r, from, to) ==
  IF to = "RESOLVED" THEN TRUE
  ELSE IF from = "RESOLVED" /\ to = "REOPENED" THEN FALSE ELSE r

\* The row, the AuditLog entry and the feedback become visible together.
Committed(v) ==
  /\ exc' = [exc EXCEPT !.status = req[v].to,
                        !.resolution = ResolutionAfter(@, req[v].from, req[v].to)]
  /\ auditLog' = Append(auditLog, Transition(v, req[v].from, req[v].to))
  /\ req' = [req EXCEPT ![v] = NoRequest]

CommitHuman(v) ==
  /\ req[v].pc = "locked" /\ v \in Human
  /\ TxCommit(v)
  /\ Committed(v)

CommitAI(v) ==
  /\ req[v].pc = "locked" /\ v \in AIActor
  /\ Committed(v)
  /\ UNCHANGED <<rows, appends>>

\* Mutant: a failed append is logged and the transaction is committed.
RollBackKeeps(v) ==
  /\ req[v].pc = "locked" /\ v \in Human
  /\ TxCreateRefused(v) \/ TxRollback(v)
  /\ Committed(v)

\* The append, or a statement after it, failed: the transaction is rolled back.
RollBack(v) ==
  /\ req[v].pc = "locked" /\ v \in Human
  /\ TxCreateRefused(v) \/ TxRollback(v)
  /\ req' = [req EXCEPT ![v] = NoRequest]
  /\ UNCHANGED <<exc, auditLog>>

\* The statements of an append that stay inside appendAuditEvent.
AppendStep(p) ==
  /\ FindLast(p) \/ CreateStored(p) \/ CreateRefused(p) \/ TxCreate(p)
  /\ UNCHANGED <<exc, auditLog, req>>

\* The engine appends an event of its own to the chain of the batch.
EngineAppends(p) ==
  /\ p \notin InTx /\ appends[p].pc = "idle"
  /\ BeginAppend(p, SystemEvent)
  /\ UNCHANGED <<exc, auditLog, req>>

\* A new run of the engine deletes the exceptions of the batch.
EngineDeletes ==
  /\ exc.present /\ RowFree
  /\ exc' = [exc EXCEPT !.present = FALSE]
  /\ UNCHANGED <<auditLog, req, rows, appends>>

WorkflowNext ==
  \/ \E v \in Requester :
       \/ \E to \in TargetsOf[v] : ReadStatus(v, to)
       \/ CompareAndSwap(v)
       \/ Conflict(v)
       \/ CommitHuman(v)
       \/ CommitAI(v)
       \/ RollBack(v)
  \/ \E p \in Appender : AppendStep(p) \/ EngineAppends(p)
  \/ EngineDeletes

WorkflowSpec == WorkflowInit /\ [][WorkflowNext]_workflowVars

-----------------------------------------------------------------------------

WorkflowTypeOK ==
  /\ ChainTypeOK
  /\ exc \in [present : BOOLEAN, status : WorkflowState, resolution : BOOLEAN]
  /\ auditLog \in Seq([by : Requester, from : WorkflowState, to : WorkflowState])
  /\ req \in [Requester -> [pc : {"idle", "checked", "locked"},
                            from : WorkflowState, to : WorkflowState]]

\* The audit log of an exception is a walk through the state machine that
\* starts at OPEN and ends at the status of the row: of two requests that read
\* the same state at most one takes effect, and none takes effect unlogged.
AuditWalk ==
  /\ \A i \in 1..Len(auditLog) :
       /\ canTransition(auditLog[i].from, auditLog[i].to)
       /\ auditLog[i].from = IF i = 1 THEN "OPEN" ELSE auditLog[i - 1].to
  /\ exc.status = IF auditLog = << >> THEN "OPEN" ELSE auditLog[Len(auditLog)].to

\* Every resolution was preceded by a passing re-verification and entered by
\* a human: no shortcut leads to RESOLVED, and a reopened case carries no
\* resolution.
ResolvedWasVerified ==
  /\ exc.resolution = (exc.status = "RESOLVED")
  /\ \A i \in 1..Len(auditLog) : auditLog[i].to = "RESOLVED" =>
       /\ i > 1 /\ auditLog[i - 1].from = "RE_VERIFICATION"
       /\ auditLog[i].by \in Human

\* How many of the positions S there are up to i.
Rank(S, i) == Cardinality({j \in S : j <= i})

\* The chosen entries of two records, one after the other, are the same.
SameEntries(s, S, t, T) ==
  /\ Cardinality(S) = Cardinality(T)
  /\ \A i \in S, j \in T : Rank(S, i) = Rank(T, j) => s[i] = t[j]

\* The human actions of the chain, and those of the audit log.
ChainActions == {i \in DOMAIN HeadHash(rows) : HeadHash(rows)[i] # SystemEvent}
LogActions == {i \in DOMAIN auditLog : auditLog[i].by \in Human}

\* The human actions in the tamper-evident chain are those of the audit log,
\* in the same order: the two records commit or roll back together although
\* the engine appends to the same chain meanwhile.
LineageMatchesAudit ==
  SameEntries(HeadHash(rows), ChainActions, auditLog, LogActions)
=============================================================================
