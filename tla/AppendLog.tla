------------------------------ MODULE AppendLog ------------------------------
(***************************************************************************)
(* What the audit chain of src/lib/reconciliation/audit-chain.ts promises  *)
(* its callers: one log per batch that only ever grows at its end, one     *)
(* event at a time, whoever appends and however the appends overlap.       *)
(***************************************************************************)
EXTENDS Sequences

CONSTANT LogEvent

VARIABLE log

LogInit == log = << >>

Grow(e) == log' = Append(log, e)

LogNext == \E e \in LogEvent : Grow(e)

LogSpec == LogInit /\ [][LogNext]_log

=============================================================================
