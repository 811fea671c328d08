----------------------------- MODULE JobEnqueue -----------------------------
(***************************************************************************)
(* enqueueJob of src/lib/workers/durable-job-worker.ts: concurrent calls   *)
(* with one tenant and one idempotency key, in several processes.  Each    *)
(* call is up to three statements (findUnique, create, and findUnique      *)
(* again in the catch block); what follows a statement runs at once.  The  *)
(* pair (tenantId, idempotencyKey) is unique in the table.                 *)
(***************************************************************************)
EXTENDS Naturals

CONSTANTS
  Enqueuer,       \* calls
  Process,        \* processes, each with its localMemoryQueue
  ProcessOf,      \* the process that serves each call
  MaxDbErrors,    \* bound: statements that fail without effect
  MaxLostReplies  \* bound: creates that are stored but answered with an error

ASSUME EnqueueAssumption ==
  /\ ProcessOf \in [Enqueuer -> Process]
  /\ MaxDbErrors \in Nat /\ MaxLostReplies \in Nat

VARIABLES
  jobRow,       \* id of the AsyncJob row with the key (0: none)
  mirror,       \* per process: id of the job localMemoryQueue has for the key
  enq,          \* per call: where it is and its answer
  jobIds,       \* ids drawn so far
  dbErrors, lostReplies

enqueueVars == <<jobRow, mirror, enq, jobIds, dbErrors, lostReplies>>

Nothing == 0

EnqueueInit ==
  /\ jobRow = Nothing
  /\ mirror = [s \in Process |-> Nothing]
  /\ enq = [c \in Enqueuer |-> [pc |-> "find", id |-> Nothing, durable |-> FALSE]]
  /\ jobIds = 0 /\ dbErrors = 0 /\ lostReplies = 0

\* The record is put into the local mirror and returned.
Answer(c, id, durable) ==
  /\ enq' = [enq EXCEPT ![c] = [pc |-> "done", id |-> id, durable |-> durable]]
  /\ mirror' = [mirror EXCEPT ![ProcessOf[c]] = id]

Proceed(c, pc) == enq' = [enq EXCEPT ![c].pc = pc] /\ UNCHANGED mirror

\* findUnique.
FindExisting(c) ==
  /\ enq[c].pc = "find"
  /\ IF jobRow # Nothing THEN Answer(c, jobRow, TRUE) ELSE Proceed(c, "create")
  /\ UNCHANGED <<jobRow, jobIds, dbErrors, lostReplies>>

\* create; its answer may be lost.
CreateJob(c) ==
  /\ enq[c].pc = "create" /\ jobRow = Nothing
  /\ jobIds' = jobIds + 1 /\ jobRow' = jobIds + 1
  /\ \/ Answer(c, jobIds + 1, TRUE) /\ UNCHANGED lostReplies
     \/ /\ lostReplies < MaxLostReplies /\ lostReplies' = lostReplies + 1
        /\ Proceed(c, "raced")
  /\ UNCHANGED dbErrors

\* create is refused: the key is taken.
CreateRaced(c) ==
  /\ enq[c].pc = "create" /\ jobRow # Nothing
  /\ Proceed(c, "raced")
  /\ UNCHANGED <<jobRow, jobIds, dbErrors, lostReplies>>

\* The job of the local mirror, or a new one that only the mirror has.
LocalFallback(c) ==
  IF mirror[ProcessOf[c]] # Nothing
    THEN Answer(c, mirror[ProcessOf[c]], FALSE) /\ UNCHANGED jobIds
    ELSE Answer(c, jobIds + 1, FALSE) /\ jobIds' = jobIds + 1

\* Mutant: the catch block goes straight to the local queue.
RacedFoundNever == FALSE

RacedFound == jobRow # Nothing

\* The findUnique of the catch block.
FindRaced(c) ==
  /\ enq[c].pc = "raced"
  /\ IF RacedFound THEN Answer(c, jobRow, TRUE) /\ UNCHANGED jobIds ELSE LocalFallback(c)
  /\ UNCHANGED <<jobRow, dbErrors, lostReplies>>

\* A statement fails without effect.
StatementFails(c) ==
  /\ enq[c].pc # "done"
  /\ dbErrors < MaxDbErrors /\ dbErrors' = dbErrors + 1
  /\ IF enq[c].pc = "raced" THEN LocalFallback(c)
                            ELSE Proceed(c, "raced") /\ UNCHANGED jobIds
  /\ UNCHANGED <<jobRow, lostReplies>>

EnqueueNext ==
  \E c \in Enqueuer :
    FindExisting(c) \/ CreateJob(c) \/ CreateRaced(c) \/ FindRaced(c) \/ StatementFails(c)

EnqueueSpec == EnqueueInit /\ [][EnqueueNext]_enqueueVars

-----------------------------------------------------------------------------

EnqueueTypeOK ==
  /\ {jobRow, jobIds} \subseteq Nat
  /\ mirror \in [Process -> 0..jobIds]
  /\ enq \in [Enqueuer -> [pc : {"find", "create", "raced", "done"}, id : 0..jobIds,
                           durable : BOOLEAN]]
  /\ \A c \in Enqueuer : enq[c].pc = "done" <=> enq[c].id # Nothing
  /\ dbErrors \in 0..MaxDbErrors /\ lostReplies \in 0..MaxLostReplies

\* All calls with one key are told the same job, the one in the table, and all
\* mirrors have it, although the calls race and replies are lost, as long as
\* no statement fails without effect.
IdempotentEnqueue ==
  dbErrors = 0 =>
    /\ \A c \in Enqueuer : enq[c].pc = "done" => enq[c].durable /\ enq[c].id = jobRow
    /\ \A s \in Process : mirror[s] \in {Nothing, jobRow}

-----------------------------------------------------------------------------
(* Stated by the code and not kept; README.md says when. *)

\* "Atomically creates or retrieves an idempotent async job": one failed
\* statement is enough for an answer no other process will ever see.
OneJobPerKey ==
  \A c, d \in Enqueuer : enq[c].pc = "done" /\ enq[d].pc = "done" => enq[c].id = enq[d].id
=============================================================================
