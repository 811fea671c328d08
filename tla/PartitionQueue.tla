--------------------------- MODULE PartitionQueue ---------------------------
(***************************************************************************)
(* InMemoryDistributedQueue of                                             *)
(* src/lib/reconciliation/distributed/queue.ts: a queue with leases,       *)
(* visibility timeouts, retry backoff and dead letters.  Every method body *)
(* runs without an await and is one atomic step; the callers interleave.   *)
(*                                                                         *)
(* A lease is the message and the number of the claim that made it: lease  *)
(* ids are only compared with the id stored for the same message.  Time is *)
(* abstracted to "live"/"expired" for leaseExpiresAt and "now"/"later" for *)
(* nextAvailableAt.  Only the unread part of pendingQueue is kept (the     *)
(* compaction removes the rest).  retryCount saturates above maxRetries.   *)
(* The counters that no caller reads are left out.                         *)
(***************************************************************************)
EXTENDS Naturals, Sequences, FiniteSets

CONSTANTS
  Messages,
  MaxRetries

ASSUME QueueAssumption ==
  /\ IsFiniteSet(Messages)
  /\ MaxRetries \in Nat \ {0}

VARIABLES
  msg,       \* messages: id -> StoredMessage
  pending,   \* pendingQueue from pendingReadIndex on
  active     \* the keys of activeLeases

queue == <<msg, pending, active>>

\* leaseId = undefined; the first claim is number 1.
NoLease == 0

RetryCounts == 0..(MaxRetries + 1)

\* UNSENT: not in the map yet.  claims numbers the leases of the message.
StoredMessage ==
  [status : {"UNSENT", "PENDING", "RUNNING", "COMPLETED", "DEAD_LETTER"},
   lease : Nat, claims : Nat,
   expires : {"none", "live", "expired"},
   retryCount : RetryCounts, available : {"now", "later"}]

NewMessage ==
  [status |-> "UNSENT", lease |-> NoLease, claims |-> 0, expires |-> "none",
   retryCount |-> 0, available |-> "now"]

Lease == [message : Messages, id : Nat]

QueueTypeOK ==
  /\ msg \in [Messages -> StoredMessage]
  /\ pending \in Seq(Messages)
  /\ active \in SUBSET Messages

QueueInit ==
  /\ msg = [m \in Messages |-> NewMessage]
  /\ pending = <<>>
  /\ active = {}

-----------------------------------------------------------------------------
\* enqueueBatch of one message; a message id that is known is ignored.
Enqueue(m) ==
  /\ msg[m].status = "UNSENT"
  /\ msg' = [msg EXCEPT ![m].status = "PENDING"]
  /\ pending' = Append(pending, m)
  /\ UNCHANGED active

\* The fast path of claimLeases takes an entry of pendingQueue that names a
\* message waiting and available (an earlier entry for it would have taken it)
\* and drops every other entry it reads.
Takes(i) ==
  /\ msg[pending[i]].status = "PENDING"
  /\ msg[pending[i]].available = "now"
  /\ \A k \in 1..(i - 1) : pending[k] # pending[i]

TakenUpTo(n) == {i \in 1..n : Takes(i)}

\* Where the read index stops: after maxLeases claims, or at the end.
IsCut(n, maxLeases) ==
  \/ n \in DOMAIN pending /\ Takes(n) /\ Cardinality(TakenUpTo(n)) = maxLeases
  \/ n = Len(pending) /\ Cardinality(TakenUpTo(n)) < maxLeases

\* The slow path: running messages whose lease ran out.
Expired == {m \in active : msg[m].status = "RUNNING" /\ msg[m].expires = "expired"}

\* Mutant: a message is retried one time more than maxRetries allows.
RetriesLeftPlusOne(r) == r.retryCount <= MaxRetries

RetriesLeft(r) == r.retryCount + 1 <= MaxRetries

Leased(r) ==
  [r EXCEPT !.status = "RUNNING", !.claims = @ + 1, !.lease = r.claims + 1,
            !.expires = "live"]

Reclaimed(r) ==
  IF RetriesLeft(r)
    THEN [Leased(r) EXCEPT !.retryCount = @ + 1]
    ELSE [r EXCEPT !.status = "DEAD_LETTER"]

\* The messages the slow path visits before it has its maxLeases claims; the
\* map's order is that of the first claims, any order is allowed here.
VisitSets(room) ==
  IF room = 0 THEN {{}}
  ELSE {V \in SUBSET Expired :
          LET n == Cardinality({m \in V : RetriesLeft(msg[m])})
          IN n = room \/ (n < room /\ V = Expired)}

\* pendingQueue from the new read index on.
Unread(cut) == SubSeq(pending, cut + 1, Len(pending))

\* claimLeases: reads pending up to cut, then visits expired leases.
ClaimLeases(cut, visited) ==
  LET fast == {pending[i] : i \in TakenUpTo(cut)}
  IN /\ msg' = [m \in Messages |->
           IF m \in fast THEN Leased(msg[m])
           ELSE IF m \in visited THEN Reclaimed(msg[m])
           ELSE msg[m]]
     /\ pending' = Unread(cut)
     /\ active' = {m \in active \cup fast :
                     m \notin visited \/ RetriesLeft(msg[m])}

\* The leases claimLeases returns.
ClaimedLeases(cut, visited) ==
  {[message |-> m, id |-> msg[m].claims + 1] :
     m \in {pending[i] : i \in TakenUpTo(cut)}
             \cup {v \in visited : RetriesLeft(msg[v])}}

\* ackLease refuses a lease that was stolen; a message that waits or is dead
\* is completed by any lease it ever had.
AckCompletes(l) ==
  /\ msg[l.message].status # "COMPLETED"
  /\ ~(msg[l.message].lease # l.id /\ msg[l.message].status = "RUNNING")

AckLease(l) ==
  IF AckCompletes(l)
    THEN /\ msg' = [msg EXCEPT ![l.message].status = "COMPLETED",
                               ![l.message].lease = NoLease,
                               ![l.message].expires = "none"]
         /\ active' = active \ {l.message}
         /\ UNCHANGED pending
    ELSE UNCHANGED queue

Retried(r) ==
  [r EXCEPT !.retryCount = IF @ > MaxRetries THEN @ ELSE @ + 1,
            !.lease = NoLease, !.expires = "none"]

\* Mutant: a late nack of a message that was completed is not ignored.
NackCompleted(l) ==
  LET r == Retried(msg[l.message])
      dead == r.retryCount >= MaxRetries
  IN /\ msg' = [msg EXCEPT ![l.message] =
                   IF dead THEN [r EXCEPT !.status = "DEAD_LETTER"]
                   ELSE [r EXCEPT !.status = "PENDING", !.available = "later"]]
     /\ pending' = IF dead THEN pending ELSE Append(pending, l.message)
     /\ active' = active \ {l.message}

\* nackLease compares no lease id.
NackLease(l) ==
  LET r == Retried(msg[l.message])
      dead == r.retryCount >= MaxRetries
  IN IF msg[l.message].status = "COMPLETED"
       THEN UNCHANGED queue
       ELSE /\ msg' = [msg EXCEPT ![l.message] =
                   IF dead THEN [r EXCEPT !.status = "DEAD_LETTER"]
                   ELSE [r EXCEPT !.status = "PENDING", !.available = "later"]]
            /\ pending' = IF dead THEN pending ELSE Append(pending, l.message)
            /\ active' = active \ {l.message}

(* getMetrics *)
PendingCount == Cardinality({m \in Messages : msg[m].status = "PENDING"})
RunningLeases == Cardinality({m \in Messages : msg[m].status = "RUNNING"})

(* The passage of time *)

LeaseExpires(m) ==
  /\ msg[m].status = "RUNNING"
  /\ msg[m].expires = "live"
  /\ msg' = [msg EXCEPT ![m].expires = "expired"]
  /\ UNCHANGED <<pending, active>>

BackoffOver(m) ==
  /\ msg[m].available = "later"
  /\ msg' = [msg EXCEPT ![m].available = "now"]
  /\ UNCHANGED <<pending, active>>
=============================================================================
