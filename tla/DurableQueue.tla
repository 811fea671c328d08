---------------------------- MODULE DurableQueue ----------------------------
(***************************************************************************)
(* src/lib/reconciliation/distributed/durable-queue.ts: the partitioned    *)
(* event log with one consumer group, its leases, dead letters and the     *)
(* watermarks that hold producers back.  Methods do not await: one action  *)
(* is one call.  A lease is identified by its event and the attempt it was *)
(* granted for (every grant of an event raises attempts).                  *)
(*                                                                         *)
(* The hash of a partition id is any partition.  Producers and consumers   *)
(* are external: they use the queue the way its tests do.                  *)
(***************************************************************************)
EXTENDS Integers, FiniteSets, Sequences, SequencesExt

CONSTANTS
  Consumer, Producer,
  PartitionCount,
  HighWatermark, LowWatermark,
  QueueRetries,    \* maxRetries
  PollLimit,       \* maxMessages of a poll
  PublishSize,     \* messages of one publishBatch
  MaxEvents,       \* bound: no batch is published once the log is this long
  MaxRebalances    \* bound: consumers that join or leave

ASSUME DurableQueueAssumption ==
  /\ IsFiniteSet(Producer)
  /\ {PartitionCount, QueueRetries, PollLimit, PublishSize} \subseteq Nat \ {0}
  /\ {HighWatermark, LowWatermark, MaxEvents, MaxRebalances} \subseteq Nat
  /\ LowWatermark < HighWatermark

VARIABLES
  events,       \* per partition: its QueuedEvents in offset order
  queuedCount,  \* totalQueuedCount
  deadLetters,  \* deadLetterCount
  offsets,      \* committedOffsets of the group (-1: none)
  members,      \* the consumer group, in the order of the map
  owns,         \* assignedPartitions of each member
  leases,       \* the leases each consumer holds
  producer,     \* idle; waiting (a drain listener); clear (may publish)
  rebalances,   \* how many consumers joined or left
  lost          \* history: consumers that died without unregistering

queueVars == <<events, queuedCount, deadLetters, offsets, members, owns, leases,
               producer, rebalances, lost>>

Partition == 0..(PartitionCount - 1)

NewEvent == [status |-> "UNCOMMITTED", attempts |-> 0, expired |-> FALSE]

DurableQueueInit ==
  /\ events = [p \in Partition |-> << >>]
  /\ queuedCount = 0 /\ deadLetters = 0
  /\ offsets = [p \in Partition |-> -1]
  /\ members = << >>
  /\ owns = [c \in Consumer |-> {}]
  /\ leases = [c \in Consumer |-> {}]
  /\ producer = [q \in Producer |-> "idle"]
  /\ rebalances = 0 /\ lost = {}

\* The events as pairs of a partition and a position.
Slots == UNION {{<<p, i>> : i \in 1..Len(events[p])} : p \in Partition}
EventAt(s) == events[s[1]][s[2]]

-----------------------------------------------------------------------------
(* Producers *)

isBackpressured == queuedCount >= HighWatermark

\* awaitDrain resolves at once or registers a listener.
AwaitDrain(q) ==
  /\ producer[q] = "idle"
  /\ Cardinality(Slots) < MaxEvents
  /\ producer' = [producer EXCEPT ![q] = IF isBackpressured THEN "waiting" ELSE "clear"]
  /\ UNCHANGED <<events, queuedCount, deadLetters, offsets, members, owns, leases,
                 rebalances, lost>>

\* publishBatch; other producers may have published since the check.
PublishBatch(q, p) ==
  /\ producer[q] = "clear"
  /\ events' = [events EXCEPT ![p] = @ \o [i \in 1..PublishSize |-> NewEvent]]
  /\ queuedCount' = queuedCount + PublishSize
  /\ producer' = [producer EXCEPT ![q] = "idle"]
  /\ UNCHANGED <<deadLetters, offsets, members, owns, leases, rebalances, lost>>

\* Mutant: listeners are called below the mark only.
DrainedBelow(count) ==
  IF count < LowWatermark
    THEN [q \in Producer |-> IF producer[q] = "waiting" THEN "clear" ELSE producer[q]]
    ELSE producer

\* checkDrainThreshold: every listener is called.
Drained(count) ==
  IF count <= LowWatermark
    THEN [q \in Producer |-> IF producer[q] = "waiting" THEN "clear" ELSE producer[q]]
    ELSE producer

-----------------------------------------------------------------------------
(* The consumer group *)

\* Mutant: a member keeps what it had.
RebalancedOnto(ms) ==
  [c \in Consumer |->
     owns[c] \cup {p \in Partition : ms # << >> /\ ms[(p % Len(ms)) + 1] = c}]

\* rebalanceGroup: round robin over the members; nothing for an empty group.
Rebalanced(ms) ==
  IF ms = << >> THEN [c \in Consumer |-> {}]
  ELSE [c \in Consumer |-> {p \in Partition : ms[(p % Len(ms)) + 1] = c}]

Regroup(ms) ==
  /\ rebalances < MaxRebalances /\ rebalances' = rebalances + 1
  /\ members' = ms /\ owns' = Rebalanced(ms)
  /\ UNCHANGED <<events, queuedCount, deadLetters, offsets, leases, producer, lost>>

RegisterConsumer(c) ==
  /\ c \notin lost
  /\ Regroup(IF Contains(members, c) THEN members ELSE Append(members, c))

UnregisterConsumer(c) ==
  /\ c \notin lost
  /\ \E i \in DOMAIN members : members[i] = c /\ Regroup(RemoveAt(members, i))

\* A consumer dies; nothing removes it from the group.
ConsumerDies(c) ==
  /\ c \notin lost /\ Contains(members, c)
  /\ lost' = lost \cup {c}
  /\ leases' = [leases EXCEPT ![c] = {}]
  /\ UNCHANGED <<events, queuedCount, deadLetters, offsets, members, owns, producer, rebalances>>

-----------------------------------------------------------------------------
(* pollLeases *)

Available(c) ==
  {s \in Slots : /\ s[1] \in owns[c]
                 /\ EventAt(s).status = "UNCOMMITTED" \/ (EventAt(s).status = "ASSIGNED" /\ EventAt(s).expired)}

NextAttempt(e) == e.attempts + IF e.status = "ASSIGNED" THEN 1 ELSE 0

Exhausted(c) == {s \in Available(c) : NextAttempt(EventAt(s)) >= QueueRetries}

Before(s, t) == s[1] < t[1] \/ (s[1] = t[1] /\ s[2] < t[2])

\* The scan goes through partitions and offsets in order and stops once it has
\* granted PollLimit leases; what it meets exhausted before that is dead.
Reached(among, takeable) ==
  {s \in among : Cardinality({t \in takeable : Before(t, s)}) < PollLimit}

GrantedEvents(c) == LET takeable == Available(c) \ Exhausted(c) IN Reached(takeable, takeable)
Dead(c) == LET takeable == Available(c) \ Exhausted(c) IN Reached(Exhausted(c), takeable)

Polled(granted, dead, s) ==
  IF s \in granted
    THEN [status |-> "ASSIGNED", attempts |-> NextAttempt(EventAt(s)), expired |-> FALSE]
  ELSE IF s \in dead THEN [EventAt(s) EXCEPT !.status = "DEAD_LETTER"]
  ELSE EventAt(s)

\* Math.max(0, count - 1), k times.
Lowered(count, k) == IF count > k THEN count - k ELSE 0

PollLeases(c) ==
  LET granted == GrantedEvents(c)
      dead == Dead(c)
  IN /\ c \notin lost /\ owns[c] # {}
     /\ granted \cup dead # {}
     /\ events' = [p \in Partition |->
                     [i \in DOMAIN events[p] |-> Polled(granted, dead, <<p, i>>)]]
     /\ leases' = [leases EXCEPT ![c] =
                     @ \cup {[slot |-> s, attempt |-> NextAttempt(EventAt(s))] : s \in granted}]
     /\ deadLetters' = deadLetters + Cardinality(dead)
     /\ queuedCount' = Lowered(queuedCount, Cardinality(dead))
     /\ UNCHANGED <<offsets, members, owns, producer, rebalances, lost>>

-----------------------------------------------------------------------------
(* commitLease *)

Stolen(l) == EventAt(l.slot).status = "ASSIGNED" /\ EventAt(l.slot).attempts # l.attempt

\* True for a COMMITTED event, false for a stolen lease; nothing changes.
CommitWithoutEffect(c, l) ==
  /\ l \in leases[c]
  /\ EventAt(l.slot).status = "COMMITTED" \/ Stolen(l)
  /\ leases' = [leases EXCEPT ![c] = @ \ {l}]
  /\ UNCHANGED <<events, queuedCount, deadLetters, offsets, members, owns, producer,
                 rebalances, lost>>

CommitLease(c, l) ==
  /\ l \in leases[c]
  /\ EventAt(l.slot).status # "COMMITTED" /\ ~Stolen(l)
  /\ LET p == l.slot[1]
         i == l.slot[2]
     IN /\ events' = [events EXCEPT ![p][i].status = "COMMITTED", ![p][i].expired = FALSE]
        /\ offsets' = [offsets EXCEPT ![p] = IF i - 1 > @ THEN i - 1 ELSE @]
  /\ queuedCount' = Lowered(queuedCount, 1)
  /\ producer' = Drained(queuedCount')
  /\ leases' = [leases EXCEPT ![c] = @ \ {l}]
  /\ UNCHANGED <<deadLetters, members, owns, rebalances, lost>>

\* leaseDurationMs pass.
EventLeaseEnds(s) ==
  /\ s \in Slots /\ EventAt(s).status = "ASSIGNED" /\ ~EventAt(s).expired
  /\ events' = [events EXCEPT ![s[1]][s[2]].expired = TRUE]
  /\ UNCHANGED <<queuedCount, deadLetters, offsets, members, owns, leases, producer,
                 rebalances, lost>>

DurableQueueNext ==
  \/ \E q \in Producer : AwaitDrain(q) \/ \E p \in Partition : PublishBatch(q, p)
  \/ \E c \in Consumer :
       \/ RegisterConsumer(c) \/ UnregisterConsumer(c) \/ ConsumerDies(c) \/ PollLeases(c)
       \/ \E l \in leases[c] : CommitLease(c, l) \/ CommitWithoutEffect(c, l)
  \/ \E s \in Slots : EventLeaseEnds(s)

DurableQueueSpec == DurableQueueInit /\ [][DurableQueueNext]_queueVars

-----------------------------------------------------------------------------

OpenEvents == {s \in Slots : EventAt(s).status \in {"UNCOMMITTED", "ASSIGNED"}}

DurableQueueTypeOK ==
  /\ \A s \in Slots : EventAt(s) \in [status : {"UNCOMMITTED", "ASSIGNED", "COMMITTED", "DEAD_LETTER"},
                                  attempts : 0..(QueueRetries - 1), expired : BOOLEAN]
  /\ queuedCount \in Nat /\ deadLetters \in Nat
  /\ offsets \in [Partition -> Int]
  /\ Range(members) \subseteq Consumer
  /\ owns \in [Consumer -> SUBSET Partition]
  /\ members # << >> => \A p \in Partition : Cardinality({c \in Consumer : p \in owns[c]}) = 1
  /\ \A c \in Consumer : leases[c] \subseteq [slot : Slots, attempt : Nat]
  /\ producer \in [Producer -> {"idle", "waiting", "clear"}]
  /\ lost \subseteq Consumer

\* The count the watermarks are compared with never exceeds the events that
\* are still to be worked on, whatever is dead-lettered, stolen or committed
\* late: a producer is never held back by work that is over.
QueuedNeverOver == queuedCount <= Cardinality(OpenEvents)

\* The watermark bounds the count although every producer tests it before an
\* await and publishes after it.
BackpressureBound ==
  queuedCount <= HighWatermark - 1 + Cardinality(Producer) * PublishSize

\* No wake-up is lost: while a producer waits for drain the count is above the
\* low watermark, so that commits are still to come, unless events were
\* dead-lettered (which lowers the count and wakes nobody).
NoLostWakeup ==
  \A q \in Producer :
    producer[q] = "waiting" /\ deadLetters = 0
      => queuedCount > LowWatermark /\ OpenEvents # {}

\* The count stays within its two bounds, and a producer that waits for it to
\* fall is woken (durable-queue.ts 206).
BackpressureSound == QueuedNeverOver /\ BackpressureBound /\ NoLostWakeup

-----------------------------------------------------------------------------
(* Stated by the code and not kept; README.md says when. *)

\* "Resume threshold": producers are woken at the low watermark.
WokenWhenLow ==
  \A q \in Producer : producer[q] = "waiting" => queuedCount > LowWatermark

\* "consumer group offset commits": what a committed offset covers is done.
OffsetCoversCommitted ==
  \A s \in Slots : s[2] - 1 <= offsets[s[1]] => EventAt(s).status \in {"COMMITTED", "DEAD_LETTER"}
=============================================================================
