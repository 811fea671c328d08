---------------------------- MODULE WebhookOutbox ----------------------------
(***************************************************************************)
(* src/lib/webhooks/webhook-outbox-worker.ts: the outbox of one process    *)
(* (claims and writes go to the map localOutbox, also with PostgreSQL).    *)
(*                                                                         *)
(* claimWebhookBatch marks entries DELIVERING and hands out copies;        *)
(* processWebhookDelivery works on its copy across two awaits and then     *)
(* replaces the stored entry by it, whoever holds the lease by now.        *)
(*                                                                         *)
(* nextAttemptAt is left out: a PENDING entry is always due, and nothing   *)
(* reads the backoff of a FAILED one.                                      *)
(***************************************************************************)
EXTENDS Naturals, FiniteSets

CONSTANTS
  Deliverer,     \* workers that claim and deliver
  MaxEntries,    \* bound: how many events are enqueued
  DeliverLimit,  \* limit of one claim
  MaxAttempts,   \* maxAttempts of an entry
  MaxReplays,    \* bound: administrative replays
  MaxSlow,       \* bound: leases that end while their worker still delivers
  MaxWorkerDeaths  \* bound: workers that die with entries in hand

ASSUME OutboxAssumption ==
  /\ IsFiniteSet(Deliverer)
  /\ {MaxEntries, DeliverLimit, MaxAttempts} \subseteq Nat \ {0}
  /\ {MaxReplays, MaxSlow, MaxWorkerDeaths} \subseteq Nat

VARIABLES
  outbox,    \* the stored entries, by the order of their enqueueing
  copies,    \* the copies in the hands of each worker
  received,  \* history: POSTs of each entry that reached the receiver
  lapses,    \* history: leases of each entry that ended undelivered
  replays,   \* history: replays of each entry
  slow, workerDeaths  \* how often the bounded faults happened

outboxVars == <<outbox, copies, received, lapses, replays, slow, workerDeaths>>

OutboxEntry == 1..MaxEntries

DeliveryStatus ==
  {"ABSENT", "PENDING", "DELIVERING", "DELIVERED", "FAILED", "DEAD_LETTER"}

NoCopy == [pc |-> "none", attempts |-> 0, got |-> FALSE]

OutboxInit ==
  /\ outbox = [e \in OutboxEntry |-> [status |-> "ABSENT", attempts |-> 0, leased |-> FALSE]]
  /\ copies = [w \in Deliverer |-> [e \in OutboxEntry |-> NoCopy]]
  /\ received = [e \in OutboxEntry |-> 0]
  /\ lapses = [e \in OutboxEntry |-> 0]
  /\ replays = [e \in OutboxEntry |-> 0]
  /\ slow = 0 /\ workerDeaths = 0

EnqueueWebhook(e) ==
  /\ outbox[e].status = "ABSENT"
  /\ \A f \in OutboxEntry : f < e => outbox[f].status # "ABSENT"
  /\ outbox' = [outbox EXCEPT ![e].status = "PENDING"]
  /\ UNCHANGED <<copies, received, lapses, replays, slow, workerDeaths>>

\* Mutant: the end of the lease is not looked at.
ClaimableUnexpired(e) == outbox[e].status \in {"PENDING", "DELIVERING"}

\* Mutant: only PENDING entries are claimed.
ClaimablePending(e) == outbox[e].status = "PENDING"

Claimable(e) ==
  outbox[e].status = "PENDING" \/ (outbox[e].status = "DELIVERING" /\ ~outbox[e].leased)

\* The first DeliverLimit of them in the order of the map.
ClaimedBatch ==
  {e \in OutboxEntry :
     Claimable(e) /\ Cardinality({f \in OutboxEntry : f < e /\ Claimable(f)}) < DeliverLimit}

\* A worker that has dealt with its last batch claims the next one.
ClaimWebhookBatch(w) ==
  /\ \A e \in OutboxEntry : copies[w][e] = NoCopy
  /\ ClaimedBatch # {}
  /\ outbox' = [e \in OutboxEntry |->
                  IF e \in ClaimedBatch
                    THEN [outbox[e] EXCEPT !.status = "DELIVERING", !.leased = TRUE]
                    ELSE outbox[e]]
  /\ copies' = [copies EXCEPT ![w] =
                  [e \in OutboxEntry |->
                     IF e \in ClaimedBatch
                       THEN [pc |-> "claimed", attempts |-> outbox[e].attempts, got |-> FALSE]
                       ELSE NoCopy]]
  /\ UNCHANGED <<received, lapses, replays, slow, workerDeaths>>

\* localOutbox.set(entry.id, entry): the copy replaces the entry.
WriteBack(w, e, status) ==
  /\ outbox' = [outbox EXCEPT ![e] = [status |-> status, attempts |-> copies[w][e].attempts,
                                      leased |-> FALSE]]
  /\ copies' = [copies EXCEPT ![w][e] = NoCopy]

\* evaluateOutboundUrl refuses the target.
Blocked(w, e) ==
  /\ copies[w][e].pc = "claimed"
  /\ WriteBack(w, e, "DEAD_LETTER")
  /\ UNCHANGED <<received, lapses, replays, slow, workerDeaths>>

\* The POST leaves; it may or may not reach the receiver.
Post(w, e) ==
  /\ copies[w][e].pc = "claimed"
  /\ \E got \in BOOLEAN :
       /\ copies' = [copies EXCEPT ![w][e] = [pc |-> "posted", attempts |-> @.attempts + 1,
                                              got |-> got]]
       /\ received' = [received EXCEPT ![e] = @ + IF got THEN 1 ELSE 0]
  /\ UNCHANGED <<outbox, lapses, replays, slow, workerDeaths>>

PostOk(w, e) ==
  /\ copies[w][e].pc = "posted" /\ copies[w][e].got
  /\ WriteBack(w, e, "DELIVERED")
  /\ UNCHANGED <<received, lapses, replays, slow, workerDeaths>>

\* Mutant: a status the type does not have.
FailureStatusRetry(attempts, permanent) ==
  IF permanent THEN "DEAD_LETTER" ELSE "RETRY"

\* handleDeliveryFailure.
FailureStatus(attempts, permanent) ==
  IF attempts >= MaxAttempts \/ permanent THEN "DEAD_LETTER" ELSE "FAILED"

\* An error answer (permanent: a 4xx but 408 and 429), a timeout or no
\* connection; the receiver may have taken the event all the same.
PostFails(w, e) ==
  /\ copies[w][e].pc = "posted"
  /\ \E permanent \in BOOLEAN :
       /\ permanent => copies[w][e].got
       /\ WriteBack(w, e, FailureStatus(copies[w][e].attempts, permanent))
  /\ UNCHANGED <<received, lapses, replays, slow, workerDeaths>>

\* replayDeadLetterWebhook.
ReplayWebhook(e) ==
  /\ outbox[e].status \in {"DEAD_LETTER", "FAILED"}
  /\ replays[e] < MaxReplays
  /\ outbox' = [outbox EXCEPT ![e].status = "PENDING", ![e].attempts = 0]
  /\ replays' = [replays EXCEPT ![e] = @ + 1]
  /\ UNCHANGED <<copies, received, lapses, slow, workerDeaths>>

-----------------------------------------------------------------------------

InHand(e) == \E w \in Deliverer : copies[w][e] # NoCopy

\* leaseDurationMs pass.
WebhookLeaseEnds(e) ==
  /\ outbox[e].status = "DELIVERING" /\ outbox[e].leased
  /\ \/ ~InHand(e) /\ UNCHANGED slow
     \/ InHand(e) /\ slow < MaxSlow /\ slow' = slow + 1
  /\ outbox' = [outbox EXCEPT ![e].leased = FALSE]
  /\ lapses' = [lapses EXCEPT ![e] = @ + 1]
  /\ UNCHANGED <<copies, received, replays, workerDeaths>>

\* A worker dies; another one takes its place with empty hands.
DelivererDies(w) ==
  /\ \E e \in OutboxEntry : copies[w][e] # NoCopy
  /\ workerDeaths < MaxWorkerDeaths /\ workerDeaths' = workerDeaths + 1
  /\ copies' = [copies EXCEPT ![w] = [e \in OutboxEntry |-> NoCopy]]
  /\ UNCHANGED <<outbox, received, lapses, replays, slow>>

DelivererStep(w) ==
  \/ ClaimWebhookBatch(w)
  \/ \E e \in OutboxEntry : Blocked(w, e) \/ Post(w, e) \/ PostOk(w, e) \/ PostFails(w, e)

OutboxNext ==
  \/ \E e \in OutboxEntry : EnqueueWebhook(e) \/ ReplayWebhook(e) \/ WebhookLeaseEnds(e)
  \/ \E w \in Deliverer : DelivererStep(w) \/ DelivererDies(w)

OutboxSpec == OutboxInit /\ [][OutboxNext]_outboxVars

\* Workers keep claiming and their requests end; the clock runs.
OutboxFairness ==
  /\ \A w \in Deliverer : WF_outboxVars(DelivererStep(w))
  /\ \A e \in OutboxEntry : WF_outboxVars(WebhookLeaseEnds(e))

-----------------------------------------------------------------------------

OutboxTypeOK ==
  /\ outbox \in [OutboxEntry -> [status : DeliveryStatus, attempts : Nat, leased : BOOLEAN]]
  /\ copies \in [Deliverer -> [OutboxEntry -> [pc : {"none", "claimed", "posted"},
                                               attempts : Nat, got : BOOLEAN]]]
  /\ {received, lapses, replays} \subseteq [OutboxEntry -> Nat]
  /\ slow \in 0..MaxSlow /\ workerDeaths \in 0..MaxWorkerDeaths

\* A receiver gets an event a second time only when a lease ended undelivered
\* or an administrator replayed the event: late copies written over the entry
\* of another worker cause no further deliveries.
DuplicatesExplained ==
  \A e \in OutboxEntry : received[e] <= 1 + lapses[e] + replays[e]

\* Every enqueued or replayed event is decided: it does not stay claimed
\* although workers die with it in their hands.
OutboxSettles ==
  \A e \in OutboxEntry :
    outbox[e].status \in {"PENDING", "DELIVERING"}
      ~> outbox[e].status \in {"DELIVERED", "FAILED", "DEAD_LETTER"}

-----------------------------------------------------------------------------
(* Stated by the code and not kept; README.md says when. *)

\* "Strict Delivery State Machine": DELIVERED is final.
DeliveredIsFinal ==
  [][\A e \in OutboxEntry :
       outbox[e].status = "DELIVERED" => outbox'[e].status = "DELIVERED"]_outboxVars

\* "Exponential Backoff": a FAILED delivery is tried again by itself.
FailedIsRetried ==
  \A e \in OutboxEntry : outbox[e].status = "FAILED" ~> outbox[e].status # "FAILED"
=============================================================================
