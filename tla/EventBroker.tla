----------------------------- MODULE EventBroker -----------------------------
(***************************************************************************)
(* src/lib/events/event-broker.ts with the domain event store it replays   *)
(* from (src/lib/storage/unified-store.ts) and the SSE route that          *)
(* subscribes and catches up (src/app/api/v1/stream/events/route.ts): one  *)
(* process, one tenant, one client that loses its connection and comes     *)
(* back with the id of the last event it received.                         *)
(*                                                                         *)
(* With PostgreSQL a published event reaches the subscribers through a     *)
(* NOTIFY that comes back later; without it, or when the NOTIFY fails, it  *)
(* is emitted locally.  An event is its sequence number; 0 is the id of    *)
(* the welcome message, which no store knows.                              *)
(***************************************************************************)
EXTENDS Naturals, FiniteSets, Sequences, SequencesExt

CONSTANTS
  CacheLimit,   \* maxCacheSize
  StoreLimit,   \* the 5000 events the store keeps
  ReplayLimit,  \* the limit of listSince
  MaxPublished, \* bound: events
  MaxReconnects \* bound: connections

ASSUME BrokerAssumption ==
  /\ {CacheLimit, StoreLimit, ReplayLimit} \subseteq Nat \ {0}
  /\ {MaxPublished, MaxReconnects} \subseteq Nat

VARIABLES
  listening,    \* isListeningPg: "off" (no PostgreSQL), "starting", "on", "failed"
  published,    \* sequenceCounter
  store,        \* localDomainEvents
  cache,        \* transientCache
  calling,      \* events whose NOTIFY has no answer yet
  notified,     \* notifications on their way back
  client,       \* connected; the last id it received; what it has received
  reconnects,
  excused       \* history: something happened that may cost the client an event

brokerVars ==
  <<listening, published, store, cache, calling, notified, client, reconnects, excused>>

BrokerInit ==
  /\ listening \in {"off", "starting"}
  /\ published = 0 /\ store = << >> /\ cache = << >>
  /\ calling = << >> /\ notified = << >>
  /\ client = [connected |-> FALSE, last |-> 0, received |-> {}]
  /\ reconnects = 0 /\ excused = FALSE

\* push, and shift when the limit is exceeded.
Pushed(s, e, limit) ==
  LET t == Append(s, e) IN IF Len(t) > limit THEN Tail(t) ELSE t

\* What a connected client's stream gets: the events of log at the positions is,
\* in order; the browser remembers the last id.
Sent(c, log, is) ==
  [c EXCEPT !.received = @ \cup {log[i] : i \in is},
            !.last = IF is = {} THEN @ ELSE log[Max(is)]]

\* localEmitter.emit.
Emitted(e) == IF client.connected THEN Sent(client, <<e>>, {1}) ELSE client

\* An earlier event is still on its way when e is emitted.
Overtakes(e) == \E x \in Range(calling) \cup Range(notified) : x < e

\* initPgListener: LISTEN succeeds or throws.
ListenerStarts ==
  /\ listening = "starting"
  /\ listening' \in {"on", "failed"}
  /\ UNCHANGED <<published, store, cache, calling, notified, client, reconnects, excused>>

\* publish up to the await of NOTIFY, or to its end where there is no NOTIFY.
PublishEvent ==
  LET e == published + 1 IN
  /\ published < MaxPublished
  /\ published' = e
  /\ store' = Pushed(store, e, StoreLimit)
  /\ cache' = Pushed(cache, e, CacheLimit)
  /\ IF listening = "on"
       THEN calling' = Append(calling, e) /\ UNCHANGED client
       ELSE client' = Emitted(e) /\ UNCHANGED calling
  /\ excused' = (\/ excused \/ Len(store) >= StoreLimit
                 \/ listening # "on" /\ Overtakes(e))
  /\ UNCHANGED <<listening, notified, reconnects>>

\* NOTIFY is accepted: publish returns, the notification is on its way.
NotifyAccepted ==
  /\ calling # << >> /\ listening = "on"
  /\ notified' = Append(notified, Head(calling))
  /\ calling' = Tail(calling)
  /\ UNCHANGED <<listening, published, store, cache, client, reconnects, excused>>

\* NOTIFY fails: publish falls back to the local emitter.
NotifyFails ==
  /\ calling # << >>
  /\ client' = Emitted(Head(calling))
  /\ excused' = (excused \/ Overtakes(Head(calling)))
  /\ calling' = Tail(calling)
  /\ UNCHANGED <<listening, published, store, cache, notified, reconnects>>

\* The notification comes back: cached again and emitted.
NotificationArrives ==
  /\ notified # << >>
  /\ cache' = Pushed(cache, Head(notified), CacheLimit)
  /\ client' = Emitted(Head(notified))
  /\ notified' = Tail(notified)
  /\ UNCHANGED <<listening, published, store, calling, reconnects, excused>>

\* The listening connection fails, for good; what was on its way back is lost.
ListenerFails ==
  /\ listening = "on" /\ listening' = "failed"
  /\ notified' = << >>
  /\ excused' = (excused \/ notified # << >>)
  /\ UNCHANGED <<published, store, cache, calling, client, reconnects>>

-----------------------------------------------------------------------------

\* The sequence number of the last id: found in the cache, or zero.
SeqThreshold(last) == IF last \in Range(cache) THEN last ELSE 0

After(threshold) == {i \in DOMAIN store : store[i] > threshold}

\* Mutant: listSince stops one event early.
MissedShort(threshold) ==
  {i \in After(threshold) : Cardinality({j \in After(threshold) : j <= i}) < ReplayLimit}

\* listSince: where the oldest ReplayLimit events after the threshold are.
Missed(threshold) ==
  {i \in After(threshold) : Cardinality({j \in After(threshold) : j < i}) < ReplayLimit}

\* The cache behind the first copy of the event.
CachedAfter(last) == {i \in DOMAIN cache : \E j \in 1..(i - 1) : cache[j] = last}

\* getEventsSince: from the store, or from the cache when that has nothing.
CaughtUp(c, last) ==
  LET missed == Missed(SeqThreshold(last))
  IN IF missed # {} THEN Sent(c, store, missed) ELSE Sent(c, cache, CachedAfter(last))

\* The SSE route: welcome, catch-up if an id is given, subscription.  A first
\* connection gives none, and is owed nothing published before it.
Connect ==
  LET welcomed == [client EXCEPT !.connected = TRUE, !.last = 0] IN
  /\ ~client.connected
  /\ reconnects < MaxReconnects /\ reconnects' = reconnects + 1
  /\ IF reconnects = 0
       THEN client' = [welcomed EXCEPT !.received = 1..published] /\ UNCHANGED excused
       ELSE /\ client' = CaughtUp(welcomed, client.last)
            /\ excused' = (excused \/ published - SeqThreshold(client.last) > ReplayLimit)
  /\ UNCHANGED <<listening, published, store, cache, calling, notified>>

\* The stream is cancelled: unsubscribed.
Disconnect ==
  /\ client.connected
  /\ client' = [client EXCEPT !.connected = FALSE]
  /\ UNCHANGED <<listening, published, store, cache, calling, notified, reconnects, excused>>

BrokerNext ==
  \/ ListenerStarts
  \/ PublishEvent
  \/ NotifyAccepted
  \/ NotifyFails
  \/ NotificationArrives
  \/ ListenerFails
  \/ Connect
  \/ Disconnect

BrokerSpec == BrokerInit /\ [][BrokerNext]_brokerVars

-----------------------------------------------------------------------------

\* The broker's fields; the cache and the store stay within their limits,
\* duplicates from notifications included.
BrokerTypeOK ==
  /\ listening \in {"off", "starting", "on", "failed"}
  /\ published \in 0..MaxPublished /\ reconnects \in 0..MaxReconnects
  /\ store \in Seq(1..published) /\ Len(store) <= StoreLimit
  /\ cache \in Seq(1..published) /\ Len(cache) <= CacheLimit
  /\ calling \in Seq(1..published) /\ notified \in Seq(1..published)
  /\ client \in [connected : BOOLEAN, last : 0..published, received : SUBSET (1..published)]
  /\ excused \in BOOLEAN

\* A connected client has received every event that is not still on its way,
\* whatever it missed while it was away, unless one of four things happened:
\* the store dropped an event, the catch-up was longer than one replay, a
\* notification was lost with the listener, or an event overtook an earlier one.
GapOnlyWhenExcused ==
  client.connected /\ ~excused =>
    (1..published) \ (Range(calling) \cup Range(notified)) \subseteq client.received

\* Not kept: the same without the excuse.  A client that was away for more
\* than ReplayLimit events gets the oldest of them, then the live ones.
ReplayIsComplete ==
  client.connected =>
    (1..published) \ (Range(calling) \cup Range(notified)) \subseteq client.received
=============================================================================
