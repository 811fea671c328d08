----------------------- MODULE PartitionClusterProofs -----------------------
(***************************************************************************)
(* Theorems about the queue under the cluster's workers, for any number of *)
(* messages, workers and retries: activeLeases holds exactly the running   *)
(* messages, deliveries are bounded, and completed messages stay so.       *)
(***************************************************************************)
EXTENDS PartitionCluster, TLAPS, SequenceTheorems

-----------------------------------------------------------------------------
(* What the queue's methods make of one message *)

\* An entry of the map after a claim, a reclaim and a retry is an entry.
LEMMA MessageWritesType ==
  ASSUME NEW r \in StoredMessage
  PROVE  /\ Leased(r) \in StoredMessage
         /\ Reclaimed(r) \in StoredMessage
         /\ Retried(r) \in StoredMessage
<1>1. Leased(r) \in StoredMessage
  <2>1. r.claims + 1 \in Nat
    BY DEF StoredMessage
  <2>2. Leased(r) = [r EXCEPT !.status = "RUNNING", !.claims = r.claims + 1,
                              !.lease = r.claims + 1, !.expires = "live"]
    BY DEF Leased, StoredMessage
  <2> QED
    BY <2>1, <2>2 DEF StoredMessage
<1>2. Reclaimed(r) \in StoredMessage
  <2>1. CASE RetriesLeft(r)
    <3>1. r.retryCount + 1 \in RetryCounts
      BY <2>1, QueueAssumption DEF RetriesLeft, StoredMessage, RetryCounts
    <3>2. Leased(r).retryCount = r.retryCount
      BY DEF Leased, StoredMessage
    <3>3. [Leased(r) EXCEPT !.retryCount = @ + 1] \in StoredMessage
      BY <1>1, <3>1, <3>2 DEF StoredMessage
    <3> QED
      BY <2>1, <3>3 DEF Reclaimed
  <2>2. CASE ~RetriesLeft(r)
    BY <2>2 DEF Reclaimed, StoredMessage
  <2> QED
    BY <2>1, <2>2
<1>3. Retried(r) \in StoredMessage
  <2>1. (IF r.retryCount > MaxRetries THEN r.retryCount ELSE r.retryCount + 1)
          \in RetryCounts
    BY QueueAssumption DEF StoredMessage, RetryCounts
  <2> QED
    BY <2>1 DEF Retried, StoredMessage, NoLease
<1> QED
  BY <1>1, <1>2, <1>3

\* The status and the counters a message may have together.
MessageInv(r) ==
  /\ r.claims <= MaxRetries + 1
  /\ r.status \in {"UNSENT", "PENDING"} =>
       r.claims <= r.retryCount /\ r.retryCount < MaxRetries
  /\ r.status = "RUNNING" => r.claims <= r.retryCount + 1 /\ r.retryCount <= MaxRetries
  /\ r.status = "DEAD_LETTER" => r.retryCount >= MaxRetries

\* A waiting message may be claimed, a running one reclaimed or given up.
LEMMA ClaimKeepsInv ==
  ASSUME NEW r \in StoredMessage, MessageInv(r)
  PROVE  /\ r.status = "PENDING" => MessageInv(Leased(r))
         /\ r.status = "RUNNING" => MessageInv(Reclaimed(r))
<1>1. /\ r.claims \in Nat /\ r.retryCount \in Nat /\ MaxRetries \in Nat
  BY QueueAssumption DEF StoredMessage, RetryCounts
<1>2. /\ Leased(r).status = "RUNNING" /\ Leased(r).claims = r.claims + 1
      /\ Leased(r).retryCount = r.retryCount
  BY DEF Leased, StoredMessage
<1>3. r.status = "PENDING" => MessageInv(Leased(r))
  BY <1>1, <1>2 DEF MessageInv
<1>4. ASSUME r.status = "RUNNING" PROVE MessageInv(Reclaimed(r))
  <2>1. CASE RetriesLeft(r)
    <3>1. /\ Reclaimed(r).status = "RUNNING"
          /\ Reclaimed(r).claims = r.claims + 1
          /\ Reclaimed(r).retryCount = r.retryCount + 1
      BY <2>1 DEF Reclaimed, Leased, StoredMessage
    <3> QED
      BY <1>1, <1>4, <2>1, <3>1 DEF MessageInv, RetriesLeft
  <2>2. CASE ~RetriesLeft(r)
    <3>1. /\ Reclaimed(r).status = "DEAD_LETTER"
          /\ Reclaimed(r).claims = r.claims
          /\ Reclaimed(r).retryCount = r.retryCount
      BY <2>2 DEF Reclaimed, StoredMessage
    <3> QED
      BY <1>1, <2>2, <3>1 DEF MessageInv, RetriesLeft
  <2> QED
    BY <2>1, <2>2
<1> QED
  BY <1>3, <1>4

\* A message that is not completed may be nacked, by any of its leases.
LEMMA NackKeepsInv ==
  ASSUME NEW r \in StoredMessage, MessageInv(r), r.status # "COMPLETED"
  PROVE  /\ Retried(r).retryCount >= MaxRetries =>
              MessageInv([Retried(r) EXCEPT !.status = "DEAD_LETTER"])
         /\ ~(Retried(r).retryCount >= MaxRetries) =>
              MessageInv([Retried(r) EXCEPT !.status = "PENDING",
                                            !.available = "later"])
<1>1. /\ r.claims \in Nat /\ r.retryCount \in Nat /\ MaxRetries \in Nat
      /\ r.status \in {"UNSENT", "PENDING", "RUNNING", "DEAD_LETTER"}
  BY QueueAssumption DEF StoredMessage, RetryCounts
<1>2. /\ Retried(r).claims = r.claims
      /\ Retried(r).retryCount =
           IF r.retryCount > MaxRetries THEN r.retryCount ELSE r.retryCount + 1
  BY DEF Retried, StoredMessage
<1>3. Retried(r) \in StoredMessage
  BY MessageWritesType
<1> DEFINE dead == [Retried(r) EXCEPT !.status = "DEAD_LETTER"]
           waits == [Retried(r) EXCEPT !.status = "PENDING", !.available = "later"]
<1>4. /\ dead.status = "DEAD_LETTER" /\ dead.claims = r.claims
      /\ dead.retryCount = Retried(r).retryCount
      /\ waits.status = "PENDING" /\ waits.claims = r.claims
      /\ waits.retryCount = Retried(r).retryCount
  BY <1>2, <1>3 DEF StoredMessage
<1>5. ASSUME Retried(r).retryCount >= MaxRetries PROVE MessageInv(dead)
  BY <1>4, <1>5 DEF MessageInv
<1>6. ASSUME ~(Retried(r).retryCount >= MaxRetries) PROVE MessageInv(waits)
  BY <1>1, <1>2, <1>4, <1>6 DEF MessageInv
<1> QED
  BY <1>5, <1>6

-----------------------------------------------------------------------------
(* The queue *)

QueueInv ==
  /\ ActiveIsRunning
  /\ \A m \in Messages : MessageInv(msg[m])

\* A step changes no message that is completed.
KeepsCompleted ==
  \A m \in Messages : msg[m].status = "COMPLETED" => msg'[m].status = "COMPLETED"

\* A write to one message that is not completed, with the matching change of
\* activeLeases, keeps the queue's invariant.
LEMMA OneMessageWrite ==
  ASSUME QueueTypeOK, QueueInv, NEW m \in Messages, NEW r,
         msg' = [msg EXCEPT ![m] = r], MessageInv(r),
         msg[m].status = "COMPLETED" => r.status = "COMPLETED",
         \/ r.status = "RUNNING" /\ msg[m].status = "RUNNING" /\ active' = active
         \/ r.status # "RUNNING" /\ active' = active \ {m}
  PROVE  QueueInv' /\ KeepsCompleted
<1>1. /\ msg'[m] = r
      /\ \A n \in Messages : n # m => msg'[n] = msg[n]
  BY DEF QueueTypeOK
<1>2. ActiveIsRunning'
  BY <1>1 DEF QueueTypeOK, QueueInv, ActiveIsRunning
<1>3. \A n \in Messages : MessageInv(msg'[n])
  BY <1>1 DEF QueueInv
<1>4. KeepsCompleted
  BY <1>1 DEF KeepsCompleted
<1> QED
  BY <1>2, <1>3, <1>4 DEF QueueInv, MessageInv

\* The messages a claim takes from the pending queue wait, and are messages.
LEMMA FastPath ==
  ASSUME QueueTypeOK, NEW cut \in 0..Len(pending)
  PROVE  \A m \in {pending[i] : i \in TakenUpTo(cut)} :
            m \in Messages /\ msg[m].status = "PENDING"
<1> SUFFICES ASSUME NEW i \in TakenUpTo(cut)
             PROVE  pending[i] \in Messages /\ msg[pending[i]].status = "PENDING"
  OBVIOUS
<1>1. i \in 1..Len(pending)
  BY DEF TakenUpTo, QueueTypeOK
<1> QED
  BY <1>1 DEF TakenUpTo, Takes, QueueTypeOK

\* The slow path visits running messages.
LEMMA SlowPath ==
  ASSUME QueueTypeOK, NEW n, NEW visited \in VisitSets(n)
  PROVE  \A m \in visited : m \in Messages /\ msg[m].status = "RUNNING"
  BY DEF VisitSets, Expired, QueueTypeOK

\* claimLeases keeps the queue typed.
LEMMA ClaimType ==
  ASSUME QueueTypeOK, NEW cut \in 0..Len(pending), NEW n,
         NEW visited \in VisitSets(n), ClaimLeases(cut, visited)
  PROVE  QueueTypeOK' /\ ClaimedLeases(cut, visited) \in SUBSET Lease
<1> DEFINE fast == {pending[i] : i \in TakenUpTo(cut)}
<1>1. fast \subseteq Messages /\ visited \subseteq Messages
  BY FastPath, SlowPath
<1>2. msg' = [m \in Messages |->
           IF m \in fast THEN Leased(msg[m])
           ELSE IF m \in visited THEN Reclaimed(msg[m])
           ELSE msg[m]]
  BY DEF ClaimLeases
<1>3. \A m \in Messages : msg[m] \in StoredMessage
  BY DEF QueueTypeOK
<1>4. msg' \in [Messages -> StoredMessage]
  BY <1>2, <1>3, MessageWritesType
<1>5. pending' \in Seq(Messages)
  <2>1. pending' = SubSeq(pending, cut + 1, Len(pending))
    BY DEF ClaimLeases, Unread
  <2>2. /\ cut + 1 \in Int /\ Len(pending) \in Int
        /\ \A i \in (cut + 1)..Len(pending) : pending[i] \in Messages
    BY DEF QueueTypeOK
  <2> QED
    BY <2>1, <2>2, SubSeqProperties
<1>6. active' \in SUBSET Messages
  BY <1>1 DEF ClaimLeases, QueueTypeOK
<1>7. ClaimedLeases(cut, visited) \in SUBSET Lease
  BY <1>1, <1>3 DEF ClaimedLeases, Lease, StoredMessage
<1> QED
  BY <1>4, <1>5, <1>6, <1>7 DEF QueueTypeOK

\* claimLeases keeps the queue's invariant.
LEMMA ClaimQueue ==
  ASSUME QueueTypeOK, QueueInv, NEW cut \in 0..Len(pending), NEW n,
         NEW visited \in VisitSets(n), ClaimLeases(cut, visited)
  PROVE  QueueInv' /\ KeepsCompleted
<1> DEFINE fast == {pending[i] : i \in TakenUpTo(cut)}
<1>1. /\ \A m \in fast : m \in Messages /\ msg[m].status = "PENDING"
      /\ \A m \in visited : m \in Messages /\ msg[m].status = "RUNNING"
  BY FastPath, SlowPath
<1>2. msg' = [m \in Messages |->
           IF m \in fast THEN Leased(msg[m])
           ELSE IF m \in visited THEN Reclaimed(msg[m])
           ELSE msg[m]]
  BY DEF ClaimLeases
<1>3. active' = {m \in active \cup fast : m \notin visited \/ RetriesLeft(msg[m])}
  BY DEF ClaimLeases
<1> HIDE DEF fast
<1>4. ASSUME NEW m \in Messages
      PROVE  /\ MessageInv(msg'[m])
             /\ m \in active' <=> msg'[m].status = "RUNNING"
             /\ msg[m].status = "COMPLETED" => msg'[m].status = "COMPLETED"
  <2>1. /\ msg[m] \in StoredMessage /\ MessageInv(msg[m])
        /\ m \in active <=> msg[m].status = "RUNNING"
    BY DEF QueueTypeOK, QueueInv, ActiveIsRunning
  <2>2. CASE m \in fast
    <3>1. msg'[m] = Leased(msg[m]) /\ msg[m].status = "PENDING"
      BY <1>1, <1>2, <2>2
    <3>2. msg'[m].status = "RUNNING" /\ m \notin visited
      BY <1>1, <2>1, <3>1 DEF Leased, StoredMessage
    <3> QED
      BY <1>3, <2>1, <2>2, <3>1, <3>2, ClaimKeepsInv
  <2>3. CASE m \notin fast /\ m \in visited
    <3>1. msg'[m] = Reclaimed(msg[m]) /\ msg[m].status = "RUNNING"
      BY <1>1, <1>2, <2>3
    <3>2. msg'[m].status = IF RetriesLeft(msg[m]) THEN "RUNNING" ELSE "DEAD_LETTER"
      BY <2>1, <3>1 DEF Reclaimed, Leased, StoredMessage
    <3> QED
      BY <1>3, <2>1, <2>3, <3>1, <3>2, ClaimKeepsInv
  <2>4. CASE m \notin fast /\ m \notin visited
    BY <1>2, <1>3, <2>1, <2>4
  <2> QED
    BY <2>2, <2>3, <2>4
<1> QED
  BY <1>4 DEF QueueInv, ActiveIsRunning, KeepsCompleted, MessageInv

\* ackLease, nackLease, enqueueBatch and the passage of time.
LEMMA AckQueue ==
  ASSUME QueueTypeOK, QueueInv, NEW l \in Lease, AckLease(l)
  PROVE  QueueTypeOK' /\ QueueInv' /\ KeepsCompleted
<1> DEFINE m == l.message
           r == [msg[m] EXCEPT !.status = "COMPLETED", !.lease = NoLease,
                               !.expires = "none"]
<1>1. m \in Messages /\ msg[m] \in StoredMessage /\ MessageInv(msg[m])
  BY DEF Lease, QueueTypeOK, QueueInv
<1>2. CASE UNCHANGED queue
  BY <1>2 DEF queue, QueueTypeOK, QueueInv, ActiveIsRunning, MessageInv, KeepsCompleted
<1>3. CASE ~UNCHANGED queue
  <2>1. /\ msg' = [msg EXCEPT ![m] = r]
        /\ active' = active \ {m}
        /\ pending' = pending
    BY <1>1, <1>3 DEF AckLease, QueueTypeOK
  <2>2. r \in StoredMessage /\ r.status = "COMPLETED" /\ MessageInv(r)
    BY <1>1 DEF StoredMessage, MessageInv, NoLease
  <2>3. QueueTypeOK'
    BY <1>1, <2>1, <2>2 DEF QueueTypeOK
  <2>4. QueueInv' /\ KeepsCompleted
    BY <1>1, <2>1, <2>2, OneMessageWrite
  <2> QED
    BY <2>3, <2>4
<1> QED
  BY <1>2, <1>3

\* A nack, of whatever lease, keeps the queue typed and its invariant.
LEMMA NackQueue ==
  ASSUME QueueTypeOK, QueueInv, NEW l \in Lease, NackLease(l)
  PROVE  QueueTypeOK' /\ QueueInv' /\ KeepsCompleted
<1> DEFINE m == l.message
           t == Retried(msg[m])
           dead == [t EXCEPT !.status = "DEAD_LETTER"]
           waits == [t EXCEPT !.status = "PENDING", !.available = "later"]
<1>1. /\ m \in Messages /\ msg[m] \in StoredMessage /\ MessageInv(msg[m])
      /\ t \in StoredMessage
  BY MessageWritesType DEF Lease, QueueTypeOK, QueueInv
<1>2. CASE msg[m].status = "COMPLETED"
  <2>1. UNCHANGED queue
    BY <1>2 DEF NackLease
  <2> QED
    BY <2>1 DEF queue, QueueTypeOK, QueueInv, ActiveIsRunning, MessageInv, KeepsCompleted
<1>3. CASE msg[m].status # "COMPLETED" /\ t.retryCount >= MaxRetries
  <2>1. /\ msg' = [msg EXCEPT ![m] = dead]
        /\ active' = active \ {m}
        /\ pending' = pending
    BY <1>3 DEF NackLease
  <2>2. dead \in StoredMessage /\ dead.status = "DEAD_LETTER" /\ MessageInv(dead)
    BY <1>1, <1>3, NackKeepsInv DEF StoredMessage
  <2> HIDE DEF dead
  <2>3. QueueTypeOK'
    BY <1>1, <2>1, <2>2 DEF QueueTypeOK
  <2>4. QueueInv' /\ KeepsCompleted
    BY <1>1, <1>3, <2>1, <2>2, OneMessageWrite
  <2> QED
    BY <2>3, <2>4
<1>4. CASE msg[m].status # "COMPLETED" /\ ~(t.retryCount >= MaxRetries)
  <2>1. /\ msg' = [msg EXCEPT ![m] = waits]
        /\ active' = active \ {m}
        /\ pending' = Append(pending, m)
    BY <1>4 DEF NackLease
  <2>2. waits \in StoredMessage /\ waits.status = "PENDING" /\ MessageInv(waits)
    BY <1>1, <1>4, NackKeepsInv DEF StoredMessage
  <2> HIDE DEF waits
  <2>3. QueueTypeOK'
    BY <1>1, <2>1, <2>2 DEF QueueTypeOK
  <2>4. QueueInv' /\ KeepsCompleted
    BY <1>1, <1>4, <2>1, <2>2, OneMessageWrite
  <2> QED
    BY <2>3, <2>4
<1> QED
  BY <1>2, <1>3, <1>4

\* The producer and the clock.
LEMMA EnvQueue ==
  ASSUME QueueTypeOK, QueueInv, NEW m \in Messages,
         Enqueue(m) \/ LeaseExpires(m) \/ BackoffOver(m)
  PROVE  QueueTypeOK' /\ QueueInv' /\ KeepsCompleted
<1>1. /\ msg[m] \in StoredMessage /\ MessageInv(msg[m])
      /\ m \in active <=> msg[m].status = "RUNNING"
  BY DEF QueueTypeOK, QueueInv, ActiveIsRunning
<1>2. CASE Enqueue(m)
  <2> DEFINE r == [msg[m] EXCEPT !.status = "PENDING"]
  <2>1. /\ msg' = [msg EXCEPT ![m] = r] /\ active' = active \ {m}
        /\ pending' = Append(pending, m) /\ msg[m].status = "UNSENT"
    BY <1>1, <1>2 DEF Enqueue, QueueTypeOK
  <2>2. r \in StoredMessage /\ r.status = "PENDING" /\ MessageInv(r)
    BY <1>1, <2>1 DEF StoredMessage, MessageInv
  <2> HIDE DEF r
  <2>3. QueueTypeOK'
    BY <2>1, <2>2 DEF QueueTypeOK
  <2> QED
    BY <2>1, <2>2, <2>3, OneMessageWrite
<1>3. CASE LeaseExpires(m)
  <2> DEFINE r == [msg[m] EXCEPT !.expires = "expired"]
  <2>1. /\ msg' = [msg EXCEPT ![m] = r] /\ UNCHANGED <<pending, active>>
        /\ msg[m].status = "RUNNING"
    BY <1>3 DEF LeaseExpires, QueueTypeOK
  <2>2. r \in StoredMessage /\ r.status = "RUNNING" /\ MessageInv(r)
    BY <1>1, <2>1 DEF StoredMessage, MessageInv
  <2> HIDE DEF r
  <2>3. QueueTypeOK'
    BY <2>1, <2>2 DEF QueueTypeOK
  <2> QED
    BY <2>1, <2>2, <2>3, OneMessageWrite
<1>4. CASE BackoffOver(m)
  <2> DEFINE r == [msg[m] EXCEPT !.available = "now"]
  <2>1. msg' = [msg EXCEPT ![m] = r] /\ UNCHANGED <<pending, active>>
    BY <1>4 DEF BackoffOver, QueueTypeOK
  <2>2. r \in StoredMessage /\ r.status = msg[m].status /\ MessageInv(r)
    BY <1>1 DEF StoredMessage, MessageInv
  <2> HIDE DEF r
  <2>3. QueueTypeOK'
    BY <2>1, <2>2 DEF QueueTypeOK
  <2>4. \/ r.status = "RUNNING" /\ msg[m].status = "RUNNING" /\ active' = active
        \/ r.status # "RUNNING" /\ active' = active \ {m}
    BY <1>1, <2>1, <2>2
  <2> QED
    BY <2>1, <2>2, <2>3, <2>4, OneMessageWrite
<1> QED
  BY <1>2, <1>3, <1>4

-----------------------------------------------------------------------------
(* The cluster *)

\* A worker in its loop has not used up its idle polls.
IdleInv ==
  \A w \in Workers : wk[w].pc \in {"poll", "work"} => wk[w].idle < MaxIdleLoops

\* No step other than the end of a batch counts an idle poll.
LEMMA IdleStep ==
  ASSUME TypeOK, IdleInv, [Next]_vars
  PROVE  /\ IdleInv'
         /\ \A w \in Workers : EndBatch(w) => wk' \in [Workers -> WorkerState]
<1>a. /\ MaxIdleLoops \in Nat \ {0}
      /\ \A w \in Workers : /\ wk[w] \in WorkerState /\ wk[w].idle \in Nat
                            /\ wk[w].pc = "work" => wk[w].idle < MaxIdleLoops
  BY ClusterAssumption DEF TypeOK, WorkerState, IdleInv
<1>b. ASSUME NEW w \in Workers, \A v \in Workers : v # w => wk'[v] = wk[v],
             wk'[w].pc \in {"poll", "work"} => wk'[w].idle < MaxIdleLoops
      PROVE  IdleInv'
  BY <1>b DEF IdleInv
<1>1. ASSUME NEW w \in Workers, ClaimBatch(w) \/ ProcessLease(w) \/ FailLease(w)
      PROVE  IdleInv'
  <2>1. CASE ClaimBatch(w)
    <3>1. PICK t : wk' = [wk EXCEPT ![w].pc = "work", ![w].todo = t]
      BY <2>1 DEF ClaimBatch
    <3>2. /\ \A v \in Workers : v # w => wk'[v] = wk[v]
          /\ wk'[w].idle = wk[w].idle /\ wk[w].pc = "poll"
      BY <2>1, <3>1 DEF ClaimBatch, At, TypeOK, WorkerState
    <3> QED
      BY <1>b, <3>2 DEF IdleInv
  <2>2. CASE ProcessLease(w)
    <3>1. PICK t, r : wk' = [wk EXCEPT ![w].todo = t, ![w].results = r]
      BY <2>2 DEF ProcessLease
    <3>2. /\ \A v \in Workers : v # w => wk'[v] = wk[v]
          /\ wk'[w].idle = wk[w].idle /\ wk[w].pc = "work"
      BY <2>2, <3>1 DEF ProcessLease, At, TypeOK, WorkerState
    <3> QED
      BY <1>b, <3>2 DEF IdleInv
  <2>3. CASE FailLease(w)
    <3>1. PICK t : wk' = [wk EXCEPT ![w].todo = t]
      BY <2>3 DEF FailLease
    <3>2. /\ \A v \in Workers : v # w => wk'[v] = wk[v]
          /\ wk'[w].idle = wk[w].idle /\ wk[w].pc = "work"
      BY <2>3, <3>1 DEF FailLease, At, TypeOK, WorkerState
    <3> QED
      BY <1>b, <3>2 DEF IdleInv
  <2> QED
    BY <1>1, <2>1, <2>2, <2>3
<1>2. ASSUME NEW w \in Workers, EndBatch(w)
      PROVE  IdleInv' /\ wk' \in [Workers -> WorkerState]
  <2> DEFINE n == IF Streaming THEN 0 ELSE IdleLoops(w)
             pc == IF LeavesLoop(w) THEN "done" ELSE "poll"
             x == [PollingWorker EXCEPT !.pc = pc, !.idle = n]
  <2>1. wk' = [wk EXCEPT ![w] = x]
    BY <1>2 DEF EndBatch
  <2>2. n \in 0..MaxIdleLoops
    BY <1>2, <1>a DEF EndBatch, At, IdleLoops
  <2>3. pc = "poll" => n < MaxIdleLoops
    BY <1>a, <2>2 DEF LeavesLoop
  <2>4. pc \in {"done", "poll"}
    OBVIOUS
  <2> HIDE DEF n, pc
  <2>5. x \in WorkerState /\ x.pc = pc /\ x.idle = n
    BY <2>2, <2>4 DEF PollingWorker, WorkerState
  <2> HIDE DEF x
  <2>6. wk' \in [Workers -> WorkerState]
    BY <2>1, <2>5 DEF TypeOK
  <2>7. /\ \A v \in Workers : v # w => wk'[v] = wk[v]
        /\ wk'[w] = x
    BY <2>1 DEF TypeOK
  <2> QED
    BY <1>b, <2>3, <2>4, <2>5, <2>6, <2>7
<1>3. ASSUME NEW w \in Workers, Crash(w) PROVE IdleInv'
  <2>1. /\ \A v \in Workers : v # w => wk'[v] = wk[v]
        /\ wk'[w].pc = "dead"
    BY <1>3 DEF Crash, TypeOK, PollingWorker
  <2> QED
    BY <1>b, <2>1
<1>4. ASSUME UNCHANGED wk PROVE IdleInv'
  BY <1>4 DEF IdleInv
<1>5. IdleInv'
  <2>1. ASSUME NEW m \in Messages, Produce(m) \/ TimePasses(m) PROVE UNCHANGED wk
    BY <2>1 DEF Produce, TimePasses
  <2>2. CASE UNCHANGED vars
    BY <1>4, <2>2 DEF vars
  <2> QED
    BY <1>1, <1>2, <1>3, <1>4, <2>1, <2>2 DEF Next, WorkerStep
<1> QED
  BY <1>2, <1>5

\* Every step of the cluster keeps the types and the queue's invariant, and
\* completed messages.
LEMMA ClusterStep ==
  ASSUME TypeOK, IdleInv, QueueInv, [Next]_vars
  PROVE  TypeOK' /\ QueueInv' /\ KeepsCompleted
<1>a. \A w \in Workers : wk[w] \in WorkerState
  BY DEF TypeOK
<1>b. PollingWorker \in WorkerState
  BY ClusterAssumption DEF PollingWorker, WorkerState
<1>c. ASSUME UNCHANGED queue PROVE QueueTypeOK' /\ QueueInv' /\ KeepsCompleted
  BY <1>c DEF TypeOK, queue, QueueTypeOK, QueueInv, ActiveIsRunning, MessageInv,
              KeepsCompleted
<1>1. ASSUME NEW m \in Messages, Produce(m)
      PROVE  TypeOK' /\ QueueInv' /\ KeepsCompleted
  BY <1>1, EnvQueue DEF Produce, TypeOK
<1>2. ASSUME NEW m \in Messages, TimePasses(m)
      PROVE  TypeOK' /\ QueueInv' /\ KeepsCompleted
  BY <1>2, EnvQueue DEF TimePasses, TypeOK
<1>3. ASSUME NEW w \in Workers, ClaimBatch(w)
      PROVE  TypeOK' /\ QueueInv' /\ KeepsCompleted
  <2>1. PICK cut \in 0..Len(pending) :
          \E visited \in VisitSets(BatchSize - Cardinality(TakenUpTo(cut))) :
            /\ ClaimLeases(cut, visited)
            /\ wk' = [wk EXCEPT ![w].pc = "work",
                                ![w].todo = ClaimedLeases(cut, visited)]
    BY <1>3 DEF ClaimBatch
  <2>2. PICK visited \in VisitSets(BatchSize - Cardinality(TakenUpTo(cut))) :
            /\ ClaimLeases(cut, visited)
            /\ wk' = [wk EXCEPT ![w].pc = "work",
                                ![w].todo = ClaimedLeases(cut, visited)]
    BY <2>1
  <2>3. QueueTypeOK' /\ ClaimedLeases(cut, visited) \in SUBSET Lease
    BY <2>2, ClaimType DEF TypeOK
  <2>4. QueueInv' /\ KeepsCompleted
    BY <2>2, ClaimQueue DEF TypeOK
  <2>5. wk' \in [Workers -> WorkerState]
    BY <1>a, <2>2, <2>3 DEF TypeOK, WorkerState
  <2> QED
    BY <1>3, <2>3, <2>4, <2>5 DEF ClaimBatch, TypeOK
<1>4. ASSUME NEW w \in Workers, ProcessLease(w)
      PROVE  TypeOK' /\ QueueInv' /\ KeepsCompleted
  <2>1. PICK l \in wk[w].todo :
          /\ AckLease(l)
          /\ wk' = [wk EXCEPT ![w].todo = @ \ {l}, ![w].results = @ \cup {l.message}]
    BY <1>4 DEF ProcessLease
  <2>2. l \in Lease /\ l.message \in Messages
    BY <1>a DEF WorkerState, Lease
  <2>3. QueueTypeOK' /\ QueueInv' /\ KeepsCompleted
    BY <2>1, <2>2, AckQueue DEF TypeOK
  <2>4. wk' \in [Workers -> WorkerState]
    BY <1>a, <2>1, <2>2 DEF TypeOK, WorkerState
  <2> QED
    BY <1>4, <2>3, <2>4 DEF ProcessLease, TypeOK
<1>5. ASSUME NEW w \in Workers, FailLease(w)
      PROVE  TypeOK' /\ QueueInv' /\ KeepsCompleted
  <2>1. PICK l \in wk[w].todo :
          NackLease(l) /\ wk' = [wk EXCEPT ![w].todo = @ \ {l}]
    BY <1>5 DEF FailLease
  <2>2. l \in Lease
    BY <1>a DEF WorkerState
  <2>3. QueueTypeOK' /\ QueueInv' /\ KeepsCompleted
    BY <2>1, <2>2, NackQueue DEF TypeOK
  <2>4. wk' \in [Workers -> WorkerState]
    BY <1>a, <2>1 DEF TypeOK, WorkerState
  <2> QED
    BY <1>5, <2>3, <2>4 DEF FailLease, TypeOK
<1>6. ASSUME NEW w \in Workers, EndBatch(w)
      PROVE  TypeOK' /\ QueueInv' /\ KeepsCompleted
  <2>1. staged' \in [Messages -> 0..2]
    BY <1>6 DEF EndBatch, StagedWith, TypeOK
  <2>2. wk' \in [Workers -> WorkerState]
    BY <1>6, IdleStep
  <2> QED
    BY <1>6, <1>c, <2>1, <2>2 DEF EndBatch, TypeOK
<1>7. ASSUME NEW w \in Workers, Crash(w)
      PROVE  TypeOK' /\ QueueInv' /\ KeepsCompleted
  <2>1. wk' \in [Workers -> WorkerState]
    BY <1>7, <1>b DEF Crash, TypeOK, WorkerState
  <2> QED
    BY <1>7, <1>c, <2>1 DEF Crash, TypeOK
<1>8. CASE UNCHANGED vars
  BY <1>8, <1>c DEF vars, queue, TypeOK
<1> QED
  BY <1>1, <1>2, <1>3, <1>4, <1>5, <1>6, <1>7, <1>8 DEF Next, WorkerStep

\* The state a run starts in.
LEMMA ClusterInit == Init => TypeOK /\ IdleInv /\ QueueInv
<1> SUFFICES ASSUME Init PROVE TypeOK /\ IdleInv /\ QueueInv
  OBVIOUS
<1>1. NewMessage \in StoredMessage
  BY QueueAssumption DEF NewMessage, StoredMessage, NoLease, RetryCounts
<1>2. MessageInv(NewMessage)
  BY QueueAssumption DEF NewMessage, MessageInv
<1>3. PollingWorker \in WorkerState
  BY ClusterAssumption DEF PollingWorker, WorkerState
<1>4. TypeOK
  BY <1>1, <1>3 DEF Init, QueueInit, TypeOK, QueueTypeOK
<1>5. IdleInv
  BY ClusterAssumption DEF Init, IdleInv, PollingWorker
<1>6. QueueInv
  BY <1>2 DEF Init, QueueInit, QueueInv, ActiveIsRunning, NewMessage
<1> QED
  BY <1>4, <1>5, <1>6

\* Types, and the queue's safety: the slow path finds every expired lease and
\* no other, and no message is delivered more than maxRetries + 1 times,
\* whatever acks and nacks of stolen leases arrive.
THEOREM QueueSafety == Spec => [](TypeOK /\ ActiveIsRunning /\ DeliveryBound)
<1>1. QueueInv => ActiveIsRunning /\ DeliveryBound
  BY DEF QueueInv, MessageInv, DeliveryBound
<1>2. TypeOK /\ IdleInv /\ QueueInv /\ [Next]_vars
        => TypeOK' /\ IdleInv' /\ QueueInv'
  BY ClusterStep, IdleStep
<1> QED
  BY <1>1, <1>2, ClusterInit, PTL DEF Spec

\* A message that was acknowledged is never delivered, retried or dead-lettered
\* again, however late the other leases of the message are answered.
THEOREM CompletedForGood == Spec => CompletedIsFinal
<1>1. TypeOK /\ IdleInv /\ QueueInv /\ [Next]_vars
        => TypeOK' /\ IdleInv' /\ QueueInv'
  BY ClusterStep, IdleStep
<1>2. TypeOK /\ IdleInv /\ QueueInv /\ [Next]_vars
        => [\A m \in Messages :
              msg[m].status = "COMPLETED" => msg'[m].status = "COMPLETED"]_vars
  BY ClusterStep DEF KeepsCompleted
<1> QED
  BY <1>1, <1>2, ClusterInit, PTL DEF Spec, CompletedIsFinal
=============================================================================
