---------------------------- MODULE StoresProofs ----------------------------
(***************************************************************************)
(* Theorems about the components that keep a store of their own.           *)
(*                                                                         *)
(* CrossPartitionRegistry, for any number of workers, partitions,          *)
(* settlements and versions: no settlement is consumed twice, versions     *)
(* fence off stale commits, and, when every settlement has a UTR of its    *)
(* own and nobody claims past the leases, a lease is a reservation.        *)
(*                                                                         *)
(* DurableQueue, for any number of partitions, producers and consumers:    *)
(* backpressure holds the queue near its high watermark and no producer    *)
(* waits below the low one.                                                *)
(*                                                                         *)
(* EventBroker, for any limits of the cache, the store and the replay: a   *)
(* connected client lacks no event that is not on its way, unless one of   *)
(* the four named things happened.                                         *)
(*                                                                         *)
(* JobEnqueue, for any number of calls and processes: all are told the one *)
(* job of the table, until a statement fails without effect.               *)
(*                                                                         *)
(* MCStores, the sum of these with MatchingEngine and InvoiceSolver: its   *)
(* type invariant, from the inductive invariants of all six.               *)
(***************************************************************************)
EXTENDS MCStores, MatchingProofs, TLAPS, FiniteSetTheorems, SequenceTheorems,
        WellFoundedInduction

(* The cross-partition registry. *)

\* A granted entry is an entry, with a version of its own.
LEMMA GrantedType ==
  ASSUME NEW e \in Entry, NEW w \in Workers, e.version < VersionCap
  PROVE  Granted(e, w) \in Entry /\ Granted(e, w).version = e.version + 1
<1>1. e.version + 1 \in Versions
  BY RegistryAssumption DEF Entry, Versions
<1> QED
  BY <1>1 DEF Entry, Granted

\* Spending tickets leaves tickets.
LEMMA SpentType ==
  ASSUME TypeOK, NEW w, NEW u
  PROVE  Spent(w, u) \in SUBSET Ticket
  BY DEF TypeOK, Spent, Ticket

\* A spent ticket is one that was there before, live only if it was.
LEMMA SpentFrom ==
  ASSUME TypeOK, NEW w, NEW u, NEW x \in Spent(w, u)
  PROVE  \E t \in tickets :
           /\ x.worker = t.worker /\ x.utr = t.utr /\ x.record = t.record
           /\ x.version = t.version
           /\ x.live => x = t /\ ~(t.worker = w /\ t.utr = u)
  BY DEF TypeOK, Spent, Ticket

\* The ticket acquireLease answers with is a ticket.
LEMMA NewTicketType ==
  ASSUME TypeOK, NEW w \in Workers, NEW u \in Utrs, Open(index[u]),
         index[u].version < VersionCap
  PROVE  [worker |-> w, utr |-> u, record |-> index[u].record,
          version |-> Granted(index[u], w).version, live |-> TRUE] \in Ticket
<1>1. index[u] \in Entry
  BY DEF TypeOK
<1>2. index[u].record \in Settlements
  BY <1>1 DEF Open, Entry
<1>3. Granted(index[u], w).version \in Versions
  BY <1>1, GrantedType DEF Entry
<1> QED
  BY <1>2, <1>3 DEF Ticket

\* Every action keeps every variable in its type.
LEMMA TypeStep ==
  ASSUME TypeOK, [Next]_vars
  PROVE  TypeOK'
<1>a. ASSUME NEW s \in Settlements, Win(s) PROVE wins' \in [Settlements -> 0..2]
  BY <1>a DEF TypeOK, Win
<1>b. \A u \in Utrs : index[u] \in Entry
  BY DEF TypeOK
<1>1. ASSUME NEW s \in Settlements, RegisterSettlement(s) PROVE TypeOK'
  <2>1. FreshEntry(s) \in Entry /\ UtrOf[s] \in Utrs
    BY RegistryAssumption DEF FreshEntry, Entry, Versions
  <2> QED
    BY <1>1, <2>1 DEF TypeOK, RegisterSettlement
<1>2. ASSUME NEW w \in Workers, NEW u \in Utrs, AcquireLease(w, u) PROVE TypeOK'
  <2>1. Granted(index[u], w) \in Entry
    BY <1>2, <1>b, GrantedType DEF AcquireLease
  <2>2. tickets' \in SUBSET Ticket
    BY <1>2, NewTicketType, SpentType DEF AcquireLease, Acquirable
  <2> QED
    BY <1>2, <2>1, <2>2 DEF TypeOK, AcquireLease
<1>3. ASSUME NEW w \in Workers, NEW u \in Utrs, ReleaseLease(w, u) PROVE TypeOK'
  <2>1. index' \in [Utrs -> Entry]
    BY <1>3, <1>b DEF TypeOK, ReleaseLease, Entry
  <2> QED
    BY <1>3, <2>1, SpentType DEF TypeOK, ReleaseLease
<1>4. ASSUME NEW t \in tickets, NEW p \in Partitions, CommitConsumption(t, p)
      PROVE  TypeOK'
  <2>1. t.utr \in Utrs
    BY DEF TypeOK, Ticket
  <2>2. index[t.utr].record \in Settlements
    BY <1>4, <1>b, <2>1 DEF CommitConsumption, Commits, Open, Entry
  <2>3. index' \in [Utrs -> Entry]
    BY <1>4, <1>b, <2>1 DEF TypeOK, CommitConsumption, Entry
  <2> QED
    BY <1>4, <1>a, <2>2, <2>3, SpentType DEF TypeOK, CommitConsumption
<1>5. ASSUME NEW p \in Partitions, NEW u \in Utrs, ClaimCrossPartitionCandidate(p, u)
      PROVE  TypeOK'
  <2>1. index[u].record \in Settlements
    BY <1>5, <1>b DEF ClaimCrossPartitionCandidate, Open, Entry
  <2>2. index' \in [Utrs -> Entry]
    BY <1>5, <1>b DEF TypeOK, ClaimCrossPartitionCandidate, Entry
  <2> QED
    BY <1>5, <1>a, <2>1, <2>2 DEF TypeOK, ClaimCrossPartitionCandidate
<1>6. ASSUME NEW t \in tickets, LeaseExpires(t) PROVE TypeOK'
  <2>1. t.utr \in Utrs /\ [t EXCEPT !.live = FALSE] \in Ticket
    BY DEF TypeOK, Ticket
  <2>2. index' \in [Utrs -> Entry]
    BY <1>6, <1>b, <2>1 DEF TypeOK, LeaseExpires, Entry
  <2> QED
    BY <1>6, <2>1, <2>2 DEF TypeOK, LeaseExpires
<1>7. CASE UNCHANGED vars
  BY <1>7 DEF vars, TypeOK
<1> QED
  BY <1>1, <1>2, <1>3, <1>4, <1>5, <1>6, <1>7 DEF Next

\* The empty index is typed.
LEMMA TypeInit == Init => TypeOK
<1>1. FreshEntry(NoSettlement) \in Entry
  BY RegistryAssumption DEF FreshEntry, Entry, Versions
<1> QED
  BY <1>1 DEF Init, TypeOK

\* Every variable stays in its type.
THEOREM RegistryTypeCorrect == Spec => []TypeOK
<1> QED
  BY TypeInit, TypeStep, PTL DEF Spec

-----------------------------------------------------------------------------
(* Consumption and fencing *)

\* An entry belongs to a registered settlement of its UTR, and so does a ticket.
KeyInv ==
  /\ \A u \in Utrs :
       index[u].record # NoSettlement =>
         index[u].record \in registered /\ UtrOf[index[u].record] = u
  /\ \A t \in tickets : t.record \in registered

\* A settlement that was handed out stays marked as long as it is indexed.
WinInv ==
  \A s \in Settlements :
    /\ wins[s] <= 1
    /\ wins[s] > 0 =>
         /\ s \in registered
         /\ index[UtrOf[s]].record = s => index[UtrOf[s]].consumedBy # NoPartition

\* An entry's version is the newest of its tickets', and its owner, if it has
\* one, is the worker with that ticket.
FenceInv ==
  \A t \in tickets :
    index[t.utr].record = t.record =>
      /\ t.version <= index[t.utr].version
      /\ t.version = index[t.utr].version =>
           index[t.utr].owner = t.worker \/ index[t.utr].owner = NoWorker

RegInv == KeyInv /\ WinInv /\ FenceInv

\* What an action that keeps the records and versions of the index does to the
\* tickets and the owners decides about the keys and the fence.
LEMMA KeepsKeys ==
  ASSUME TypeOK, TypeOK', KeyInv, FenceInv, registered' = registered,
         \A u \in Utrs :
            /\ index'[u].record = index[u].record
            /\ index'[u].version = index[u].version
            /\ index'[u].owner = index[u].owner \/ index'[u].owner = NoWorker,
         \A x \in tickets' : \E t \in tickets :
            x.worker = t.worker /\ x.utr = t.utr /\ x.record = t.record
              /\ x.version = t.version
  PROVE  KeyInv' /\ FenceInv'
<1>1. KeyInv'
  BY DEF TypeOK, KeyInv
<1>2. ASSUME NEW x \in tickets', index'[x.utr].record = x.record
      PROVE  /\ x.version <= index'[x.utr].version
             /\ x.version = index'[x.utr].version =>
                  index'[x.utr].owner = x.worker \/ index'[x.utr].owner = NoWorker
  <2>1. PICK t \in tickets : x.worker = t.worker /\ x.utr = t.utr
                               /\ x.record = t.record /\ x.version = t.version
    OBVIOUS
  <2>2. t.utr \in Utrs
    BY DEF TypeOK, Ticket
  <2> QED
    BY <1>2, <2>1, <2>2 DEF FenceInv
<1> QED
  BY <1>1, <1>2 DEF FenceInv

\* Consuming an open entry hands its settlement out for the first time.
LEMMA ConsumeOnce ==
  ASSUME TypeOK, KeyInv, WinInv, NEW u \in Utrs, NEW p \in Partitions,
         Open(index[u]), Win(index[u].record), registered' = registered,
         \A v \in Utrs : index'[v].record = index[v].record,
         \A v \in Utrs : v # u => index'[v].consumedBy = index[v].consumedBy,
         index'[u].consumedBy = p
  PROVE  WinInv'
<1> DEFINE r == index[u].record
<1>1. r \in Settlements /\ r \in registered /\ UtrOf[r] = u
  BY DEF TypeOK, Entry, Open, KeyInv
<1>2. wins[r] = 0
  BY <1>1 DEF TypeOK, WinInv, Open
<1>3. wins' = [wins EXCEPT ![r] = 1]
  BY <1>1, <1>2 DEF Win, TypeOK
<1> SUFFICES ASSUME NEW s \in Settlements
             PROVE  /\ wins'[s] <= 1
                    /\ wins'[s] > 0 =>
                         /\ s \in registered
                         /\ index'[UtrOf[s]].record = s =>
                              index'[UtrOf[s]].consumedBy # NoPartition
  BY DEF WinInv
<1>4. UtrOf[s] \in Utrs
  BY RegistryAssumption
<1>5. CASE s = r
  BY <1>1, <1>3, <1>5, RegistryAssumption DEF TypeOK
<1>6. CASE s # r
  <2>1. wins'[s] = wins[s]
    BY <1>3, <1>6 DEF TypeOK
  <2>2. CASE UtrOf[s] = u
    BY <1>6, <2>1, <2>2 DEF WinInv
  <2>3. CASE UtrOf[s] # u
    BY <1>4, <2>1, <2>3 DEF WinInv
  <2> QED
    BY <2>2, <2>3
<1> QED
  BY <1>5, <1>6

\* Every step of a registry in which settlements are registered once keeps the
\* invariant.
LEMMA RegStep ==
  ASSUME ~MayReRegister, TypeOK, TypeOK', RegInv, [Next]_vars
  PROVE  RegInv'
<1> USE DEF RegInv
<1>b. \A u \in Utrs : index[u] \in Entry
  BY DEF TypeOK
<1>c. \A t \in tickets : t.utr \in Utrs /\ t.record \in Settlements
  BY DEF TypeOK, Ticket
<1>d. ASSUME wins' = wins, registered' = registered,
             \A u \in Utrs : /\ index'[u].record = index[u].record
                             /\ index'[u].consumedBy = index[u].consumedBy
      PROVE  WinInv'
  <2>1. \A s \in Settlements : UtrOf[s] \in Utrs
    BY RegistryAssumption
  <2> QED
    BY <1>d, <2>1 DEF WinInv
<1>1. ASSUME NEW s \in Settlements, RegisterSettlement(s) PROVE RegInv'
  <2>1. s \notin registered /\ UtrOf[s] \in Utrs /\ s # NoSettlement
    BY <1>1, RegistryAssumption DEF RegisterSettlement
  <2>2. /\ index'[UtrOf[s]] = FreshEntry(s)
        /\ \A u \in Utrs : u # UtrOf[s] => index'[u] = index[u]
        /\ registered' = registered \cup {s}
        /\ UNCHANGED <<tickets, wins>>
    BY <1>1, <2>1 DEF TypeOK, RegisterSettlement
  <2>3. KeyInv'
    BY <2>1, <2>2 DEF KeyInv, FreshEntry
  <2>4. WinInv'
    <3> SUFFICES ASSUME NEW r \in Settlements
                 PROVE  /\ wins[r] <= 1
                        /\ wins[r] > 0 =>
                             /\ r \in registered'
                             /\ index'[UtrOf[r]].record = r =>
                                  index'[UtrOf[r]].consumedBy # NoPartition
      BY <2>2 DEF WinInv
    <3>1. UtrOf[r] \in Utrs
      BY RegistryAssumption
    <3>2. CASE r = s
      BY <2>1, <3>2 DEF WinInv
    <3>3. CASE r # s
      BY <2>2, <3>1, <3>3 DEF WinInv, FreshEntry
    <3> QED
      BY <3>2, <3>3
  <2>5. FenceInv'
    <3> SUFFICES ASSUME NEW t \in tickets, index'[t.utr].record = t.record
                 PROVE  /\ t.version <= index'[t.utr].version
                        /\ t.version = index'[t.utr].version =>
                             index'[t.utr].owner = t.worker
                               \/ index'[t.utr].owner = NoWorker
      BY <2>2 DEF FenceInv
    <3>1. t.utr # UtrOf[s]
      BY <2>1, <2>2 DEF KeyInv, FreshEntry
    <3> QED
      BY <1>c, <2>2, <3>1 DEF FenceInv
  <2> QED
    BY <2>3, <2>4, <2>5
<1>2. ASSUME NEW w \in Workers, NEW u \in Utrs, AcquireLease(w, u) PROVE RegInv'
  <2>1. /\ index'[u] = Granted(index[u], w)
        /\ \A v \in Utrs : v # u => index'[v] = index[v]
        /\ UNCHANGED <<registered, wins>>
    BY <1>2 DEF TypeOK, AcquireLease
  <2>2. /\ Open(index[u]) /\ index[u].version < VersionCap
        /\ index[u].record \in registered
    BY <1>2 DEF AcquireLease, Acquirable, Open, KeyInv
  <2>3. /\ index'[u].record = index[u].record
        /\ index'[u].consumedBy = index[u].consumedBy
        /\ index'[u].owner = w
        /\ index'[u].version = index[u].version + 1
    BY <1>b, <2>1 DEF Granted, Entry
  <2>4. ASSUME NEW x \in tickets'
        PROVE  \/ x.worker = w /\ x.utr = u /\ x.record = index[u].record
                    /\ x.version = index[u].version + 1
               \/ \E t \in tickets :
                    x.worker = t.worker /\ x.utr = t.utr /\ x.record = t.record
                      /\ x.version = t.version
    <3>1. \/ x \in Spent(w, u)
          \/ x = [worker |-> w, utr |-> u, record |-> index[u].record,
                  version |-> Granted(index[u], w).version, live |-> TRUE]
      BY <1>2, <2>4 DEF AcquireLease
    <3> QED
      BY <3>1, <2>1, <2>3, SpentFrom
  <2>5. KeyInv'
    BY <2>1, <2>2, <2>3, <2>4 DEF KeyInv
  <2>6. WinInv'
    BY <1>d, <2>1, <2>3
  <2>7. FenceInv'
    <3> SUFFICES ASSUME NEW x \in tickets', index'[x.utr].record = x.record
                 PROVE  /\ x.version <= index'[x.utr].version
                        /\ x.version = index'[x.utr].version =>
                             index'[x.utr].owner = x.worker
                               \/ index'[x.utr].owner = NoWorker
      BY DEF FenceInv
    <3>1. index[u].version \in Nat
      BY <1>b DEF Entry, Versions
    <3>2. CASE x.worker = w /\ x.utr = u /\ x.version = index[u].version + 1
      BY <2>3, <3>1, <3>2
    <3>3. ASSUME NEW t \in tickets,
                 x.worker = t.worker /\ x.utr = t.utr /\ x.record = t.record
                   /\ x.version = t.version
          PROVE  /\ x.version <= index'[x.utr].version
                 /\ x.version = index'[x.utr].version =>
                      index'[x.utr].owner = x.worker \/ index'[x.utr].owner = NoWorker
      <4>1. t.utr \in Utrs /\ t.version \in Nat
        BY DEF TypeOK, Ticket, Versions
      <4>2. index[t.utr].record = t.record
        BY <2>1, <2>3, <3>3, <4>1
      <4>3. t.version <= index[t.utr].version
        BY <4>2 DEF FenceInv
      <4>4. CASE t.utr = u
        BY <2>3, <3>1, <3>3, <4>1, <4>3, <4>4
      <4>5. CASE t.utr # u
        BY <2>1, <3>3, <4>1, <4>2, <4>5 DEF FenceInv
      <4> QED
        BY <4>4, <4>5
    <3> QED
      BY <2>4, <3>2, <3>3
  <2> QED
    BY <2>5, <2>6, <2>7
<1>3. ASSUME NEW w \in Workers, NEW u \in Utrs, ReleaseLease(w, u) PROVE RegInv'
  <2>1. /\ \A v \in Utrs : /\ index'[v].record = index[v].record
                           /\ index'[v].version = index[v].version
                           /\ index'[v].consumedBy = index[v].consumedBy
                           /\ index'[v].owner = index[v].owner
                                \/ index'[v].owner = NoWorker
        /\ UNCHANGED <<registered, wins>>
        /\ tickets' = Spent(w, u)
    BY <1>3, <1>b DEF TypeOK, ReleaseLease, Entry
  <2> QED
    BY <1>d, <2>1, SpentFrom, KeepsKeys
<1>4. ASSUME NEW t \in tickets, NEW p \in Partitions, CommitConsumption(t, p)
      PROVE  RegInv'
  <2>1. /\ \A v \in Utrs : /\ index'[v].record = index[v].record
                           /\ index'[v].version = index[v].version
                           /\ v # t.utr => index'[v].consumedBy = index[v].consumedBy
                           /\ index'[v].owner = index[v].owner
                                \/ index'[v].owner = NoWorker
        /\ index'[t.utr].consumedBy = p
        /\ registered' = registered
        /\ tickets' = Spent(t.worker, t.utr)
    BY <1>4, <1>b, <1>c DEF TypeOK, CommitConsumption, Entry
  <2>2. Open(index[t.utr]) /\ Win(index[t.utr].record)
    BY <1>4 DEF CommitConsumption, Commits
  <2>3. KeyInv' /\ FenceInv'
    BY <2>1, SpentFrom, KeepsKeys
  <2>4. WinInv'
    BY <1>c, <2>1, <2>2, ConsumeOnce
  <2> QED
    BY <2>3, <2>4
<1>5. ASSUME NEW p \in Partitions, NEW u \in Utrs, ClaimCrossPartitionCandidate(p, u)
      PROVE  RegInv'
  <2>1. /\ \A v \in Utrs : /\ index'[v].record = index[v].record
                           /\ index'[v].version = index[v].version
                           /\ v # u => index'[v].consumedBy = index[v].consumedBy
                           /\ index'[v].owner = index[v].owner
        /\ index'[u].consumedBy = p
        /\ UNCHANGED <<registered, tickets>>
    BY <1>5, <1>b DEF TypeOK, ClaimCrossPartitionCandidate, Entry
  <2>2. Open(index[u]) /\ Win(index[u].record)
    BY <1>5 DEF ClaimCrossPartitionCandidate
  <2>3. KeyInv' /\ FenceInv'
    BY <2>1, KeepsKeys
  <2>4. WinInv'
    BY <2>1, <2>2, ConsumeOnce
  <2> QED
    BY <2>3, <2>4
<1>6. ASSUME NEW t \in tickets, LeaseExpires(t) PROVE RegInv'
  <2>1. /\ \A v \in Utrs : /\ index'[v].record = index[v].record
                           /\ index'[v].version = index[v].version
                           /\ index'[v].consumedBy = index[v].consumedBy
                           /\ index'[v].owner = index[v].owner
        /\ UNCHANGED <<registered, wins>>
    BY <1>6, <1>b, <1>c DEF TypeOK, LeaseExpires, Entry
  <2>2. \A x \in tickets' : \E y \in tickets :
            x.worker = y.worker /\ x.utr = y.utr /\ x.record = y.record
              /\ x.version = y.version
    BY <1>6 DEF LeaseExpires, TypeOK, Ticket
  <2>3. KeyInv' /\ FenceInv'
    BY <2>1, <2>2, KeepsKeys
  <2>4. WinInv'
    BY <1>d, <2>1
  <2> QED
    BY <2>3, <2>4
<1>7. CASE UNCHANGED vars
  BY <1>7 DEF vars, KeyInv, WinInv, FenceInv
<1> QED
  BY <1>1, <1>2, <1>3, <1>4, <1>5, <1>6, <1>7 DEF Next

\* The empty registry satisfies the invariant.
LEMMA RegInit == Init => RegInv
  BY DEF Init, RegInv, KeyInv, WinInv, FenceInv, FreshEntry

\* Registered once, a settlement is consumed at most once, through leases and
\* direct claims together, however late the calls arrive and even when another
\* settlement of the same UTR replaces its entry.
THEOREM ConsumedOnce ==
  ASSUME ~MayReRegister
  PROVE  Spec => []SingleConsumption
<1>1. RegInv => SingleConsumption
  BY DEF RegInv, WinInv, SingleConsumption
<1>2. TypeOK /\ TypeOK' /\ RegInv /\ [Next]_vars => RegInv'
  BY RegStep
<1> QED
  BY <1>1, <1>2, RegInit, TypeInit, TypeStep, PTL DEF Spec

\* leaseVersion is a fencing token: a commit that passes the test of
\* commitConsumption comes from the worker the lease was last granted to.
THEOREM StaleCommitsFenced ==
  ASSUME ~MayReRegister
  PROVE  Spec => []CommitFenced
<1>1. TypeOK /\ RegInv => CommitFenced
  <2> SUFFICES ASSUME TypeOK, RegInv, NEW t \in tickets, Commits(index[t.utr], t),
                      NEW t2 \in tickets, t2.utr = t.utr,
                      t2.record = index[t.utr].record
               PROVE  t2.version < t.version \/ t2.worker = t.worker
    BY DEF CommitFenced
  <2>1. t.worker \in Workers /\ t2.version \in Nat /\ t.version \in Nat
    BY DEF TypeOK, Ticket, Versions
  <2>2. index[t.utr].owner = t.worker /\ index[t.utr].version = t.version
    BY DEF Commits
  <2>3. t.worker # NoWorker
    BY <2>1, RegistryAssumption
  <2>4. /\ t2.version <= t.version
        /\ t2.version = t.version => t2.worker = t.worker
    BY <2>2, <2>3 DEF RegInv, FenceInv
  <2> QED
    BY <2>1, <2>4
<1>2. TypeOK /\ TypeOK' /\ RegInv /\ [Next]_vars => RegInv'
  BY RegStep
<1> QED
  BY <1>1, <1>2, RegInit, TypeInit, TypeStep, PTL DEF Spec

-----------------------------------------------------------------------------
(* Leases as reservations *)

\* A live ticket of a UTR that is only leased is the last one granted on it.
LiveInv ==
  \A t \in tickets :
    /\ UtrOf[t.record] = t.utr
    /\ t.live /\ t.utr \in LeasedOnly =>
         /\ index[t.utr].record = t.record
         /\ index[t.utr].consumedBy = NoPartition
         /\ index[t.utr].owner = t.worker
         /\ index[t.utr].version = t.version
         /\ index[t.utr].lease = "live"

\* Every step of the lease protocol keeps live leases in force.
LEMMA LiveStep ==
  ASSUME ~MayReRegister, TypeOK, KeyInv, LiveInv, [Next]_vars
  PROVE  LiveInv'
<1>b. \A u \in Utrs : index[u] \in Entry
  BY DEF TypeOK
<1>c. \A t \in tickets : /\ t.utr \in Utrs /\ t.record \in Settlements
                         /\ t.worker \in Workers
  BY DEF TypeOK, Ticket
<1>d. ASSUME NEW w, NEW u \in Utrs,
             \A v \in Utrs : v # u => index'[v] = index[v],
             u \in LeasedOnly =>
               \A t \in tickets : t.utr = u /\ t.live => t.worker = w
      PROVE  \A x \in Spent(w, u) :
               /\ UtrOf[x.record] = x.utr
               /\ x.live /\ x.utr \in LeasedOnly =>
                    /\ index'[x.utr].record = x.record
                    /\ index'[x.utr].consumedBy = NoPartition
                    /\ index'[x.utr].owner = x.worker
                    /\ index'[x.utr].version = x.version
                    /\ index'[x.utr].lease = "live"
  <2> SUFFICES ASSUME NEW x \in Spent(w, u)
               PROVE  /\ UtrOf[x.record] = x.utr
                      /\ x.live /\ x.utr \in LeasedOnly =>
                           /\ index'[x.utr].record = x.record
                           /\ index'[x.utr].consumedBy = NoPartition
                           /\ index'[x.utr].owner = x.worker
                           /\ index'[x.utr].version = x.version
                           /\ index'[x.utr].lease = "live"
    OBVIOUS
  <2>1. PICK t \in tickets :
           /\ x.worker = t.worker /\ x.utr = t.utr /\ x.record = t.record
           /\ x.version = t.version
           /\ x.live => x = t /\ ~(t.worker = w /\ t.utr = u)
    BY SpentFrom
  <2> QED
    BY <1>c, <1>d, <2>1 DEF LiveInv
<1>1. ASSUME NEW s \in Settlements, RegisterSettlement(s) PROVE LiveInv'
  <2>1. s \notin registered /\ UtrOf[s] \in Utrs
    BY <1>1, RegistryAssumption DEF RegisterSettlement
  <2>2. /\ \A u \in Utrs : u # UtrOf[s] => index'[u] = index[u]
        /\ tickets' = tickets
    BY <1>1, <2>1 DEF TypeOK, RegisterSettlement
  <2>3. \A t \in tickets : t.utr \in LeasedOnly => t.utr # UtrOf[s]
    BY <1>c, <2>1 DEF KeyInv, LiveInv, LeasedOnly
  <2> QED
    BY <1>c, <2>2, <2>3 DEF LiveInv
<1>2. ASSUME NEW w \in Workers, NEW u \in Utrs, AcquireLease(w, u) PROVE LiveInv'
  <2>1. /\ index'[u] = Granted(index[u], w)
        /\ \A v \in Utrs : v # u => index'[v] = index[v]
    BY <1>2 DEF TypeOK, AcquireLease
  <2>2. Open(index[u]) /\ Acquirable(index[u], w)
    BY <1>2 DEF AcquireLease, Acquirable
  <2>3. u \in LeasedOnly => \A t \in tickets : t.utr = u /\ t.live => t.worker = w
    BY <1>c, <2>2, RegistryAssumption DEF LiveInv, Acquirable
  <2>4. /\ index'[u].record = index[u].record
        /\ index'[u].consumedBy = NoPartition
        /\ index'[u].owner = w
        /\ index'[u].lease = "live"
    BY <1>b, <2>1, <2>2 DEF Granted, Entry, Open
  <2>5. UtrOf[index[u].record] = u
    BY <2>2 DEF Open, KeyInv
  <2>6. tickets' = Spent(w, u) \cup
           {[worker |-> w, utr |-> u, record |-> index[u].record,
             version |-> Granted(index[u], w).version, live |-> TRUE]}
    BY <1>2 DEF AcquireLease
  <2> QED
    BY <1>d, <2>1, <2>3, <2>4, <2>5, <2>6 DEF LiveInv
<1>3. ASSUME NEW w \in Workers, NEW u \in Utrs, ReleaseLease(w, u) PROVE LiveInv'
  <2>1. /\ \A v \in Utrs : v # u => index'[v] = index[v]
        /\ tickets' = Spent(w, u) /\ index[u].owner = w
    BY <1>3 DEF TypeOK, ReleaseLease
  <2>2. u \in LeasedOnly => \A t \in tickets : t.utr = u /\ t.live => t.worker = w
    BY <2>1 DEF LiveInv
  <2> QED
    BY <1>d, <2>1, <2>2 DEF LiveInv
<1>4. ASSUME NEW t \in tickets, NEW p \in Partitions, CommitConsumption(t, p)
      PROVE  LiveInv'
  <2>1. /\ \A v \in Utrs : v # t.utr => index'[v] = index[v]
        /\ tickets' = Spent(t.worker, t.utr) /\ index[t.utr].owner = t.worker
    BY <1>4 DEF TypeOK, CommitConsumption, Commits
  <2>2. t.utr \in LeasedOnly =>
          \A x \in tickets : x.utr = t.utr /\ x.live => x.worker = t.worker
    BY <2>1 DEF LiveInv
  <2> QED
    BY <1>c, <1>d, <2>1, <2>2 DEF LiveInv
<1>5. ASSUME NEW p \in Partitions, NEW u \in Utrs, ClaimCrossPartitionCandidate(p, u)
      PROVE  LiveInv'
  <2>1. /\ u \notin LeasedOnly /\ tickets' = tickets
        /\ \A v \in Utrs : v # u => index'[v] = index[v]
    BY <1>5 DEF TypeOK, ClaimCrossPartitionCandidate, LeasedOnly
  <2> QED
    BY <1>c, <2>1 DEF LiveInv
<1>6. ASSUME NEW t \in tickets, LeaseExpires(t) PROVE LiveInv'
  <2> DEFINE dead == [t EXCEPT !.live = FALSE]
  <2>1. tickets' = (tickets \ {t}) \cup {dead} /\ t.live
    BY <1>6 DEF LeaseExpires
  <2>2. dead.utr = t.utr /\ dead.record = t.record /\ ~dead.live
    BY DEF TypeOK, Ticket
  <2>3. \A v \in Utrs : /\ index'[v].record = index[v].record
                        /\ index'[v].version = index[v].version
                        /\ index'[v].consumedBy = index[v].consumedBy
                        /\ index'[v].owner = index[v].owner
                        /\ v # t.utr => index'[v] = index[v]
    BY <1>6, <1>b, <1>c DEF TypeOK, LeaseExpires, Entry
  <2>4. ASSUME NEW x \in tickets, x # t, x.live, x.utr \in LeasedOnly
        PROVE  x.utr # t.utr
    <3>1. CASE x.utr = t.utr
      <4>1. /\ x.record = t.record /\ x.worker = t.worker /\ x.version = t.version
            /\ x.live = TRUE /\ t.live = TRUE
        BY <2>1, <2>4, <3>1 DEF LiveInv, TypeOK, Ticket
      <4>2. x = t
        BY <3>1, <4>1 DEF TypeOK, Ticket
      <4> QED
        BY <2>4, <4>2
    <3> QED
      BY <3>1
  <2> SUFFICES ASSUME NEW x \in tickets'
               PROVE  /\ UtrOf[x.record] = x.utr
                      /\ x.live /\ x.utr \in LeasedOnly =>
                           /\ index'[x.utr].record = x.record
                           /\ index'[x.utr].consumedBy = NoPartition
                           /\ index'[x.utr].owner = x.worker
                           /\ index'[x.utr].version = x.version
                           /\ index'[x.utr].lease = "live"
    BY DEF LiveInv
  <2>5. CASE x = dead
    BY <2>2, <2>5 DEF LiveInv
  <2>6. CASE x \in tickets /\ x # t
    BY <1>c, <2>3, <2>4, <2>6 DEF LiveInv
  <2> QED
    BY <2>1, <2>5, <2>6
<1>7. CASE UNCHANGED vars
  BY <1>7 DEF vars, LiveInv
<1> QED
  BY <1>1, <1>2, <1>3, <1>4, <1>5, <1>6, <1>7 DEF Next

\* When settlements are registered once, the lease of a UTR that no two
\* settlements share and that all partitions take by the lease protocol keeps
\* everybody else from leasing or consuming the candidate until its time has
\* passed, whatever is registered, leased and claimed directly beside it.
THEOREM LeaseIsReservation ==
  ASSUME ~MayReRegister
  PROVE  Spec => []LiveLeaseHeld
<1>1. Init => LiveInv
  BY DEF Init, LiveInv
<1>2. LiveInv => LiveLeaseHeld
  BY DEF LiveInv, LiveLeaseHeld
<1>3. TypeOK /\ TypeOK' /\ RegInv /\ [Next]_vars => RegInv'
  BY RegStep
<1>4. TypeOK /\ RegInv /\ LiveInv /\ [Next]_vars => LiveInv'
  BY LiveStep DEF RegInv
<1> QED
  BY <1>1, <1>2, <1>3, <1>4, RegInit, TypeInit, TypeStep, PTL DEF Spec

-----------------------------------------------------------------------------
(* The durable partitioned queue. *)

\* An event of the log.
QueuedEvent ==
  [status : {"UNCOMMITTED", "ASSIGNED", "COMMITTED", "DEAD_LETTER"},
   attempts : 0..(QueueRetries - 1), expired : BOOLEAN]

\* The fields, with the owners as the last rebalancing left them.
QueueShape ==
  /\ events \in [Partition -> Seq(QueuedEvent)]
  /\ queuedCount \in Nat /\ deadLetters \in Nat
  /\ offsets \in [Partition -> Int]
  /\ members \in Seq(Consumer)
  /\ owns = Rebalanced(members)
  /\ leases \in [Consumer -> SUBSET [slot : Slots, attempt : Nat]]
  /\ producer \in [Producer -> {"idle", "waiting", "clear"}]
  /\ lost \subseteq Consumer

\* A slot is a partition and a position in its log, now and after a step.
LEMMA SlotForm ==
  /\ \A s : s \in Slots <=> /\ s = <<s[1], s[2]>> /\ s[1] \in Partition
                           /\ s[2] \in 1..Len(events[s[1]])
  /\ \A s : s \in Slots' <=> /\ s = <<s[1], s[2]>> /\ s[1] \in Partition
                            /\ s[2] \in 1..Len(events'[s[1]])
<1>1. ASSUME NEW ev
      PROVE  \A s : s \in UNION {{<<p, i>> : i \in 1..Len(ev[p])} : p \in Partition} <=>
                     /\ s = <<s[1], s[2]>> /\ s[1] \in Partition
                     /\ s[2] \in 1..Len(ev[s[1]])
  OBVIOUS
<1>2. Slots' = UNION {{<<p, i>> : i \in 1..Len(events'[p])} : p \in Partition}
  BY DEF Slots
<1> QED
  BY <1>1, <1>2 DEF Slots

\* Round robin over the members gives every partition to one of them.
LEMMA OneOwner ==
  ASSUME NEW ms \in Seq(Consumer)
  PROVE  /\ Rebalanced(ms) \in [Consumer -> SUBSET Partition]
         /\ ms # << >> => \A p \in Partition :
              Cardinality({c \in Consumer : p \in Rebalanced(ms)[c]}) = 1
<1>1. Rebalanced(ms) \in [Consumer -> SUBSET Partition]
  BY DEF Rebalanced
<1>2. ASSUME ms # << >>, NEW p \in Partition
      PROVE  Cardinality({c \in Consumer : p \in Rebalanced(ms)[c]}) = 1
  <2>1. Len(ms) \in Nat /\ Len(ms) > 0 /\ p \in Nat
    BY <1>2, EmptySeq, LenProperties, DurableQueueAssumption DEF Partition
  <2>2. (p % Len(ms)) + 1 \in 1..Len(ms)
    BY <2>1
  <2>3. ms[(p % Len(ms)) + 1] \in Consumer
    BY <2>2, ElementOfSeq
  <2>4. {c \in Consumer : p \in Rebalanced(ms)[c]} = {ms[(p % Len(ms)) + 1]}
    BY <1>2, <2>3 DEF Rebalanced
  <2> QED
    BY <2>4, FS_Singleton
<1> QED
  BY <1>1, <1>2

\* The shape has all that the type asks for: one owner follows from the rule
\* that shares out the partitions.
LEMMA ShapeIsType == QueueShape => DurableQueueTypeOK
<1> SUFFICES ASSUME QueueShape PROVE DurableQueueTypeOK
  OBVIOUS
<1>1. \A s \in Slots : EventAt(s) \in QueuedEvent
  BY SlotForm, ElementOfSeq DEF QueueShape, EventAt
<1>2. Range(members) \subseteq Consumer
  BY RangeOfSeq DEF QueueShape
<1>3. \A c \in Consumer : leases[c] \subseteq [slot : Slots, attempt : Nat]
  BY DEF QueueShape
<1>4. /\ owns \in [Consumer -> SUBSET Partition]
      /\ members # << >> => \A p \in Partition : Cardinality({c \in Consumer : p \in owns[c]}) = 1
  BY OneOwner DEF QueueShape
<1> QED
  BY <1>1, <1>2, <1>3, <1>4 DEF QueueShape, DurableQueueTypeOK, QueuedEvent

\* A new grouping of the consumers.
LEMMA RegroupShape ==
  ASSUME QueueShape, NEW ms \in Seq(Consumer), Regroup(ms)
  PROVE  QueueShape' /\ Slots' = Slots
<1>1. /\ members' = ms /\ owns' = Rebalanced(ms)
      /\ UNCHANGED <<events, queuedCount, deadLetters, offsets, leases, producer, lost>>
  BY DEF Regroup
<1>2. Slots' = Slots
  BY <1>1 DEF Slots
<1>3. Rebalanced(ms)' = Rebalanced(ms)
  BY DEF Rebalanced
<1> QED
  BY <1>1, <1>2, <1>3 DEF QueueShape, Rebalanced

\* A write to the log that keeps every partition's length keeps the slots.
LEMMA SameSlots ==
  ASSUME events' \in [Partition -> Seq(QueuedEvent)],
         \A p \in Partition : Len(events'[p]) = Len(events[p])
  PROVE  Slots' = Slots
  BY DEF Slots

\* One event is written.
LEMMA OneEvent ==
  ASSUME QueueShape, NEW s \in Slots, NEW e \in QueuedEvent,
         events' = [events EXCEPT ![s[1]][s[2]] = e]
  PROVE  /\ events' \in [Partition -> Seq(QueuedEvent)]
         /\ Slots' = Slots
         /\ \A t \in Slots : EventAt(t)' = IF t = s THEN e ELSE EventAt(t)
<1> DEFINE p == s[1]
           i == s[2]
<1>1. /\ events \in [Partition -> Seq(QueuedEvent)]
      /\ s = <<p, i>> /\ p \in Partition /\ i \in 1..Len(events[p])
  BY SlotForm DEF QueueShape
<1>2. /\ events'[p] = [events[p] EXCEPT ![i] = e]
      /\ \A r \in Partition \ {p} : events'[r] = events[r]
      /\ DOMAIN events' = Partition
  BY <1>1
<1>3. /\ events'[p] \in Seq(QueuedEvent) /\ Len(events'[p]) = Len(events[p])
      /\ \A j \in 1..Len(events[p]) : events'[p][j] = IF j = i THEN e ELSE events[p][j]
  BY <1>1, <1>2, ExceptSeq
<1>4. \A r \in Partition : events'[r] \in Seq(QueuedEvent) /\ Len(events'[r]) = Len(events[r])
  BY <1>1, <1>2, <1>3
<1>5. events' \in [Partition -> Seq(QueuedEvent)]
  BY <1>1, <1>2, <1>4
<1>6. Slots' = Slots
  BY <1>4, <1>5, SameSlots
<1>7. ASSUME NEW t \in Slots PROVE EventAt(t)' = IF t = s THEN e ELSE EventAt(t)
  <2>1. t = <<t[1], t[2]>> /\ t[1] \in Partition /\ t[2] \in 1..Len(events[t[1]])
    BY SlotForm
  <2>2. CASE t[1] = p
    BY <1>1, <1>3, <2>1, <2>2 DEF EventAt
  <2>3. CASE t[1] # p
    BY <1>1, <1>2, <2>1, <2>3 DEF EventAt
  <2> QED
    BY <2>2, <2>3
<1> QED
  BY <1>5, <1>6, <1>7

\* The slots a batch published to partition p fills.
NewSlots(p) == {p} \X ((Len(events[p]) + 1)..(Len(events[p]) + PublishSize))

\* A published batch fills the slots behind the log and leaves the others alone.
LEMMA BatchPublished ==
  ASSUME QueueShape, NEW p \in Partition,
         events' = [events EXCEPT ![p] = @ \o [i \in 1..PublishSize |-> NewEvent]]
  PROVE  /\ events' \in [Partition -> Seq(QueuedEvent)]
         /\ Slots' = Slots \cup NewSlots(p)
         /\ Slots \cap NewSlots(p) = {}
         /\ \A t \in Slots : EventAt(t)' = EventAt(t)
         /\ \A t \in NewSlots(p) : EventAt(t)' = NewEvent
<1> DEFINE new == [i \in 1..PublishSize |-> NewEvent]
           n == Len(events[p])
<1>0. PublishSize \in Nat /\ PublishSize > 0 /\ QueueRetries \in Nat /\ QueueRetries > 0
  BY DurableQueueAssumption
<1>1. events \in [Partition -> Seq(QueuedEvent)] /\ events[p] \in Seq(QueuedEvent) /\ n \in Nat
  BY LenProperties DEF QueueShape
<1>2. NewEvent \in QueuedEvent
  BY <1>0 DEF NewEvent, QueuedEvent
<1>3. new \in Seq(QueuedEvent) /\ Len(new) = PublishSize
  BY <1>0, <1>2
<1> HIDE DEF new
<1>4. /\ events[p] \o new \in Seq(QueuedEvent)
      /\ Len(events[p] \o new) = n + PublishSize
      /\ \A i \in 1..n : (events[p] \o new)[i] = events[p][i]
      /\ \A i \in (n + 1)..(n + PublishSize) : (events[p] \o new)[i] = NewEvent
  <2>1. \A i \in 1..n : (events[p] \o new)[i] = events[p][i]
    BY <1>0, <1>1, <1>3
  <2>2. \A i \in (n + 1)..(n + PublishSize) : (events[p] \o new)[i] = new[i - n]
    BY <1>0, <1>1, <1>3
  <2>3. \A i \in (n + 1)..(n + PublishSize) : new[i - n] = NewEvent
    BY <1>0, <1>1 DEF new
  <2> QED
    BY <1>1, <1>3, <2>1, <2>2, <2>3, ConcatProperties
<1>5. /\ events'[p] = events[p] \o new
      /\ \A r \in Partition \ {p} : events'[r] = events[r]
      /\ DOMAIN events' = Partition
  BY <1>1 DEF new
<1>6. events' \in [Partition -> Seq(QueuedEvent)]
  BY <1>1, <1>4, <1>5
<1>7. \A s : s \in Slots' <=> s \in Slots \/ s \in NewSlots(p)
  <2>1. \A s : s \in Slots' <=> /\ s = <<s[1], s[2]>> /\ s[1] \in Partition
                               /\ s[2] \in 1..Len(events'[s[1]])
    BY SlotForm
  <2>2. \A s : s \in NewSlots(p) <=> /\ s = <<s[1], s[2]>> /\ s[1] = p
                                    /\ s[2] \in (n + 1)..(n + PublishSize)
    BY DEF NewSlots
  <2>3. \A k : k \in 1..(n + PublishSize) <=> k \in 1..n \/ k \in (n + 1)..(n + PublishSize)
    BY <1>0, <1>1
  <2> QED
    BY <1>4, <1>5, <2>1, <2>2, <2>3, SlotForm
<1>8. Slots' = Slots \cup NewSlots(p)
  BY <1>7
<1>9. Slots \cap NewSlots(p) = {}
  BY <1>1, SlotForm DEF NewSlots
<1>10. \A t \in Slots : EventAt(t)' = EventAt(t)
  BY <1>4, <1>5, SlotForm DEF EventAt
<1>11. \A t \in NewSlots(p) : EventAt(t)' = NewEvent
  BY ZenonT(30), <1>4, <1>5 DEF EventAt, NewSlots
<1> QED
  BY <1>6, <1>8, <1>9, <1>10, <1>11

\* A poll rewrites what it grants and what it buries, and nothing else.
LEMMA PollWrites ==
  ASSUME QueueShape, NEW c \in Consumer, PollLeases(c)
  PROVE  /\ events' \in [Partition -> Seq(QueuedEvent)]
         /\ Slots' = Slots
         /\ GrantedEvents(c) \subseteq Available(c) \ Exhausted(c)
         /\ Dead(c) \subseteq Exhausted(c)
         /\ \A t \in Slots : EventAt(t)' = Polled(GrantedEvents(c), Dead(c), t)
<1> DEFINE granted == GrantedEvents(c)
           dead == Dead(c)
<1>1. granted \subseteq Available(c) \ Exhausted(c) /\ dead \subseteq Exhausted(c)
  BY DEF GrantedEvents, Dead, Reached
<1>2. events' = [p \in Partition |-> [i \in DOMAIN events[p] |-> Polled(granted, dead, <<p, i>>)]]
  BY DEF PollLeases
<1> HIDE DEF granted, dead
<1>3. \A t \in Slots : EventAt(t) \in QueuedEvent
  BY SlotForm, ElementOfSeq DEF QueueShape, EventAt
<1>4. ASSUME NEW t \in Slots PROVE Polled(granted, dead, t) \in QueuedEvent
  <2>1. CASE t \in granted
    <3>1. NextAttempt(EventAt(t)) \in 0..(QueueRetries - 1)
      <4>1. ~(NextAttempt(EventAt(t)) >= QueueRetries) /\ QueueRetries \in Nat
        BY <1>1, <2>1, DurableQueueAssumption DEF Exhausted
      <4>2. NextAttempt(EventAt(t)) \in Nat
        BY <1>3 DEF NextAttempt, QueuedEvent
      <4> QED
        BY <4>1, <4>2
    <3> QED
      BY <2>1, <3>1 DEF Polled, QueuedEvent
  <2>2. CASE t \notin granted
    BY <1>3, <2>2 DEF Polled, QueuedEvent
  <2> QED
    BY <2>1, <2>2
<1>5. ASSUME NEW p \in Partition
      PROVE  /\ events'[p] \in Seq(QueuedEvent) /\ Len(events'[p]) = Len(events[p])
             /\ \A i \in 1..Len(events[p]) : events'[p][i] = Polled(granted, dead, <<p, i>>)
  <2>1. DOMAIN events[p] = 1..Len(events[p]) /\ Len(events[p]) \in Nat
    BY LenProperties DEF QueueShape
  <2>2. \A i \in 1..Len(events[p]) : Polled(granted, dead, <<p, i>>) \in QueuedEvent
    BY <1>4, SlotForm
  <2>3. events'[p] = [i \in 1..Len(events[p]) |-> Polled(granted, dead, <<p, i>>)]
    BY <1>2, <2>1
  <2> QED
    BY <2>1, <2>2, <2>3
<1>6. events' \in [Partition -> Seq(QueuedEvent)]
  BY <1>2, <1>5
<1>7. Slots' = Slots
  BY <1>5, <1>6, SameSlots
<1>8. \A t \in Slots : EventAt(t)' = Polled(granted, dead, t)
  BY <1>5, SlotForm DEF EventAt
<1> QED
  BY <1>1, <1>6, <1>7, <1>8 DEF granted, dead

-----------------------------------------------------------------------------

\* A step that leaves the log alone.
LEMMA SameLog ==
  ASSUME UNCHANGED events
  PROVE  Slots' = Slots /\ OpenEvents' = OpenEvents
<1>1. Slots' = Slots
  BY DEF Slots
<1> QED
  BY <1>1 DEF OpenEvents, EventAt

\* The producers whose wait is over and who have not published since.
ClearProducers == {q \in Producer : producer[q] = "clear"}

\* The inductive invariant: a producer that was let through, by the test of the
\* count or by a drain, counts as if it had published already.
CountInv ==
  /\ IsFiniteSet(OpenEvents) /\ queuedCount <= Cardinality(OpenEvents)
  /\ queuedCount + PublishSize * Cardinality(ClearProducers)
       <= HighWatermark - 1 + PublishSize * Cardinality(Producer)
  /\ \A q \in Producer :
       producer[q] = "waiting" /\ deadLetters = 0 => queuedCount > LowWatermark

\* The whole of it.
QueueInv == QueueShape /\ CountInv

\* Producers let through are finitely many.
LEMMA SomeProducers ==
  /\ IsFiniteSet(Producer) /\ Cardinality(Producer) \in Nat
  /\ IsFiniteSet(ClearProducers) /\ Cardinality(ClearProducers) \in Nat
  /\ Cardinality(ClearProducers) <= Cardinality(Producer)
  BY DurableQueueAssumption, FS_CardinalityType, FS_Subset DEF ClearProducers

\* Multiplication by the size of a batch.
LEMMA Times ==
  ASSUME NEW P \in Nat, NEW a \in Nat, NEW b \in Nat, a <= b
  PROVE  P * a \in Nat /\ P * b \in Nat /\ P * a <= P * b /\ P * (a + 1) = P * a + P
<1>1. PICK d \in Nat : b = a + d
  <2>1. b - a \in Nat /\ b = a + (b - a)
    OBVIOUS
  <2> QED
    BY <2>1
<1>2. P * b = P * a + P * d /\ P * a \in Nat /\ P * d \in Nat
  BY <1>1
<1>3. P * (a + 1) = P * a + P
  OBVIOUS
<1> QED
  BY <1>1, <1>2, <1>3

\* Below the high watermark anyone may publish one batch.
LEMMA RoomForAll ==
  ASSUME NEW n \in Nat, n < HighWatermark, NEW k \in Nat, k <= Cardinality(Producer)
  PROVE  n + PublishSize * k <= HighWatermark - 1 + PublishSize * Cardinality(Producer)
<1>1. /\ PublishSize \in Nat /\ HighWatermark \in Nat /\ Cardinality(Producer) \in Nat
  BY DurableQueueAssumption, SomeProducers
<1>2. /\ PublishSize * k <= PublishSize * Cardinality(Producer)
      /\ PublishSize * k \in Nat /\ PublishSize * Cardinality(Producer) \in Nat
  BY <1>1, Times
<1> QED
  BY <1>1, <1>2

\* An empty log counts nothing.
LEMMA QueueInvInit == DurableQueueInit => QueueInv
<1> SUFFICES ASSUME DurableQueueInit PROVE QueueInv
  OBVIOUS
<1>1. Slots = {} /\ OpenEvents = {}
  <2>1. \A p \in Partition : events[p] = << >>
    BY DEF DurableQueueInit
  <2>2. Slots = {}
    BY <2>1, SlotForm, EmptySeq
  <2> QED
    BY <2>2 DEF OpenEvents
<1>2. QueueShape
  BY <1>1, EmptySeq DEF DurableQueueInit, QueueShape, Rebalanced
<1>3. ClearProducers = {}
  BY DEF DurableQueueInit, ClearProducers
<1>4. 0 < HighWatermark
  BY DurableQueueAssumption
<1>5. queuedCount + PublishSize * Cardinality(ClearProducers)
        <= HighWatermark - 1 + PublishSize * Cardinality(Producer)
  BY <1>3, <1>4, RoomForAll, SomeProducers, FS_EmptySet DEF DurableQueueInit
<1>6. CountInv
  BY <1>1, <1>5, FS_EmptySet DEF CountInv, DurableQueueInit
<1> QED
  BY <1>2, <1>6 DEF QueueInv

\* A step that touches neither the log, the counters nor the producers.
LEMMA QuietCount ==
  ASSUME CountInv, UNCHANGED <<events, queuedCount, deadLetters, producer>>
  PROVE  CountInv'
<1>1. OpenEvents' = OpenEvents
  BY SameLog
<1>2. ClearProducers' = ClearProducers
  BY DEF ClearProducers
<1> QED
  BY <1>1, <1>2 DEF CountInv

\* A producer is let through below the high watermark, or waits.
LEMMA AwaitDrainKeeps ==
  ASSUME QueueInv, NEW q \in Producer, AwaitDrain(q)
  PROVE  QueueInv'
<1>0. /\ queuedCount \in Nat /\ producer \in [Producer -> {"idle", "waiting", "clear"}]
      /\ HighWatermark \in Nat /\ LowWatermark \in Nat /\ LowWatermark < HighWatermark
  BY DurableQueueAssumption DEF QueueInv, QueueShape
<1>1. /\ producer[q] = "idle"
      /\ producer' = [producer EXCEPT ![q] = IF isBackpressured THEN "waiting" ELSE "clear"]
      /\ UNCHANGED <<events, queuedCount, deadLetters, offsets, members, owns, leases, lost>>
  BY DEF AwaitDrain
<1>2. Slots' = Slots /\ OpenEvents' = OpenEvents
  BY <1>1, SameLog
<1>3. QueueShape'
  BY <1>0, <1>1, <1>2 DEF QueueInv, QueueShape, Rebalanced
<1>4. CASE isBackpressured
  <2>1. ClearProducers' = ClearProducers
    BY <1>0, <1>1, <1>4 DEF ClearProducers
  <2>2. queuedCount > LowWatermark
    BY <1>0, <1>4 DEF isBackpressured
  <2> QED
    BY <1>0, <1>1, <1>2, <1>3, <2>1, <2>2 DEF QueueInv, CountInv
<1>5. CASE ~isBackpressured
  <2>1. queuedCount < HighWatermark
    BY <1>0, <1>5 DEF isBackpressured
  <2>2. /\ Cardinality(ClearProducers') \in Nat
        /\ Cardinality(ClearProducers') <= Cardinality(Producer)
    BY DurableQueueAssumption, FS_CardinalityType, FS_Subset DEF ClearProducers
  <2>3. queuedCount' + PublishSize * Cardinality(ClearProducers')
          <= HighWatermark - 1 + PublishSize * Cardinality(Producer)
    BY <1>0, <1>1, <2>1, <2>2, RoomForAll
  <2>4. \A r \in Producer : producer'[r] = "waiting" => producer[r] = "waiting"
    BY <1>0, <1>1, <1>5
  <2> QED
    BY <1>1, <1>2, <1>3, <2>3, <2>4 DEF QueueInv, CountInv
<1> QED
  BY <1>4, <1>5

\* A published batch uses the room its producer was counted with.
LEMMA PublishKeeps ==
  ASSUME QueueInv, NEW q \in Producer, NEW p \in Partition, PublishBatch(q, p)
  PROVE  QueueInv'
<1> DEFINE N == Cardinality(OpenEvents)
           k == Cardinality(ClearProducers)
<1>0. /\ queuedCount \in Nat /\ producer \in [Producer -> {"idle", "waiting", "clear"}]
      /\ HighWatermark \in Nat /\ LowWatermark \in Nat /\ PublishSize \in Nat \ {0}
  BY DurableQueueAssumption DEF QueueInv, QueueShape
<1>1. /\ producer[q] = "clear" /\ producer' = [producer EXCEPT ![q] = "idle"]
      /\ queuedCount' = queuedCount + PublishSize
      /\ UNCHANGED <<deadLetters, offsets, members, owns, leases, lost>>
      /\ events' = [events EXCEPT ![p] = @ \o [i \in 1..PublishSize |-> NewEvent]]
  BY DEF PublishBatch
<1>2. /\ events' \in [Partition -> Seq(QueuedEvent)]
      /\ Slots' = Slots \cup NewSlots(p) /\ Slots \cap NewSlots(p) = {}
      /\ \A t \in Slots : EventAt(t)' = EventAt(t)
      /\ \A t \in NewSlots(p) : EventAt(t)' = NewEvent
  BY <1>1, BatchPublished DEF QueueInv
<1>3. QueueShape'
  <2>1. [slot : Slots, attempt : Nat] \subseteq [slot : Slots', attempt : Nat]
    BY <1>2
  <2>2. leases' \in [Consumer -> SUBSET [slot : Slots', attempt : Nat]]
    BY <1>1, <2>1 DEF QueueInv, QueueShape
  <2> QED
    BY <1>0, <1>1, <1>2, <2>2 DEF QueueInv, QueueShape, Rebalanced
<1>4. OpenEvents' = OpenEvents \cup NewSlots(p) /\ OpenEvents \cap NewSlots(p) = {}
  <2>1. \A t : t \in OpenEvents' <=> t \in Slots' /\ EventAt(t)'.status \in {"UNCOMMITTED", "ASSIGNED"}
    BY DEF OpenEvents
  <2>2. \A t \in NewSlots(p) : t \in OpenEvents'
    BY <1>2, <2>1 DEF NewEvent
  <2>3. \A t \in Slots : t \in OpenEvents' <=> t \in OpenEvents
    BY <1>2, <2>1 DEF OpenEvents
  <2> QED
    BY <1>2, <2>1, <2>2, <2>3 DEF OpenEvents
<1>5. IsFiniteSet(NewSlots(p)) /\ Cardinality(NewSlots(p)) = PublishSize
  <2>1. Len(events[p]) \in Nat
    BY LenProperties DEF QueueInv, QueueShape
  <2> DEFINE I == (Len(events[p]) + 1)..(Len(events[p]) + PublishSize)
  <2>2. IsFiniteSet(I) /\ Cardinality(I) = PublishSize
    BY SMTT(30), <1>0, <2>1, FS_Interval
  <2>3. IsFiniteSet({p}) /\ Cardinality({p}) = 1
    BY FS_Singleton
  <2> HIDE DEF I
  <2>4. IsFiniteSet({p} \X I) /\ Cardinality({p} \X I) = 1 * PublishSize
    BY <2>2, <2>3, FS_Product
  <2> QED
    BY <1>0, <2>4 DEF NewSlots, I
<1>6. IsFiniteSet(OpenEvents') /\ queuedCount' <= Cardinality(OpenEvents')
  <2>1. IsFiniteSet(OpenEvents) /\ N \in Nat /\ queuedCount <= N
    BY FS_CardinalityType DEF QueueInv, CountInv
  <2>2. /\ IsFiniteSet(OpenEvents')
        /\ Cardinality(OpenEvents') = N + PublishSize - Cardinality(OpenEvents \cap NewSlots(p))
    BY <1>4, <1>5, <2>1, FS_Union
  <2>3. Cardinality(OpenEvents \cap NewSlots(p)) = 0
    BY <1>4, FS_EmptySet
  <2> QED
    BY <1>0, <1>1, <2>1, <2>2, <2>3
<1>7. ClearProducers' = ClearProducers \ {q} /\ q \in ClearProducers
  BY <1>0, <1>1 DEF ClearProducers
<1>8. /\ k \in Nat /\ Cardinality(ClearProducers') = k - 1 /\ k - 1 \in Nat
  <2>1. /\ IsFiniteSet(ClearProducers) /\ k \in Nat
        /\ Cardinality(ClearProducers') = k - 1
    BY <1>7, SomeProducers, FS_RemoveElement
  <2>2. k # 0
    BY <1>7, <2>1, FS_EmptySet
  <2> QED
    BY <2>1, <2>2
<1>9. PublishSize * k = PublishSize * (k - 1) + PublishSize
  BY <1>0, <1>8, Times
<1>10. queuedCount' + PublishSize * Cardinality(ClearProducers')
         = queuedCount + PublishSize * k
  BY <1>0, <1>1, <1>8, <1>9
<1>11. \A r \in Producer : producer'[r] = "waiting" /\ deadLetters' = 0 => queuedCount' > LowWatermark
  BY <1>0, <1>1 DEF QueueInv, CountInv
<1> QED
  BY <1>3, <1>6, <1>10, <1>11 DEF QueueInv, CountInv

\* The count falls by at most the events that are over.
LEMMA CountLowered ==
  ASSUME NEW S, IsFiniteSet(S), NEW T, T \subseteq S, NEW n \in Nat, n <= Cardinality(S)
  PROVE  /\ IsFiniteSet(S \ T) /\ Lowered(n, Cardinality(T)) \in Nat
         /\ Lowered(n, Cardinality(T)) <= Cardinality(S \ T)
         /\ Lowered(n, Cardinality(T)) <= n
         /\ T = {} => Lowered(n, Cardinality(T)) = n
<1>1. IsFiniteSet(T) /\ Cardinality(T) \in Nat /\ Cardinality(S) \in Nat
  BY FS_Subset, FS_CardinalityType
<1>2. /\ IsFiniteSet(S \ T)
      /\ Cardinality(S \ T) = Cardinality(S) - Cardinality(S \cap T)
  BY FS_Difference
<1>3. S \cap T = T /\ Cardinality(S \ T) \in Nat
  BY <1>2, FS_CardinalityType
<1>4. T = {} => Cardinality(T) = 0
  BY FS_EmptySet
<1> QED
  BY <1>1, <1>2, <1>3, <1>4 DEF Lowered

\* As the count falls the room stays, with the listeners called or not.
LEMMA RoomKept ==
  ASSUME QueueInv, queuedCount' \in Nat, queuedCount' <= queuedCount,
         producer' = producer \/ producer' = Drained(queuedCount')
  PROVE  /\ producer' \in [Producer -> {"idle", "waiting", "clear"}]
         /\ queuedCount' + PublishSize * Cardinality(ClearProducers')
              <= HighWatermark - 1 + PublishSize * Cardinality(Producer)
<1>0. /\ queuedCount \in Nat /\ producer \in [Producer -> {"idle", "waiting", "clear"}]
      /\ {HighWatermark, LowWatermark, PublishSize} \subseteq Nat
      /\ LowWatermark < HighWatermark
  BY DurableQueueAssumption DEF QueueInv, QueueShape
<1>1. CASE producer' = producer
  <2>1. ClearProducers' = ClearProducers
    BY <1>1 DEF ClearProducers
  <2>2. /\ PublishSize * Cardinality(ClearProducers) \in Nat
        /\ PublishSize * Cardinality(Producer) \in Nat
    BY <1>0, SomeProducers, Times
  <2> QED
    BY <1>0, <1>1, <2>1, <2>2 DEF QueueInv, CountInv
<1>2. CASE producer' # producer /\ producer' = Drained(queuedCount')
  <2>1. queuedCount' < HighWatermark
    BY <1>0, <1>2 DEF Drained
  <2>2. /\ Cardinality(ClearProducers') \in Nat
        /\ Cardinality(ClearProducers') <= Cardinality(Producer)
    BY DurableQueueAssumption, FS_CardinalityType, FS_Subset DEF ClearProducers
  <2>3. producer' \in [Producer -> {"idle", "waiting", "clear"}]
    BY <1>0, <1>2 DEF Drained
  <2> QED
    BY <2>1, <2>2, <2>3, RoomForAll
<1> QED
  BY <1>1, <1>2

\* A poll that buries events lowers the count by their number and calls nobody.
LEMMA PollKeeps ==
  ASSUME QueueInv, NEW c \in Consumer, PollLeases(c)
  PROVE  QueueInv'
<1> DEFINE granted == GrantedEvents(c)
           dead == Dead(c)
<1>0. /\ queuedCount \in Nat /\ deadLetters \in Nat
      /\ QueueShape /\ IsFiniteSet(OpenEvents) /\ queuedCount <= Cardinality(OpenEvents)
  BY DEF QueueInv, QueueShape, CountInv
<1>1. /\ events' \in [Partition -> Seq(QueuedEvent)] /\ Slots' = Slots
      /\ granted \subseteq Available(c) \ Exhausted(c) /\ dead \subseteq Exhausted(c)
      /\ \A t \in Slots : EventAt(t)' = Polled(granted, dead, t)
  BY <1>0, PollWrites
<1>2. /\ leases' = [leases EXCEPT ![c] =
           @ \cup {[slot |-> s, attempt |-> NextAttempt(EventAt(s))] : s \in granted}]
      /\ deadLetters' = deadLetters + Cardinality(dead)
      /\ queuedCount' = Lowered(queuedCount, Cardinality(dead))
      /\ UNCHANGED <<offsets, members, owns, producer, lost>>
  BY DEF PollLeases
<1> HIDE DEF granted, dead
<1>3. Exhausted(c) \subseteq Available(c) /\ Available(c) \subseteq OpenEvents
  BY DEF Exhausted, Available, OpenEvents
<1>4. \A t \in Slots : EventAt(t) \in QueuedEvent
  BY <1>0, SlotForm, ElementOfSeq DEF QueueShape, EventAt
<1>5. OpenEvents' = OpenEvents \ dead
  <2>1. \A t : t \in OpenEvents' <=> t \in Slots /\ EventAt(t)'.status \in {"UNCOMMITTED", "ASSIGNED"}
    BY <1>1 DEF OpenEvents
  <2>2. \A t : t \in OpenEvents <=> t \in Slots /\ EventAt(t).status \in {"UNCOMMITTED", "ASSIGNED"}
    BY DEF OpenEvents
  <2>3. ASSUME NEW t \in Slots PROVE t \in OpenEvents' <=> t \in OpenEvents /\ t \notin dead
    <3>1. CASE t \in granted
      BY <1>1, <1>3, <2>1, <2>2, <3>1 DEF Polled
    <3>2. CASE t \notin granted /\ t \in dead
      BY <1>1, <1>4, <2>1, <3>2 DEF Polled, QueuedEvent
    <3>3. CASE t \notin granted /\ t \notin dead
      BY <1>1, <2>1, <2>2, <3>3 DEF Polled
    <3> QED
      BY <3>1, <3>2, <3>3
  <2> QED
    BY <2>1, <2>2, <2>3
<1>6. /\ IsFiniteSet(OpenEvents') /\ queuedCount' \in Nat
      /\ queuedCount' <= Cardinality(OpenEvents') /\ queuedCount' <= queuedCount
      /\ dead = {} => queuedCount' = queuedCount
  BY <1>0, <1>1, <1>2, <1>3, <1>5, CountLowered
<1>7. /\ Cardinality(dead) \in Nat /\ (Cardinality(dead) = 0 <=> dead = {})
  BY <1>0, <1>1, <1>3, FS_Subset, FS_CardinalityType, FS_EmptySet
<1>8. leases' \in [Consumer -> SUBSET [slot : Slots, attempt : Nat]]
  <2>1. \A s \in granted : s \in Slots /\ NextAttempt(EventAt(s)) \in Nat
    BY <1>1, <1>4 DEF Available, NextAttempt, QueuedEvent
  <2>2. {[slot |-> s, attempt |-> NextAttempt(EventAt(s))] : s \in granted}
          \subseteq [slot : Slots, attempt : Nat]
    BY <2>1
  <2> QED
    BY <1>0, <1>2, <2>2 DEF QueueShape
<1>9. QueueShape'
  BY <1>0, <1>1, <1>2, <1>6, <1>7, <1>8 DEF QueueShape, Rebalanced
<1>10. queuedCount' + PublishSize * Cardinality(ClearProducers')
         <= HighWatermark - 1 + PublishSize * Cardinality(Producer)
  BY <1>2, <1>6, RoomKept
<1>11. ASSUME NEW q \in Producer, producer'[q] = "waiting", deadLetters' = 0
       PROVE  queuedCount' > LowWatermark
  <2>1. deadLetters = 0 /\ dead = {}
    BY <1>0, <1>2, <1>7, <1>11
  <2> QED
    BY <1>2, <1>6, <1>11, <2>1 DEF QueueInv, CountInv
<1> QED
  BY <1>6, <1>9, <1>10, <1>11 DEF QueueInv, CountInv

\* A commit, also a late one of an event that was buried meanwhile, lowers the
\* count by one and calls the listeners when it is low.
LEMMA CommitKeeps ==
  ASSUME QueueInv, NEW c \in Consumer, NEW l \in leases[c], CommitLease(c, l)
  PROVE  QueueInv'
<1> DEFINE s == l.slot
           e == [EventAt(s) EXCEPT !.status = "COMMITTED", !.expired = FALSE]
<1>0. /\ queuedCount \in Nat /\ deadLetters \in Nat
      /\ QueueShape /\ IsFiniteSet(OpenEvents) /\ queuedCount <= Cardinality(OpenEvents)
      /\ LowWatermark \in Nat
      /\ producer \in [Producer -> {"idle", "waiting", "clear"}]
  BY DurableQueueAssumption DEF QueueInv, QueueShape, CountInv
<1>1. s \in Slots
  BY <1>0 DEF QueueShape
<1>2. /\ s = <<s[1], s[2]>> /\ s[1] \in Partition /\ s[2] \in 1..Len(events[s[1]])
      /\ EventAt(s) \in QueuedEvent
  BY <1>0, <1>1, SlotForm, ElementOfSeq DEF QueueShape, EventAt
<1>3. /\ events' = [events EXCEPT ![s[1]][s[2]].status = "COMMITTED",
                                  ![s[1]][s[2]].expired = FALSE]
      /\ offsets' = [offsets EXCEPT ![s[1]] = IF s[2] - 1 > @ THEN s[2] - 1 ELSE @]
      /\ queuedCount' = Lowered(queuedCount, 1)
      /\ producer' = Drained(queuedCount')
      /\ leases' = [leases EXCEPT ![c] = @ \ {l}]
      /\ UNCHANGED <<deadLetters, members, owns, lost>>
  BY DEF CommitLease
<1> HIDE DEF s
<1>4. events' = [events EXCEPT ![s[1]][s[2]] = e]
  <2>1. events[s[1]] \in Seq(QueuedEvent) /\ DOMAIN events[s[1]] = 1..Len(events[s[1]])
    BY <1>0, <1>2, LenProperties DEF QueueShape
  <2>2. events \in [Partition -> Seq(QueuedEvent)]
    BY <1>0 DEF QueueShape
  <2> QED
    BY <1>2, <1>3, <2>1, <2>2 DEF EventAt, QueuedEvent
<1>5. e \in QueuedEvent /\ e.status = "COMMITTED"
  BY <1>2 DEF QueuedEvent
<1> HIDE DEF e
<1>6. /\ events' \in [Partition -> Seq(QueuedEvent)] /\ Slots' = Slots
      /\ \A t \in Slots : EventAt(t)' = IF t = s THEN e ELSE EventAt(t)
  BY <1>0, <1>1, <1>4, <1>5, OneEvent
<1>7. OpenEvents' = OpenEvents \ {s}
  <2>1. \A t : t \in OpenEvents' <=> t \in Slots /\ EventAt(t)'.status \in {"UNCOMMITTED", "ASSIGNED"}
    BY <1>6 DEF OpenEvents
  <2> QED
    BY <1>1, <1>5, <1>6, <2>1 DEF OpenEvents
<1>8. /\ IsFiniteSet(OpenEvents') /\ queuedCount' \in Nat
      /\ queuedCount' <= Cardinality(OpenEvents') /\ queuedCount' <= queuedCount
  <2>1. CASE s \in OpenEvents
    <3>1. Cardinality({s}) = 1 /\ {s} \subseteq OpenEvents
      BY <2>1, FS_Singleton
    <3>2. /\ IsFiniteSet(OpenEvents \ {s}) /\ Lowered(queuedCount, 1) \in Nat
          /\ Lowered(queuedCount, 1) <= Cardinality(OpenEvents \ {s})
          /\ Lowered(queuedCount, 1) <= queuedCount
      BY <1>0, <3>1, CountLowered
    <3>3. queuedCount' = Lowered(queuedCount, 1)
      BY <1>3
    <3> QED
      BY <1>7, <3>2, <3>3
  <2>2. CASE s \notin OpenEvents
    <3>1. OpenEvents' = OpenEvents
      BY <1>7, <2>2
    <3>2. Lowered(queuedCount, 1) \in Nat /\ Lowered(queuedCount, 1) <= queuedCount
      BY <1>0 DEF Lowered
    <3>3. Cardinality(OpenEvents) \in Nat
      BY <1>0, FS_CardinalityType
    <3> QED
      BY <1>0, <1>3, <3>1, <3>2, <3>3
  <2> QED
    BY <2>1, <2>2
<1>9. /\ producer' \in [Producer -> {"idle", "waiting", "clear"}]
      /\ queuedCount' + PublishSize * Cardinality(ClearProducers')
           <= HighWatermark - 1 + PublishSize * Cardinality(Producer)
  BY <1>3, <1>8, RoomKept
<1>10. \A q \in Producer : producer'[q] = "waiting" => queuedCount' > LowWatermark
  BY <1>0, <1>3, <1>8 DEF Drained
<1>11. offsets' \in [Partition -> Int]
  BY <1>0, <1>2, <1>3, LenProperties DEF QueueShape
<1>12. leases' \in [Consumer -> SUBSET [slot : Slots', attempt : Nat]]
  <2>1. leases' = [leases EXCEPT ![c] = @ \ {l}]
    BY <1>3
  <2> QED
    BY <1>0, <1>6, <2>1 DEF QueueShape
<1>13. UNCHANGED <<deadLetters, members, owns, lost>>
  BY <1>3
<1>14. QueueShape'
  BY <1>0, <1>6, <1>8, <1>9, <1>11, <1>12, <1>13 DEF QueueShape, Rebalanced
<1> QED
  BY <1>8, <1>9, <1>10, <1>14 DEF QueueInv, CountInv

\* The lease of an event runs out.
LEMMA LeaseEndKeeps ==
  ASSUME QueueInv, NEW s \in Slots, EventLeaseEnds(s)
  PROVE  QueueInv'
<1> DEFINE e == [EventAt(s) EXCEPT !.expired = TRUE]
<1>0. QueueShape
  BY DEF QueueInv
<1>1. /\ s = <<s[1], s[2]>> /\ s[1] \in Partition /\ s[2] \in 1..Len(events[s[1]])
      /\ EventAt(s) \in QueuedEvent
  BY <1>0, SlotForm, ElementOfSeq DEF QueueShape, EventAt
<1>2. events' = [events EXCEPT ![s[1]][s[2]] = e]
  <2>1. /\ events[s[1]] \in Seq(QueuedEvent) /\ DOMAIN events[s[1]] = 1..Len(events[s[1]])
        /\ events \in [Partition -> Seq(QueuedEvent)]
    BY <1>0, <1>1, LenProperties DEF QueueShape
  <2> QED
    BY <1>1, <2>1 DEF EventLeaseEnds, EventAt
<1>3. e \in QueuedEvent /\ e.status = EventAt(s).status
  BY <1>1 DEF QueuedEvent
<1> HIDE DEF e
<1>4. /\ events' \in [Partition -> Seq(QueuedEvent)] /\ Slots' = Slots
      /\ \A t \in Slots : EventAt(t)' = IF t = s THEN e ELSE EventAt(t)
  BY <1>0, <1>2, <1>3, OneEvent
<1>5. OpenEvents' = OpenEvents
  <2>1. \A t : t \in OpenEvents' <=> t \in Slots /\ EventAt(t)'.status \in {"UNCOMMITTED", "ASSIGNED"}
    BY <1>4 DEF OpenEvents
  <2> QED
    BY <1>3, <1>4, <2>1 DEF OpenEvents
<1>6. UNCHANGED <<queuedCount, deadLetters, offsets, members, owns, leases, producer, lost>>
  BY DEF EventLeaseEnds
<1>7. ClearProducers' = ClearProducers
  BY <1>6 DEF ClearProducers
<1>8. QueueShape'
  BY <1>0, <1>4, <1>6 DEF QueueShape, Rebalanced
<1> QED
  BY <1>5, <1>6, <1>7, <1>8 DEF QueueInv, CountInv

\* Every step keeps the invariant.
LEMMA QueueInvStep ==
  ASSUME QueueInv, [DurableQueueNext]_queueVars
  PROVE  QueueInv'
<1>1. ASSUME NEW q \in Producer, AwaitDrain(q) PROVE QueueInv'
  BY <1>1, AwaitDrainKeeps
<1>2. ASSUME NEW q \in Producer, NEW p \in Partition, PublishBatch(q, p) PROVE QueueInv'
  BY <1>2, PublishKeeps
<1>3. ASSUME NEW ms \in Seq(Consumer), Regroup(ms) PROVE QueueInv'
  BY <1>3, RegroupShape, QuietCount DEF QueueInv, Regroup
<1>4. ASSUME NEW c \in Consumer, RegisterConsumer(c) PROVE QueueInv'
  <2>1. members \in Seq(Consumer) /\ Append(members, c) \in Seq(Consumer)
    BY AppendProperties DEF QueueInv, QueueShape
  <2> QED
    BY <1>3, <1>4, <2>1 DEF RegisterConsumer
<1>5. ASSUME NEW c \in Consumer, UnregisterConsumer(c) PROVE QueueInv'
  <2>1. PICK i \in DOMAIN members : Regroup(RemoveAt(members, i))
    BY <1>5 DEF UnregisterConsumer
  <2>2. members \in Seq(Consumer) /\ DOMAIN members = 1..Len(members) /\ Len(members) \in Nat
    BY LenProperties DEF QueueInv, QueueShape
  <2>3. \A j \in 1..Len(members) : members[j] \in Consumer
    BY <2>2, ElementOfSeq
  <2>4. SubSeq(members, 1, i - 1) \in Seq(Consumer)
    BY <2>2, <2>3, SubSeqProperties
  <2>5. SubSeq(members, i + 1, Len(members)) \in Seq(Consumer)
    BY <2>2, <2>3, SubSeqProperties
  <2>6. RemoveAt(members, i) \in Seq(Consumer)
    BY <2>4, <2>5, ConcatProperties DEF RemoveAt
  <2> QED
    BY <1>3, <2>1, <2>6
<1>6. ASSUME NEW c \in Consumer, ConsumerDies(c) PROVE QueueInv'
  <2>1. /\ lost' = lost \cup {c} /\ leases' = [leases EXCEPT ![c] = {}]
        /\ UNCHANGED <<events, queuedCount, deadLetters, offsets, members, owns, producer>>
    BY <1>6 DEF ConsumerDies
  <2>2. Slots' = Slots
    BY <2>1, SameLog
  <2>3. QueueShape'
    BY <2>1, <2>2 DEF QueueInv, QueueShape, Rebalanced
  <2> QED
    BY <2>1, <2>3, QuietCount DEF QueueInv
<1>7. ASSUME NEW c \in Consumer, PollLeases(c) PROVE QueueInv'
  BY <1>7, PollKeeps
<1>8. ASSUME NEW c \in Consumer, NEW l \in leases[c], CommitLease(c, l) PROVE QueueInv'
  BY <1>8, CommitKeeps
<1>9. ASSUME NEW c \in Consumer, NEW l \in leases[c], CommitWithoutEffect(c, l) PROVE QueueInv'
  <2>1. /\ leases' = [leases EXCEPT ![c] = @ \ {l}]
        /\ UNCHANGED <<events, queuedCount, deadLetters, offsets, members, owns, producer, lost>>
    BY <1>9 DEF CommitWithoutEffect
  <2>2. Slots' = Slots
    BY <2>1, SameLog
  <2>3. QueueShape'
    BY <2>1, <2>2 DEF QueueInv, QueueShape, Rebalanced
  <2> QED
    BY <2>1, <2>3, QuietCount DEF QueueInv
<1>10. ASSUME NEW s \in Slots, EventLeaseEnds(s) PROVE QueueInv'
  BY <1>10, LeaseEndKeeps
<1>11. CASE UNCHANGED queueVars
  <2>1. UNCHANGED <<events, queuedCount, deadLetters, offsets, members, owns, leases, producer, lost>>
    BY <1>11 DEF queueVars
  <2>2. Slots' = Slots
    BY <2>1, SameLog
  <2>3. QueueShape'
    BY <2>1, <2>2 DEF QueueInv, QueueShape, Rebalanced
  <2> QED
    BY <2>1, <2>3, QuietCount DEF QueueInv
<1> QED
  BY <1>1, <1>2, <1>4, <1>5, <1>6, <1>7, <1>8, <1>9, <1>10, <1>11 DEF DurableQueueNext

\* For any number of partitions, producers and consumers, any watermarks and
\* batch size, and any joins, deaths, stolen leases and late commits: a
\* partition of a non-empty group has one owner, no event is leased more than
\* maxRetries times, the count the watermarks are compared with covers no work
\* that is over and exceeds the high watermark by less than one batch of every
\* producer, and, while nothing is dead-lettered, a producer that waits has the
\* count above the low watermark and an open event left whose commit can wake it.
THEOREM QueueBackpressure == DurableQueueSpec => [](DurableQueueTypeOK /\ BackpressureSound)
<1>1. QueueInv => BackpressureSound
  <2> SUFFICES ASSUME QueueInv PROVE BackpressureSound
    OBVIOUS
  <2>1. /\ queuedCount \in Nat /\ {HighWatermark, LowWatermark, PublishSize} \subseteq Nat
        /\ PublishSize * Cardinality(ClearProducers) \in Nat
        /\ PublishSize * Cardinality(Producer) \in Nat
    BY DurableQueueAssumption, SomeProducers, Times DEF QueueInv, QueueShape
  <2>2. QueuedNeverOver
    BY DEF QueueInv, CountInv, QueuedNeverOver
  <2>3. BackpressureBound
    <3>1. Cardinality(Producer) * PublishSize = PublishSize * Cardinality(Producer)
      BY <2>1, SomeProducers
    <3> QED
      BY <2>1, <3>1 DEF QueueInv, CountInv, BackpressureBound
  <2>4. NoLostWakeup
    <3>1. OpenEvents = {} => queuedCount = 0
      BY <2>1, FS_EmptySet DEF QueueInv, CountInv
    <3> QED
      BY <2>1, <3>1 DEF QueueInv, CountInv, NoLostWakeup
  <2> QED
    BY <2>2, <2>3, <2>4 DEF BackpressureSound
<1>2. QueueInv => DurableQueueTypeOK
  BY ShapeIsType DEF QueueInv
<1> QED
  BY <1>1, <1>2, QueueInvInit, QueueInvStep, PTL DEF DurableQueueSpec

-----------------------------------------------------------------------------
(* The event broker. *)

\* A sequence of numbers in ascending order.
Ascending(s) == \A i, j \in 1..Len(s) : i < j => s[i] < s[j]

\* Every event of s comes before every event of t.
AllBefore(s, t) == \A x \in Range(s), y \in Range(t) : x < y

\* One more event at the end.
LEMMA AppendFacts ==
  ASSUME NEW n \in Nat, NEW s \in Seq(1..n), NEW e \in Nat
  PROVE  /\ Range(Append(s, e)) = Range(s) \cup {e}
         /\ Ascending(s) /\ (\A x \in Range(s) : x < e) => Ascending(Append(s, e))
<1> DEFINE t == Append(s, e)
<1>1. s \in Seq(Nat)
  OBVIOUS
<1>2. /\ Len(t) = Len(s) + 1 /\ Len(s) \in Nat /\ t[Len(s) + 1] = e
      /\ \A i \in 1..Len(s) : t[i] = s[i] /\ s[i] \in Nat
      /\ DOMAIN t = 1..Len(t) /\ DOMAIN s = 1..Len(s)
  BY <1>1, AppendProperties, LenProperties
<1> HIDE DEF t
<1>3. Range(t) = Range(s) \cup {e}
  BY <1>2 DEF Range
<1>4. ASSUME Ascending(s), \A x \in Range(s) : x < e PROVE Ascending(t)
  <2>1. \A i \in 1..Len(s) : s[i] < e
    BY <1>2, <1>4 DEF Range
  <2> QED
    BY <1>2, <1>4, <2>1 DEF Ascending
<1> QED
  BY <1>3, <1>4 DEF t

\* The first event taken away.
LEMMA TailFacts ==
  ASSUME NEW n \in Nat, NEW s \in Seq(1..n), s # << >>, Ascending(s)
  PROVE  /\ Tail(s) \in Seq(1..n) /\ Head(s) \in 1..n /\ Head(s) \in Range(s)
         /\ Range(Tail(s)) = Range(s) \ {Head(s)} /\ Ascending(Tail(s))
         /\ \A x \in Range(s) : Head(s) <= x
<1> DEFINE t == Tail(s)
<1>1. /\ Len(s) \in Nat \ {0} /\ DOMAIN s = 1..Len(s) /\ Head(s) = s[1]
      /\ \A i \in 1..Len(s) : s[i] \in 1..n
  BY LenProperties, EmptySeq
<1>2. /\ t \in Seq(1..n) /\ Head(s) \in 1..n /\ Len(t) = Len(s) - 1 /\ DOMAIN t = 1..Len(t)
      /\ \A i \in 1..Len(t) : t[i] = s[i + 1]
  BY HeadTailProperties, LenProperties
<1> HIDE DEF t
<1>3. \A i \in 2..Len(s) : s[1] < s[i]
  BY <1>1 DEF Ascending
<1>4. Range(t) = Range(s) \ {s[1]}
  <2>1. ASSUME NEW x \in Range(t) PROVE x \in Range(s) \ {s[1]}
    <3>1. PICK i \in 1..Len(t) : x = t[i]
      BY <1>2 DEF Range
    <3>2. i + 1 \in 2..Len(s) /\ x = s[i + 1]
      BY <1>1, <1>2, <3>1
    <3>3. s[1] < x /\ x \in 1..n
      BY <1>1, <1>3, <3>2
    <3>4. s[1] # x
      BY <1>1, <3>3
    <3> QED
      BY <1>1, <3>2, <3>4 DEF Range
  <2>2. ASSUME NEW x \in Range(s), x # s[1] PROVE x \in Range(t)
    <3>1. PICK i \in 1..Len(s) : x = s[i]
      BY <1>1 DEF Range
    <3>2. i - 1 \in 1..Len(t) /\ x = t[i - 1]
      BY <1>1, <1>2, <2>2, <3>1
    <3> QED
      BY <1>2, <3>2 DEF Range
  <2> QED
    BY <2>1, <2>2
<1>5. Ascending(t)
  BY <1>1, <1>2 DEF Ascending
<1>6. \A x \in Range(s) : s[1] <= x
  BY <1>1, <1>3 DEF Range
<1>7. Head(s) \in Range(s)
  BY <1>1 DEF Range
<1> QED
  BY <1>1, <1>2, <1>4, <1>5, <1>6, <1>7 DEF t

\* push and shift keep the limit, and push alone below it.
LEMMA PushedFacts ==
  ASSUME NEW n \in Nat, NEW s \in Seq(1..n), NEW e \in 1..n, NEW limit \in Nat \ {0},
         Len(s) <= limit
  PROVE  /\ Pushed(s, e, limit) \in Seq(1..n) /\ Len(Pushed(s, e, limit)) <= limit
         /\ Len(s) < limit => Pushed(s, e, limit) = Append(s, e)
<1> DEFINE t == Append(s, e)
<1>1. t \in Seq(1..n) /\ Len(t) = Len(s) + 1 /\ t # << >> /\ Len(s) \in Nat
  BY SMTT(30), AppendProperties, LenProperties
<1> HIDE DEF t
<1>2. Tail(t) \in Seq(1..n) /\ Len(Tail(t)) = Len(s)
  BY <1>1, HeadTailProperties
<1>3. Pushed(s, e, limit) = IF Len(t) > limit THEN Tail(t) ELSE t
  BY DEF Pushed, t
<1>4. /\ Pushed(s, e, limit) \in Seq(1..n) /\ Len(Pushed(s, e, limit)) <= limit
      /\ Len(s) < limit => Pushed(s, e, limit) = t
  <2>1. CASE Len(t) > limit
    <3>1. Pushed(s, e, limit) = Tail(t) /\ ~(Len(s) < limit)
      BY <1>1, <1>3, <2>1
    <3> QED
      BY <1>2, <3>1
  <2>2. CASE ~(Len(t) > limit)
    <3>1. Pushed(s, e, limit) = t /\ Len(t) <= limit
      BY <1>1, <1>3, <2>2
    <3> QED
      BY <1>1, <3>1
  <2> QED
    BY <2>1, <2>2
<1> QED
  BY <1>4 DEF t

\* A set of positions that is not empty has a last one.
LEMMA LastPosition ==
  ASSUME NEW n \in Nat, NEW S \in SUBSET (1..n), S # {}
  PROVE  Max(S) \in S /\ \A i \in S : i <= Max(S)
<1> DEFINE T == {k \in Nat : n - k \in S}
<1>1. T # {} /\ T \subseteq Nat
  <2>1. PICK i \in S : TRUE
    OBVIOUS
  <2>2. n - i \in Nat /\ n - (n - i) = i
    OBVIOUS
  <2> QED
    BY <2>2
<1>2. PICK k \in T : \A m \in T : ~(<<m, k>> \in OpToRel(<, Nat))
  BY <1>1, NatLessThanWellFounded, WFMin
<1>3. \A m \in T : ~(m < k)
  BY <1>1, <1>2 DEF OpToRel
<1>4. n - k \in S /\ \A i \in S : n - k >= i
  <2>1. ASSUME NEW i \in S PROVE n - k >= i
    <3>1. n - i \in T
      <4>1. n - i \in Nat /\ n - (n - i) = i
        OBVIOUS
      <4> QED
        BY <4>1
    <3> QED
      BY <1>3, <3>1
  <2> QED
    BY <2>1
<1>5. Max(S) \in S /\ \A i \in S : Max(S) >= i
  BY <1>4 DEF Max
<1> QED
  BY <1>5

-----------------------------------------------------------------------------

ClientOf(n) == [connected : BOOLEAN, last : 0..n, received : SUBSET (1..n)]

InFlight == Range(calling) \cup Range(notified)

\* Events are on their way in the order of their publication.
InOrder == Ascending(calling) /\ Ascending(notified) /\ AllBefore(notified, calling)

\* What holds as long as nothing was excused: the store has everything, a client
\* has everything up to the id it remembers, and while it is connected also what
\* is published and not on its way.
NothingMissed ==
  ~excused =>
    /\ Len(store) = published /\ \A i \in 1..published : store[i] = i
    /\ 1..client.last \subseteq client.received
    /\ client.connected => (1..published) \ InFlight \subseteq client.received

\* The inductive invariant behind GapOnlyWhenExcused.
BrokerInv == BrokerTypeOK /\ InOrder /\ NothingMissed

\* What events sent to a client do to it.
LEMMA SentFacts ==
  ASSUME NEW n \in Nat, NEW c \in ClientOf(n), NEW log \in Seq(1..n),
         NEW is \in SUBSET DOMAIN log
  PROVE  /\ Sent(c, log, is) \in ClientOf(n) /\ Sent(c, log, is).connected = c.connected
         /\ Sent(c, log, is).received = c.received \cup {log[i] : i \in is}
<1>1. PICK R \in SUBSET (1..n) : R = c.received \cup {log[i] : i \in is}
  <2>1. c.received \in SUBSET (1..n)
    BY DEF ClientOf
  <2>2. {log[i] : i \in is} \in SUBSET (1..n)
    OBVIOUS
  <2> QED
    BY <2>1, <2>2
<1>2. PICK l \in 0..n : l = IF is = {} THEN c.last ELSE log[Max(is)]
  <2>1. CASE is = {}
    BY <2>1 DEF ClientOf
  <2>2. CASE is # {}
    <3>1. is \in SUBSET (1..Len(log)) /\ Len(log) \in Nat
      BY LenProperties
    <3>2. Max(is) \in is
      BY <2>2, <3>1, LastPosition
    <3>3. log[Max(is)] \in 0..n
      BY <3>2
    <3> QED
      BY <2>2, <3>3
  <2> QED
    BY <2>1, <2>2
<1>3. Sent(c, log, is) = [c EXCEPT !.received = R, !.last = l]
  BY <1>1, <1>2 DEF Sent
<1>4. /\ [c EXCEPT !.received = R, !.last = l] \in ClientOf(n)
      /\ [c EXCEPT !.received = R, !.last = l].connected = c.connected
      /\ [c EXCEPT !.received = R, !.last = l].received = R
  BY DEF ClientOf
<1> QED
  BY <1>1, <1>3, <1>4

\* What an emitted event does to the client.
LEMMA EmittedFacts ==
  ASSUME NEW n \in Nat, client \in ClientOf(n), NEW e \in 1..n
  PROVE  /\ Emitted(e) \in ClientOf(n) /\ Emitted(e).connected = client.connected
         /\ client.connected => Emitted(e).received = client.received \cup {e}
                                /\ Emitted(e).last = e
         /\ ~client.connected => Emitted(e) = client
<1>1. Max({1}) = 1
  BY LastPosition
<1>2. <<e>>[1] = e /\ {<<e>>[i] : i \in {1}} = {e}
  OBVIOUS
<1>3. Sent(client, <<e>>, {1}) =
        [client EXCEPT !.received = client.received \cup {e}, !.last = e]
  BY <1>1, <1>2 DEF Sent
<1>4. client.received \cup {e} \in SUBSET (1..n) /\ e \in 0..n
  BY DEF ClientOf
<1>5. /\ Sent(client, <<e>>, {1}) \in ClientOf(n)
      /\ Sent(client, <<e>>, {1}).connected = client.connected
      /\ Sent(client, <<e>>, {1}).received = client.received \cup {e}
      /\ Sent(client, <<e>>, {1}).last = e
  <2>0. PICK R \in SUBSET (1..n) : R = client.received \cup {e}
    BY <1>4
  <2>1. /\ [client EXCEPT !.received = R, !.last = e] \in ClientOf(n)
        /\ [client EXCEPT !.received = R, !.last = e].connected = client.connected
        /\ [client EXCEPT !.received = R, !.last = e].received = R
        /\ [client EXCEPT !.received = R, !.last = e].last = e
    BY <1>4 DEF ClientOf
  <2> QED
    BY <1>3, <2>0, <2>1
<1>6. CASE client.connected
  <2>1. Emitted(e) = Sent(client, <<e>>, {1})
    BY <1>6 DEF Emitted
  <2> QED
    BY <1>5, <1>6, <2>1
<1>7. CASE ~client.connected
  <2>1. Emitted(e) = client
    BY <1>7 DEF Emitted
  <2> QED
    BY <1>7, <2>1
<1> QED
  BY <1>6, <1>7

\* A client that was sent e, which nothing on its way overtakes, has everything
\* up to e.
LEMMA EmissionKeeps ==
  ASSUME BrokerInv, ~excused, NEW n \in Nat, published <= n, NEW e \in 1..n, client \in ClientOf(n),
         \A x \in InFlight : ~(x < e), e \in InFlight \/ e = published + 1,
         client' = Emitted(e)
  PROVE  /\ 1..client'.last \subseteq client'.received
         /\ client'.connected => ((1..published) \ InFlight) \cup {e} \subseteq client'.received
<1>1. /\ 1..client.last \subseteq client.received /\ published \in Nat
      /\ client.connected => (1..published) \ InFlight \subseteq client.received
      /\ InFlight \subseteq 1..published
  <2>1. calling \in Seq(1..published) /\ notified \in Seq(1..published) /\ published \in Nat
    BY BrokerAssumption DEF BrokerInv, BrokerTypeOK
  <2>2. InFlight \subseteq 1..published
    BY <2>1, RangeOfSeq DEF InFlight
  <2> QED
    BY <2>1, <2>2 DEF BrokerInv, NothingMissed
<1>2. CASE client.connected
  <2>1. client'.received = client.received \cup {e} /\ client'.last = e
    BY <1>2, EmittedFacts
  <2>2. \A x \in 1..(e - 1) : x \in 1..published /\ x \notin InFlight
    BY <1>1
  <2>3. 1..e \subseteq client.received \cup {e}
    BY <1>1, <1>2, <2>2
  <2> QED
    BY <1>1, <1>2, <2>1, <2>3
<1>3. CASE ~client.connected
  BY <1>1, <1>3, EmittedFacts
<1> QED
  BY <1>2, <1>3 DEF ClientOf

\* A store that has everything has the next event too.
LEMMA PublishedStore ==
  ASSUME NEW n \in Nat, NEW S, NEW s \in Seq(S), Len(s) = n, \A i \in 1..n : s[i] = i
  PROVE  /\ Len(Append(s, n + 1)) = n + 1
         /\ \A i \in 1..(n + 1) : Append(s, n + 1)[i] = i
  OBVIOUS

\* The types of what is on its way, in one place.
LEMMA FlightType ==
  ASSUME BrokerTypeOK
  PROVE  /\ published \in Nat /\ MaxPublished \in Nat
         /\ calling \in Seq(1..published) /\ notified \in Seq(1..published)
         /\ cache \in Seq(1..published) /\ store \in Seq(1..published)
         /\ InFlight \subseteq 1..published /\ client \in ClientOf(published)
         /\ Range(calling) \subseteq 1..published /\ Range(notified) \subseteq 1..published
<1>1. /\ published \in Nat /\ MaxPublished \in Nat
      /\ calling \in Seq(1..published) /\ notified \in Seq(1..published)
      /\ cache \in Seq(1..published) /\ store \in Seq(1..published)
      /\ client \in ClientOf(published)
  BY BrokerAssumption DEF BrokerTypeOK, ClientOf
<1> QED
  BY <1>1, RangeOfSeq DEF InFlight

\* The NOTIFY of the oldest event is accepted.
LEMMA AcceptedKeeps ==
  ASSUME BrokerInv, NotifyAccepted
  PROVE  BrokerInv'
<1> DEFINE e == Head(calling)
<1>1. /\ calling # << >> /\ notified' = Append(notified, e) /\ calling' = Tail(calling)
      /\ UNCHANGED <<listening, published, store, cache, client, reconnects, excused>>
  BY DEF NotifyAccepted
<1>2. /\ calling' \in Seq(1..published) /\ e \in 1..published /\ e \in Range(calling)
      /\ Range(calling') = Range(calling) \ {e} /\ Ascending(calling')
      /\ \A x \in Range(calling) : e <= x
  BY <1>1, FlightType, TailFacts DEF BrokerInv, InOrder
<1> HIDE DEF e
<1>3. Range(notified') = Range(notified) \cup {e} /\ notified' \in Seq(1..published)
  <2>1. e \in Nat
    BY <1>2, FlightType DEF BrokerInv
  <2>2. Range(notified') = Range(notified) \cup {e}
    BY <1>1, <2>1, FlightType, AppendFacts DEF BrokerInv
  <2> QED
    BY <1>1, <1>2, <2>2, FlightType, AppendProperties DEF BrokerInv
<1>4. Ascending(notified')
  <2>1. \A x \in Range(notified) : x < e
    BY <1>2 DEF BrokerInv, InOrder, AllBefore
  <2>2. e \in Nat
    BY <1>2, FlightType DEF BrokerInv
  <2> QED
    BY <1>1, <2>1, <2>2, FlightType, AppendFacts DEF BrokerInv, InOrder
<1>5. AllBefore(notified', calling')
  <2>1. Range(calling) \subseteq 1..published /\ published \in Nat
    BY FlightType DEF BrokerInv
  <2> QED
    BY <1>2, <1>3, <2>1 DEF BrokerInv, InOrder, AllBefore
<1>6. InFlight' = InFlight
  BY <1>2, <1>3 DEF InFlight
<1>7. BrokerTypeOK'
  BY <1>1, <1>2, <1>3 DEF BrokerInv, BrokerTypeOK
<1>8. NothingMissed'
  BY <1>1, <1>6 DEF BrokerInv, NothingMissed
<1> QED
  BY <1>2, <1>4, <1>5, <1>7, <1>8 DEF BrokerInv, InOrder

\* The event at the head of a queue is emitted and leaves it.
LEMMA NotifyFailsKeeps ==
  ASSUME BrokerInv, NotifyFails
  PROVE  BrokerInv'
<1> DEFINE e == Head(calling)
<1>1. /\ calling # << >> /\ client' = Emitted(e) /\ calling' = Tail(calling)
      /\ excused' = (excused \/ Overtakes(e))
      /\ UNCHANGED <<listening, published, store, cache, notified, reconnects>>
  BY DEF NotifyFails
<1>2. /\ calling' \in Seq(1..published) /\ e \in 1..published /\ e \in Range(calling)
      /\ Range(calling') = Range(calling) \ {e} /\ Ascending(calling')
  BY <1>1, FlightType, TailFacts DEF BrokerInv, InOrder
<1> HIDE DEF e
<1>3. client' \in ClientOf(published) /\ published \in Nat
  BY <1>1, <1>2, FlightType, EmittedFacts DEF BrokerInv
<1>4. BrokerTypeOK'
  BY <1>1, <1>2, <1>3 DEF BrokerInv, BrokerTypeOK, ClientOf
<1>5. InOrder'
  BY <1>1, <1>2 DEF BrokerInv, InOrder, AllBefore
<1>6. NothingMissed'
  <2> SUFFICES ASSUME ~excused' PROVE NothingMissed'
    BY DEF NothingMissed
  <2>1. ~excused /\ \A x \in InFlight : ~(x < e)
    BY <1>1 DEF Overtakes, InFlight
  <2>2. e \in InFlight /\ client \in ClientOf(published)
    BY <1>2, FlightType DEF InFlight, BrokerInv
  <2>5. published <= published
    BY <1>3
  <2>3. /\ 1..client'.last \subseteq client'.received
        /\ client'.connected => ((1..published) \ InFlight) \cup {e} \subseteq client'.received
    BY <1>1, <1>2, <1>3, <2>1, <2>2, <2>5, EmissionKeeps
  <2>4. \A x \in 1..published : x \notin InFlight' => x \notin InFlight \/ x = e
    BY <1>1, <1>2 DEF InFlight
  <2> QED
    BY <1>1, <2>1, <2>3, <2>4 DEF BrokerInv, NothingMissed
<1> QED
  BY <1>4, <1>5, <1>6 DEF BrokerInv

\* The oldest notification comes back.
LEMMA ArrivesKeeps ==
  ASSUME BrokerInv, NotificationArrives
  PROVE  BrokerInv'
<1> DEFINE e == Head(notified)
<1>1. /\ notified # << >> /\ client' = Emitted(e) /\ notified' = Tail(notified)
      /\ cache' = Pushed(cache, e, CacheLimit)
      /\ UNCHANGED <<listening, published, store, calling, reconnects, excused>>
  BY DEF NotificationArrives
<1>2. /\ notified' \in Seq(1..published) /\ e \in 1..published /\ e \in Range(notified)
      /\ Range(notified') = Range(notified) \ {e} /\ Ascending(notified')
      /\ \A x \in Range(notified) : e <= x
  BY <1>1, FlightType, TailFacts DEF BrokerInv, InOrder
<1> HIDE DEF e
<1>3. client' \in ClientOf(published) /\ published \in Nat
  BY <1>1, <1>2, FlightType, EmittedFacts DEF BrokerInv
<1>4. cache' \in Seq(1..published) /\ Len(cache') <= CacheLimit
  BY <1>1, <1>2, <1>3, PushedFacts, FlightType, BrokerAssumption DEF BrokerInv, BrokerTypeOK
<1>5. BrokerTypeOK'
  BY <1>1, <1>2, <1>3, <1>4 DEF BrokerInv, BrokerTypeOK, ClientOf
<1>6. InOrder'
  BY <1>1, <1>2 DEF BrokerInv, InOrder, AllBefore
<1>7. NothingMissed'
  <2> SUFFICES ASSUME ~excused PROVE NothingMissed'
    BY <1>1 DEF NothingMissed
  <2>1. \A x \in InFlight : ~(x < e)
    <3>1. Range(calling) \subseteq 1..published /\ Range(notified) \subseteq 1..published
      BY FlightType DEF BrokerInv
    <3>2. \A x \in Range(calling) : e < x
      BY <1>2 DEF BrokerInv, InOrder, AllBefore
    <3> QED
      BY <1>2, <1>3, <3>1, <3>2 DEF InFlight
  <2>2. e \in InFlight /\ client \in ClientOf(published)
    BY <1>2, FlightType DEF InFlight, BrokerInv
  <2>5. published <= published
    BY <1>3
  <2>3. /\ 1..client'.last \subseteq client'.received
        /\ client'.connected => ((1..published) \ InFlight) \cup {e} \subseteq client'.received
    BY <1>1, <1>2, <1>3, <2>1, <2>2, <2>5, EmissionKeeps
  <2>4. \A x \in 1..published : x \notin InFlight' => x \notin InFlight \/ x = e
    BY <1>1, <1>2 DEF InFlight
  <2> QED
    BY <1>1, <2>3, <2>4 DEF BrokerInv, NothingMissed
<1> QED
  BY <1>5, <1>6, <1>7 DEF BrokerInv

\* Something is published.
LEMMA PublishEventKeeps ==
  ASSUME BrokerInv, PublishEvent
  PROVE  BrokerInv'
<1> DEFINE e == published + 1
<1>1. /\ published < MaxPublished /\ published' = e
      /\ store' = Pushed(store, e, StoreLimit) /\ cache' = Pushed(cache, e, CacheLimit)
      /\ \/ calling' = Append(calling, e) /\ UNCHANGED client
         \/ client' = Emitted(e) /\ UNCHANGED calling /\ (~excused' => ~Overtakes(e))
      /\ ~excused' => ~excused /\ ~(Len(store) >= StoreLimit)
      /\ excused' \in BOOLEAN
      /\ UNCHANGED <<listening, notified, reconnects>>
  BY DEF PublishEvent
<1>2. /\ published \in Nat /\ MaxPublished \in Nat /\ e \in 1..e /\ e \in Nat
      /\ \A S : S \subseteq 1..published => S \subseteq 1..e
      /\ calling \in Seq(1..e) /\ notified \in Seq(1..e)
      /\ cache \in Seq(1..e) /\ store \in Seq(1..e) /\ client \in ClientOf(e)
      /\ InFlight \subseteq 1..published
      /\ Len(store) <= StoreLimit /\ Len(cache) <= CacheLimit
      /\ StoreLimit \in Nat \ {0} /\ CacheLimit \in Nat \ {0}
  <2>1. /\ published \in Nat /\ MaxPublished \in Nat
         /\ calling \in Seq(1..published) /\ notified \in Seq(1..published)
         /\ cache \in Seq(1..published) /\ store \in Seq(1..published)
         /\ InFlight \subseteq 1..published /\ client \in ClientOf(published)
    BY FlightType DEF BrokerInv
  <2>2. 1..published \subseteq 1..e /\ 0..published \subseteq 0..e
    BY <2>1
  <2>3. \A s \in Seq(1..published) : s \in Seq(1..e)
    BY <2>1, <2>2
  <2>4. client \in ClientOf(e)
    BY <2>1, <2>2 DEF ClientOf
  <2> QED
    BY <2>1, <2>2, <2>3, <2>4, BrokerAssumption DEF BrokerInv, BrokerTypeOK
<1> HIDE DEF e
<1>3. /\ store' \in Seq(1..e) /\ Len(store') <= StoreLimit
      /\ Len(store) < StoreLimit => store' = Append(store, e)
  BY <1>1, <1>2, PushedFacts
<1>4. cache' \in Seq(1..e) /\ Len(cache') <= CacheLimit
  BY <1>1, <1>2, PushedFacts
<1>5. client' \in ClientOf(e)
  BY <1>1, <1>2, EmittedFacts
<1>6. calling' \in Seq(1..e)
  <2>1. Append(calling, e) \in Seq(1..e)
    BY <1>2, AppendProperties
  <2> QED
    BY <1>1, <1>2, <2>1
<1>7. BrokerTypeOK'
  <2>1. e \in 0..MaxPublished
    BY <1>1, <1>2 DEF e
  <2> QED
    BY <1>1, <1>2, <1>3, <1>4, <1>5, <1>6, <2>1 DEF BrokerInv, BrokerTypeOK, ClientOf
<1>8. \A x \in InFlight : x < e
  BY <1>2 DEF e
<1>a. ASSUME ~excused'
      PROVE  ~excused /\ Len(store') = published' /\ \A i \in 1..published' : store'[i] = i
  <2>1. ~excused /\ store' = Append(store, published + 1)
    BY <1>a, <1>1, <1>2, <1>3, LenProperties DEF e
  <2>2. Len(store) = published /\ \A i \in 1..published : store[i] = i
    BY <2>1 DEF BrokerInv, NothingMissed
  <2>3. /\ Len(Append(store, published + 1)) = published + 1
        /\ \A i \in 1..(published + 1) : Append(store, published + 1)[i] = i
    BY <1>2, <2>2, PublishedStore
  <2> QED
    BY <1>1, <2>1, <2>3 DEF e
<1>9. CASE calling' = Append(calling, e) /\ UNCHANGED client
  <2>1. Range(calling') = Range(calling) \cup {e} /\ Ascending(calling')
    BY <1>2, <1>8, <1>9, AppendFacts DEF BrokerInv, InOrder, InFlight
  <2>2. InOrder'
    BY <1>1, <1>8, <2>1 DEF BrokerInv, InOrder, AllBefore, InFlight
  <2>3. InFlight' = InFlight \cup {e}
    BY <1>1, <2>1 DEF InFlight
  <2>4. NothingMissed'
    <3> SUFFICES ASSUME ~excused' PROVE NothingMissed'
      BY DEF NothingMissed
    <3>1. \A x \in 1..e : x \in 1..published \/ x = e
      BY <1>2 DEF e
    <3>2. /\ 1..client.last \subseteq client.received
          /\ client.connected => (1..published) \ InFlight \subseteq client.received
      BY <1>a DEF BrokerInv, NothingMissed
    <3> QED
      BY <1>1, <1>9, <1>a, <2>3, <3>1, <3>2 DEF NothingMissed
  <2> QED
    BY <1>7, <2>2, <2>4 DEF BrokerInv
<1>10. CASE client' = Emitted(e) /\ UNCHANGED calling /\ (~excused' => ~Overtakes(e))
  <2>1. InOrder' /\ InFlight' = InFlight
    BY <1>1, <1>10 DEF BrokerInv, InOrder, AllBefore, InFlight
  <2>2. NothingMissed'
    <3> SUFFICES ASSUME ~excused' PROVE NothingMissed'
      BY DEF NothingMissed
    <3>1. \A x \in InFlight : ~(x < e)
      BY <1>10 DEF Overtakes, InFlight
    <3>2. /\ 1..client'.last \subseteq client'.received
          /\ client'.connected => ((1..published) \ InFlight) \cup {e} \subseteq client'.received
      <4>1. published <= e /\ e = published + 1
        BY <1>2 DEF e
      <4> QED
        BY <1>a, <1>2, <1>10, <3>1, <4>1, EmissionKeeps
    <3>3. \A x \in 1..e : x \in 1..published \/ x = e
      BY <1>2 DEF e
    <3>4. Len(store') = published' /\ \A i \in 1..published' : store'[i] = i
      BY <1>a
    <3> QED
      BY <1>1, <2>1, <3>2, <3>3, <3>4 DEF NothingMissed
  <2> QED
    BY <1>7, <2>1, <2>2 DEF BrokerInv
<1> QED
  BY <1>1, <1>9, <1>10

\* The replay of a store that has everything, when it is not longer than the
\* limit, is everything after the threshold.
LEMMA ReplayComplete ==
  ASSUME NEW n \in Nat, store \in Seq(1..n), Len(store) = n, \A i \in 1..n : store[i] = i,
         NEW t \in Nat, n - t <= ReplayLimit, ReplayLimit \in Nat
  PROVE  Missed(t) = (t + 1)..n /\ {store[i] : i \in Missed(t)} = (t + 1)..n
<1>1. After(t) = (t + 1)..n
  <2>1. DOMAIN store = 1..n
    BY LenProperties
  <2> QED
    BY <2>1 DEF After
<1>2. ASSUME NEW i \in After(t)
      PROVE  Cardinality({j \in After(t) : j < i}) < ReplayLimit
  <2>1. {j \in After(t) : j < i} = (t + 1)..(i - 1) /\ i \in (t + 1)..n
    BY <1>1, <1>2
  <2>2. t + 1 \in Int /\ i - 1 \in Int /\ t + 1 <= i
    BY <2>1
  <2>3. Cardinality((t + 1)..(i - 1)) =
          IF (t + 1) > (i - 1) THEN 0 ELSE (i - 1) - (t + 1) + 1
    BY <2>2, FS_Interval
  <2>4. Cardinality((t + 1)..(i - 1)) = (i - 1) - t
    BY <2>1, <2>2, <2>3
  <2>5. (i - 1) - t < ReplayLimit
    BY <2>1
  <2> QED
    BY <2>1, <2>4, <2>5
<1>3. Missed(t) = (t + 1)..n
  BY <1>1, <1>2 DEF Missed
<1> QED
  BY <1>3

\* A client comes, for the first time or again.
LEMMA ConnectKeeps ==
  ASSUME BrokerInv, Connect
  PROVE  BrokerInv'
<1> DEFINE welcomed == [client EXCEPT !.connected = TRUE, !.last = 0]
           n == published
           t == SeqThreshold(client.last)
<1>1. /\ reconnects < MaxReconnects /\ reconnects' = reconnects + 1
      /\ UNCHANGED <<listening, published, store, cache, calling, notified>>
      /\ \/ /\ client' = [welcomed EXCEPT !.received = 1..n] /\ UNCHANGED excused
         \/ /\ client' = CaughtUp(welcomed, client.last)
            /\ excused' = (excused \/ n - t > ReplayLimit)
  BY DEF Connect
<1>2. n \in Nat /\ store \in Seq(1..n) /\ cache \in Seq(1..n) /\ client \in ClientOf(n)
  BY FlightType DEF BrokerInv
<1>3. client.last \in 0..n
  BY <1>2 DEF ClientOf
<1>4. welcomed \in ClientOf(n) /\ welcomed.received = client.received
  <2>0. PICK b \in BOOLEAN : b = TRUE
    OBVIOUS
  <2>1. PICK l \in 0..n : l = 0
    BY <1>2
  <2>2. /\ [client EXCEPT !.connected = b, !.last = l] \in ClientOf(n)
        /\ [client EXCEPT !.connected = b, !.last = l].received = client.received
    BY <1>2 DEF ClientOf
  <2> QED
    BY <2>0, <2>1, <2>2
<1> HIDE DEF welcomed
<1>5. /\ [welcomed EXCEPT !.received = 1..n] \in ClientOf(n)
      /\ [welcomed EXCEPT !.received = 1..n].received = 1..n
  <2>1. PICK R \in SUBSET (1..n) : R = 1..n
    OBVIOUS
  <2>2. [welcomed EXCEPT !.received = R] \in ClientOf(n) /\ [welcomed EXCEPT !.received = R].received = R
    BY <1>4 DEF ClientOf
  <2> QED
    BY <2>1, <2>2
<1>6. t \in 0..n /\ (t = client.last \/ t = 0)
  BY <1>2, <1>3 DEF SeqThreshold
<1> HIDE DEF t
<1>7. Missed(t) \in SUBSET DOMAIN store /\ CachedAfter(client.last) \in SUBSET DOMAIN cache
  BY DEF Missed, After, CachedAfter
<1>8. /\ CaughtUp(welcomed, client.last) \in ClientOf(n)
      /\ client.received \subseteq CaughtUp(welcomed, client.last).received
      /\ Missed(t) # {} => {store[i] : i \in Missed(t)}
                             \subseteq CaughtUp(welcomed, client.last).received
  <2>1. CaughtUp(welcomed, client.last) =
          IF Missed(t) # {} THEN Sent(welcomed, store, Missed(t))
                            ELSE Sent(welcomed, cache, CachedAfter(client.last))
    BY DEF CaughtUp, t
  <2>2. /\ Sent(welcomed, store, Missed(t)) \in ClientOf(n)
        /\ Sent(welcomed, store, Missed(t)).received =
             welcomed.received \cup {store[i] : i \in Missed(t)}
    BY <1>2, <1>4, <1>7, SentFacts
  <2>3. /\ Sent(welcomed, cache, CachedAfter(client.last)) \in ClientOf(n)
        /\ Sent(welcomed, cache, CachedAfter(client.last)).received =
             welcomed.received \cup {cache[i] : i \in CachedAfter(client.last)}
    BY <1>2, <1>4, <1>7, SentFacts
  <2>4. CASE Missed(t) # {}
    BY <1>4, <2>1, <2>2, <2>4
  <2>5. CASE Missed(t) = {}
    BY <1>4, <2>1, <2>3, <2>5
  <2> QED
    BY <2>4, <2>5
<1>9. client' \in ClientOf(n) /\ excused' \in BOOLEAN
  BY <1>1, <1>5, <1>8 DEF BrokerInv, BrokerTypeOK
<1>10. BrokerTypeOK'
  <2>1. reconnects' \in 0..MaxReconnects
    BY <1>1, BrokerAssumption DEF BrokerInv, BrokerTypeOK
  <2> QED
    BY <1>1, <1>9, <2>1 DEF BrokerInv, BrokerTypeOK, ClientOf
<1>11. InOrder'
  BY <1>1 DEF BrokerInv, InOrder
<1>12. ASSUME ~excused' PROVE 1..n \subseteq client'.received
  <2>1. CASE client' = [welcomed EXCEPT !.received = 1..n] /\ UNCHANGED excused
    BY <1>5, <2>1
  <2>2. CASE /\ client' = CaughtUp(welcomed, client.last)
             /\ excused' = (excused \/ n - t > ReplayLimit)
    <3>0. ~excused /\ ~(n - t > ReplayLimit)
      BY <1>12, <2>2
    <3>a. ReplayLimit \in Nat /\ t \in Nat
      BY <1>2, <1>6, BrokerAssumption
    <3>1. ~excused /\ n - t <= ReplayLimit /\ ReplayLimit \in Nat /\ t \in Nat
      BY <1>2, <3>0, <3>a
    <3>2. /\ Len(store) = n /\ \A i \in 1..n : store[i] = i
          /\ 1..client.last \subseteq client.received
      BY <3>1 DEF BrokerInv, NothingMissed
    <3>3. Missed(t) = (t + 1)..n /\ {store[i] : i \in Missed(t)} = (t + 1)..n
      BY <1>2, <3>1, <3>2, ReplayComplete
    <3>4. 1..t \subseteq client'.received
      BY <1>6, <1>8, <2>2, <3>2
    <3>5. (t + 1)..n \subseteq client'.received
      BY <1>8, <2>2, <3>3
    <3>6. \A x \in 1..n : x \in 1..t \/ x \in (t + 1)..n
      BY <1>2, <3>1
    <3> QED
      BY <3>4, <3>5, <3>6
  <2> QED
    BY <1>1, <2>1, <2>2
<1>13. NothingMissed'
  <2> SUFFICES ASSUME ~excused' PROVE NothingMissed'
    BY DEF NothingMissed
  <2>1. ~excused
    BY <1>1
  <2>2. client'.last \in 0..n
    BY <1>9 DEF ClientOf
  <2>3. 1..client'.last \subseteq client'.received
    BY <1>2, <1>12, <2>2
  <2> QED
    BY <1>1, <1>12, <2>1, <2>3 DEF BrokerInv, NothingMissed
<1> QED
  BY <1>10, <1>11, <1>13 DEF BrokerInv

\* Steps that send nothing.
LEMMA QuietKeeps ==
  ASSUME BrokerInv, ListenerStarts \/ ListenerFails \/ Disconnect \/ UNCHANGED brokerVars
  PROVE  BrokerInv'
<1>1. CASE ListenerStarts
  BY <1>1 DEF ListenerStarts, BrokerInv, BrokerTypeOK, InOrder, AllBefore, NothingMissed, InFlight
<1>2. CASE ListenerFails
  <2>1. /\ notified' = << >> /\ listening' = "failed" /\ excused' = (excused \/ notified # << >>)
        /\ UNCHANGED <<published, store, cache, calling, client, reconnects>>
    BY <1>2 DEF ListenerFails
  <2>2. BrokerTypeOK'
    BY <2>1 DEF BrokerInv, BrokerTypeOK
  <2>3. InOrder'
    <3>1. Range(<< >>) = {} /\ Len(<< >>) = 0
      BY DEF Range
    <3>2. Ascending(notified') /\ AllBefore(notified', calling')
      BY <2>1, <3>1 DEF Ascending, AllBefore
    <3> QED
      BY <2>1, <3>2 DEF BrokerInv, InOrder
  <2>4. NothingMissed'
    <3> SUFFICES ASSUME ~excused' PROVE NothingMissed'
      BY DEF NothingMissed
    <3>1. ~excused /\ notified' = notified
      BY <2>1
    <3> QED
      BY <2>1, <3>1 DEF BrokerInv, NothingMissed, InFlight
  <2> QED
    BY <2>2, <2>3, <2>4 DEF BrokerInv
<1>3. CASE Disconnect
  <2>1. /\ client' = [client EXCEPT !.connected = FALSE]
        /\ UNCHANGED <<listening, published, store, cache, calling, notified, reconnects, excused>>
    BY <1>3 DEF Disconnect
  <2>2. client \in ClientOf(published)
    BY FlightType DEF BrokerInv
  <2>3. /\ client' \in ClientOf(published) /\ client'.connected = FALSE
        /\ client'.last = client.last /\ client'.received = client.received
    BY <2>1, <2>2 DEF ClientOf
  <2>4. BrokerTypeOK'
    BY <2>1, <2>3 DEF BrokerInv, BrokerTypeOK, ClientOf
  <2> QED
    BY <2>1, <2>3, <2>4 DEF BrokerInv, InOrder, NothingMissed
<1>4. CASE UNCHANGED brokerVars
  BY <1>4 DEF brokerVars, BrokerInv, BrokerTypeOK, InOrder, AllBefore, NothingMissed, InFlight
<1> QED
  BY <1>1, <1>2, <1>3, <1>4

\* Nothing was published, nothing was missed.
LEMMA BrokerInvInit ==
  ASSUME BrokerInit
  PROVE  BrokerInv
<1>a. {} \in SUBSET (1..0) /\ 0 \in 0..0
  OBVIOUS
<1>b. [connected |-> FALSE, last |-> 0, received |-> {}] \in ClientOf(0)
  BY <1>a DEF ClientOf
<1>c. CacheLimit \in Nat /\ StoreLimit \in Nat /\ MaxPublished \in Nat /\ MaxReconnects \in Nat
  BY BrokerAssumption
<1>d. << >> \in Seq(1..0) /\ Len(<< >>) = 0
  OBVIOUS
<1>e. client \in ClientOf(published)
  BY <1>b DEF BrokerInit
<1>f. published \in 0..MaxPublished /\ reconnects \in 0..MaxReconnects
  BY <1>c DEF BrokerInit
<1>h. listening \in {"off", "starting", "on", "failed"} /\ excused \in BOOLEAN
  BY DEF BrokerInit
<1>g. /\ store \in Seq(1..published) /\ Len(store) <= StoreLimit
      /\ cache \in Seq(1..published) /\ Len(cache) <= CacheLimit
      /\ calling \in Seq(1..published) /\ notified \in Seq(1..published)
  BY <1>c, <1>d DEF BrokerInit
<1>1. BrokerTypeOK
  BY <1>e, <1>f, <1>g, <1>h DEF BrokerTypeOK, ClientOf
<1>2. Range(<< >>) = {} /\ Len(<< >>) = 0
  BY DEF Range
<1>3. InOrder
  BY <1>2 DEF BrokerInit, InOrder, Ascending, AllBefore
<1>4. NothingMissed
  BY <1>2 DEF BrokerInit, NothingMissed
<1> QED
  BY <1>1, <1>3, <1>4 DEF BrokerInv

\* Whatever happens next, the invariant stays.
LEMMA BrokerInvStep ==
  ASSUME BrokerInv, [BrokerNext]_brokerVars
  PROVE  BrokerInv'
  BY PublishEventKeeps, AcceptedKeeps, NotifyFailsKeeps, ArrivesKeeps, ConnectKeeps, QuietKeeps
  DEF BrokerNext

\* A connected client lacks only what is still on its way, whatever it missed
\* while it was away, unless the store dropped an event, the replay was too short,
\* a notification was lost or an event overtook another (publish and
\* getEventsSince of EventBroker, the stream route): for every limit.
THEOREM BrokerGaps == BrokerSpec => [](BrokerTypeOK /\ GapOnlyWhenExcused)
<1>1. BrokerInv => BrokerTypeOK /\ GapOnlyWhenExcused
  BY DEF BrokerInv, NothingMissed, GapOnlyWhenExcused, InFlight
<1> QED
  BY <1>1, BrokerInvInit, BrokerInvStep, PTL DEF BrokerSpec

-----------------------------------------------------------------------------
(* Enqueueing *)

Call == [pc : {"find", "create", "raced", "done"}, id : 0..jobIds, durable : BOOLEAN]

\* A call reaches the catch block, when no statement has failed, only after a
\* row with the key was stored: by another call, or by its own create whose
\* answer was lost.
RacedHasRow ==
  dbErrors = 0 => \A c \in Enqueuer : enq[c].pc = "raced" => jobRow # Nothing

\* The inductive invariant.
EnqueueInv == EnqueueTypeOK /\ jobRow <= jobIds /\ RacedHasRow /\ IdempotentEnqueue

LEMMA EnqueueInvInit == EnqueueInit => EnqueueInv
  BY EnqueueAssumption
  DEF EnqueueInit, EnqueueInv, EnqueueTypeOK, RacedHasRow, IdempotentEnqueue, Nothing

\* A call is told the job in the row, and nothing else happens.
LEMMA AnswerKeeps ==
  ASSUME EnqueueInv, NEW c \in Enqueuer, jobRow # Nothing, Answer(c, jobRow, TRUE),
         UNCHANGED <<jobRow, jobIds, dbErrors, lostReplies>>
  PROVE  EnqueueInv'
<1>1. /\ jobRow \in 0..jobIds /\ ProcessOf[c] \in Process
      /\ enq \in [Enqueuer -> Call] /\ mirror \in [Process -> 0..jobIds]
  BY EnqueueAssumption DEF EnqueueInv, EnqueueTypeOK, Call
<1>2. /\ enq' = [enq EXCEPT ![c] = [pc |-> "done", id |-> jobRow, durable |-> TRUE]]
      /\ mirror' = [mirror EXCEPT ![ProcessOf[c]] = jobRow]
  BY DEF Answer
<1>3. EnqueueTypeOK'
  BY <1>1, <1>2 DEF EnqueueInv, EnqueueTypeOK, Call
<1>4. RacedHasRow' /\ IdempotentEnqueue'
  BY <1>1, <1>2 DEF EnqueueInv, RacedHasRow, IdempotentEnqueue, Call
<1> QED
  BY <1>3, <1>4 DEF EnqueueInv

\* A call goes on to another statement.
LEMMA ProceedKeeps ==
  ASSUME EnqueueInv, NEW c \in Enqueuer, NEW at \in {"create", "raced"}, Proceed(c, at),
         enq[c].pc # "done", dbErrors' \in 0..MaxDbErrors, dbErrors' >= dbErrors,
         at = "raced" => dbErrors' > 0 \/ jobRow # Nothing,
         UNCHANGED <<jobRow, jobIds, lostReplies>>
  PROVE  EnqueueInv'
<1>1. /\ enq \in [Enqueuer -> Call] /\ {dbErrors, dbErrors'} \subseteq Nat
      /\ enq' = [enq EXCEPT ![c].pc = at] /\ mirror' = mirror
  BY EnqueueAssumption DEF EnqueueInv, EnqueueTypeOK, Call, Proceed
<1>2. EnqueueTypeOK'
  BY <1>1 DEF EnqueueInv, EnqueueTypeOK, Call
<1>3. dbErrors' = 0 => dbErrors = 0
  BY <1>1
<1>4. RacedHasRow'
  BY <1>1, <1>3 DEF EnqueueInv, RacedHasRow, Call
<1>5. IdempotentEnqueue'
  BY <1>1, <1>3 DEF EnqueueInv, IdempotentEnqueue, Call
<1> QED
  BY <1>2, <1>4, <1>5 DEF EnqueueInv

\* The row is created: no call has an answer yet and every mirror is empty.
LEMMA CreateKeeps ==
  ASSUME EnqueueInv, NEW c \in Enqueuer, CreateJob(c)
  PROVE  EnqueueInv'
<1>1. /\ enq \in [Enqueuer -> Call] /\ mirror \in [Process -> 0..jobIds]
      /\ jobIds \in Nat /\ {lostReplies, dbErrors, MaxLostReplies} \subseteq Nat
      /\ ProcessOf[c] \in Process
      /\ \A d \in Enqueuer : enq[d].pc = "done" <=> enq[d].id # Nothing
  BY EnqueueAssumption DEF EnqueueInv, EnqueueTypeOK, Call
<1>2. /\ jobRow = Nothing /\ enq[c].pc = "create"
      /\ jobIds' = jobIds + 1 /\ jobRow' = jobIds + 1 /\ dbErrors' = dbErrors
  BY DEF CreateJob
<1>3. dbErrors = 0 => /\ \A d \in Enqueuer : enq[d].pc \notin {"done", "raced"}
                      /\ \A s \in Process : mirror[s] = Nothing
  BY <1>1, <1>2 DEF EnqueueInv, RacedHasRow, IdempotentEnqueue
<1>4. CASE Answer(c, jobIds + 1, TRUE) /\ UNCHANGED lostReplies
  <2>1. /\ enq' = [enq EXCEPT ![c] = [pc |-> "done", id |-> jobIds + 1, durable |-> TRUE]]
        /\ mirror' = [mirror EXCEPT ![ProcessOf[c]] = jobIds + 1]
    BY <1>4 DEF Answer
  <2>2. EnqueueTypeOK'
    BY <1>1, <1>2, <1>4, <2>1 DEF EnqueueInv, EnqueueTypeOK, Call, Nothing
  <2>3. RacedHasRow' /\ IdempotentEnqueue'
    BY <1>1, <1>2, <1>3, <2>1 DEF RacedHasRow, IdempotentEnqueue, Call, Nothing
  <2> QED
    BY <1>1, <1>2, <2>2, <2>3 DEF EnqueueInv
<1>5. CASE /\ lostReplies < MaxLostReplies /\ lostReplies' = lostReplies + 1
           /\ Proceed(c, "raced")
  <2>1. enq' = [enq EXCEPT ![c].pc = "raced"] /\ mirror' = mirror
    BY <1>5 DEF Proceed
  <2>2. EnqueueTypeOK'
    BY <1>1, <1>2, <1>5, <2>1 DEF EnqueueInv, EnqueueTypeOK, Call, Nothing
  <2>3. RacedHasRow' /\ IdempotentEnqueue'
    BY <1>1, <1>2, <1>3, <2>1 DEF RacedHasRow, IdempotentEnqueue, Call, Nothing
  <2> QED
    BY <1>1, <1>2, <2>2, <2>3 DEF EnqueueInv
<1> QED
  BY <1>4, <1>5 DEF CreateJob

\* A job that only the process has: some statement has failed.
LEMMA FallbackKeeps ==
  ASSUME EnqueueInv, NEW c \in Enqueuer, LocalFallback(c), dbErrors' \in 1..MaxDbErrors,
         UNCHANGED <<jobRow, lostReplies>>
  PROVE  EnqueueInv'
<1>1. /\ enq \in [Enqueuer -> Call] /\ mirror \in [Process -> 0..jobIds]
      /\ jobIds \in Nat /\ jobRow \in 0..jobIds /\ dbErrors' \in 0..MaxDbErrors
      /\ ProcessOf[c] \in Process
  BY EnqueueAssumption DEF EnqueueInv, EnqueueTypeOK, Call
<1>2. PICK id \in 1..jobIds' :
        /\ enq' = [enq EXCEPT ![c] = [pc |-> "done", id |-> id, durable |-> FALSE]]
        /\ mirror' = [mirror EXCEPT ![ProcessOf[c]] = id]
        /\ jobIds' \in {jobIds, jobIds + 1}
  <2>1. CASE mirror[ProcessOf[c]] # Nothing
    BY <1>1, <2>1 DEF LocalFallback, Answer, Nothing
  <2>2. CASE mirror[ProcessOf[c]] = Nothing
    BY <1>1, <2>2 DEF LocalFallback, Answer, Nothing
  <2> QED
    BY <2>1, <2>2
<1>3. EnqueueTypeOK' /\ jobRow' <= jobIds'
  BY <1>1, <1>2 DEF EnqueueInv, EnqueueTypeOK, Call, Nothing
<1>4. RacedHasRow' /\ IdempotentEnqueue'
  BY <1>1 DEF RacedHasRow, IdempotentEnqueue
<1> QED
  BY <1>3, <1>4 DEF EnqueueInv

LEMMA EnqueueInvStep ==
  ASSUME EnqueueInv, [EnqueueNext]_enqueueVars
  PROVE  EnqueueInv'
<1>0. dbErrors \in Nat /\ MaxDbErrors \in Nat /\ dbErrors \in 0..MaxDbErrors
  BY EnqueueAssumption DEF EnqueueInv, EnqueueTypeOK
<1>1. ASSUME NEW c \in Enqueuer, FindExisting(c) PROVE EnqueueInv'
  <2>1. CASE jobRow # Nothing
    BY <1>1, <2>1, AnswerKeeps DEF FindExisting
  <2>2. CASE jobRow = Nothing
    BY <1>0, <1>1, <2>2, ProceedKeeps DEF FindExisting
  <2> QED
    BY <2>1, <2>2
<1>2. ASSUME NEW c \in Enqueuer, CreateJob(c) PROVE EnqueueInv'
  BY <1>2, CreateKeeps
<1>3. ASSUME NEW c \in Enqueuer, CreateRaced(c) PROVE EnqueueInv'
  BY <1>0, <1>3, ProceedKeeps DEF CreateRaced
<1>4. ASSUME NEW c \in Enqueuer, FindRaced(c) PROVE EnqueueInv'
  <2>1. CASE jobRow # Nothing
    BY <1>4, <2>1, AnswerKeeps DEF FindRaced, RacedFound
  <2>2. CASE jobRow = Nothing
    <3>1. dbErrors # 0
      BY <1>4, <2>2 DEF FindRaced, EnqueueInv, RacedHasRow
    <3> QED
      BY <1>0, <1>4, <2>2, <3>1, FallbackKeeps DEF FindRaced, RacedFound
  <2> QED
    BY <2>1, <2>2
<1>5. ASSUME NEW c \in Enqueuer, StatementFails(c) PROVE EnqueueInv'
  <2>1. dbErrors' = dbErrors + 1 /\ dbErrors' \in 1..MaxDbErrors /\ enq[c].pc # "done"
    BY <1>0, <1>5 DEF StatementFails
  <2>2. CASE enq[c].pc = "raced"
    BY <1>5, <2>1, <2>2, FallbackKeeps DEF StatementFails
  <2>3. CASE enq[c].pc # "raced"
    BY <1>0, <1>5, <2>1, <2>3, ProceedKeeps DEF StatementFails
  <2> QED
    BY <2>2, <2>3
<1>6. CASE UNCHANGED enqueueVars
  BY <1>6
  DEF enqueueVars, EnqueueInv, EnqueueTypeOK, RacedHasRow, IdempotentEnqueue
<1> QED
  BY <1>1, <1>2, <1>3, <1>4, <1>5, <1>6 DEF EnqueueNext

\* Any number of calls of enqueueJob with one key, in any number of processes,
\* are told the one job the table has, although they race and replies are lost,
\* until a statement fails without effect.
THEOREM EnqueueIsIdempotent == EnqueueSpec => [](EnqueueTypeOK /\ IdempotentEnqueue)
<1>1. EnqueueInv => EnqueueTypeOK /\ IdempotentEnqueue
  BY DEF EnqueueInv
<1> QED
  BY <1>1, EnqueueInvInit, EnqueueInvStep, PTL DEF EnqueueSpec

-----------------------------------------------------------------------------
(* The components side by side. *)

\* The inductive invariants of the components.
StoresInv ==
  TypeOK /\ QueueInv /\ EnqueueInv /\ BrokerInv /\ MatchTyped /\ Phased /\ SolverInv

\* Each component starts in its invariant, also where it stays as it began.
LEMMA StoresInvInit ==
  ASSUME StoresInit
  PROVE  StoresInv
<1>1. /\ Init /\ DurableQueueInit /\ EnqueueInit /\ BrokerInit
      /\ MatchingInit /\ SolverInit
  BY DEF StoresInit
<1>2. SolverInv
  BY <1>1, SolverStarts
<1> QED
  BY <1>1, <1>2, TypeInit, QueueInvInit, EnqueueInvInit, BrokerInvInit, MatchTypedInit
  DEF StoresInv

\* A step is one of one component, and leaves the others alone.
LEMMA StoresInvStep ==
  ASSUME StoresInv, [StoresNext]_storeVars
  PROVE  StoresInv'
<1>1. /\ [Next]_vars /\ [DurableQueueNext]_queueVars /\ [EnqueueNext]_enqueueVars
      /\ [BrokerNext]_brokerVars /\ [MatchingNext]_matchVars /\ [SolverNext]_solverVars
  BY DEF StoresNext, storeVars
<1>2. TypeOK' /\ QueueInv' /\ EnqueueInv' /\ BrokerInv'
  BY <1>1, TypeStep, QueueInvStep, EnqueueInvStep, BrokerInvStep DEF StoresInv
<1>3. MatchTyped' /\ Phased'
  BY <1>1, MatchTypedNext DEF StoresInv
<1>4. SolverInv'
  BY <1>1, SolverStep DEF StoresInv
<1> QED
  BY <1>2, <1>3, <1>4 DEF StoresInv

\* Whichever of the components runs, for any number of partitions, workers, calls and
\* clients and any batches and requests, every field of all of them stays in its type,
\* and every partition of the durable queue has one owner.
THEOREM StoresTypeCorrect == StoresSpec => []StoresTypeOK
<1>1. StoresInv => StoresTypeOK
  <2> SUFFICES ASSUME StoresInv PROVE StoresTypeOK
    OBVIOUS
  <2>1. TypeOK /\ QueueShape /\ EnqueueTypeOK /\ BrokerTypeOK
    BY DEF StoresInv, QueueInv, EnqueueInv, BrokerInv
  <2>2. MatchingTypeOK /\ SolverTypeOK
    BY TypedIsTypeOK, SolverTypes DEF StoresInv
  <2> QED
    BY <2>1, <2>2, ShapeIsType DEF StoresTypeOK
<1> QED
  BY <1>1, StoresInvInit, StoresInvStep, PTL DEF StoresSpec
=============================================================================
