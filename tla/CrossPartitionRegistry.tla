----------------------- MODULE CrossPartitionRegistry -----------------------
(***************************************************************************)
(* CrossPartitionRegistry of                                               *)
(* src/lib/reconciliation/distributed/cross-partition.ts: the index of     *)
(* settlements that partitions leave unmatched, from which workers lease   *)
(* and consume candidates by their UTR.  Every method runs to its end      *)
(* without an await, so each is one atomic action; what interleaves are    *)
(* the calls, and a worker may issue a call long after the answer it is    *)
(* based on.                                                               *)
(*                                                                         *)
(* utrIndex holds one entry per UTR.  amountIndex is written and never     *)
(* read, and is left out.  leaseExpiresAt is "none", "live" or "expired".  *)
(***************************************************************************)
EXTENDS Naturals

CONSTANTS
  Workers,
  NoWorker,        \* leaseOwner = null
  Partitions,
  NoPartition,     \* consumedByPartition = null
  Settlements,
  NoSettlement,    \* the record of a UTR that has no entry
  Utrs,
  UtrOf,           \* the UTR of each settlement (those without one never enter)
  VersionCap,      \* acquireLease is not modelled beyond this leaseVersion
  MayReRegister,   \* a settlement may be registered again
  DirectUtrs       \* what partitions pass to claimCrossPartitionCandidate

ASSUME RegistryAssumption ==
  /\ NoWorker \notin Workers
  /\ NoPartition \notin Partitions
  /\ NoSettlement \notin Settlements
  /\ UtrOf \in [Settlements -> Utrs]
  /\ VersionCap \in Nat \ {0}
  /\ MayReRegister \in BOOLEAN
  /\ DirectUtrs \subseteq Utrs

VARIABLES
  index,       \* utrIndex
  registered,  \* the settlements registered so far
  tickets,     \* the successful answers of acquireLease that workers hold
  wins         \* how often consuming each settlement was answered with success

vars == <<index, registered, tickets, wins>>

Versions == 1..VersionCap

Entry ==
  [record : Settlements \cup {NoSettlement},
   consumedBy : Partitions \cup {NoPartition},
   owner : Workers \cup {NoWorker},
   lease : {"none", "live", "expired"},
   version : Versions]

\* live: the time the lease was granted for has not passed, and the worker has
\* not released, used or renewed it.  A worker may still call with a ticket that
\* is not live.
Ticket ==
  [worker : Workers, utr : Utrs, record : Settlements, version : Versions,
   live : BOOLEAN]

FreshEntry(s) ==
  [record |-> s, consumedBy |-> NoPartition, owner |-> NoWorker,
   lease |-> "none", version |-> 1]

TypeOK ==
  /\ index \in [Utrs -> Entry]
  /\ registered \in SUBSET Settlements
  /\ tickets \in SUBSET Ticket
  /\ wins \in [Settlements -> 0..2]

Init ==
  /\ index = [u \in Utrs |-> FreshEntry(NoSettlement)]
  /\ registered = {}
  /\ tickets = {}
  /\ wins = [s \in Settlements |-> 0]

-----------------------------------------------------------------------------
\* An entry that exists and is not consumed.
Open(e) == e.record # NoSettlement /\ e.consumedBy = NoPartition

\* registerSettlement: the entry of the UTR is replaced, whatever it holds.
RegisterSettlement(s) ==
  /\ s \notin registered \/ MayReRegister
  /\ index' = [index EXCEPT ![UtrOf[s]] = FreshEntry(s)]
  /\ registered' = registered \cup {s}
  /\ UNCHANGED <<tickets, wins>>

\* Mutant: the lease of another worker does not keep a worker out.
AcquirableByAnyone(e, w) == Open(e)

\* A worker may renew its own lease, and take one that is free or expired.
Acquirable(e, w) ==
  /\ Open(e)
  /\ e.owner = NoWorker \/ e.lease # "live" \/ e.owner = w

\* Mutant: the lease is granted without a new version.
GrantedSameVersion(e, w) == [e EXCEPT !.owner = w, !.lease = "live"]

Granted(e, w) ==
  [e EXCEPT !.owner = w, !.lease = "live", !.version = @ + 1]

\* The tickets of w for u, used up, given back or superseded.
Spent(w, u) ==
  {IF t.worker = w /\ t.utr = u THEN [t EXCEPT !.live = FALSE] ELSE t :
     t \in tickets}

AcquireLease(w, u) ==
  /\ Acquirable(index[u], w)
  /\ index[u].version < VersionCap
  /\ index' = [index EXCEPT ![u] = Granted(@, w)]
  /\ tickets' = Spent(w, u) \cup
       {[worker |-> w, utr |-> u, record |-> index[u].record,
         version |-> Granted(index[u], w).version, live |-> TRUE]}
  /\ UNCHANGED <<registered, wins>>

Win(s) == wins' = [wins EXCEPT ![s] = IF @ < 2 THEN @ + 1 ELSE @]

\* Mutant: a consumed entry is consumed again by whoever held its lease last.
CommitsConsumed(e, t) == e.record # NoSettlement /\ e.version = t.version

\* The test commitConsumption makes of the entry; the expiry is not part of it.
Commits(e, t) == Open(e) /\ e.owner = t.worker /\ e.version = t.version

CommitConsumption(t, p) ==
  /\ Commits(index[t.utr], t)
  /\ index' = [index EXCEPT ![t.utr].consumedBy = p, ![t.utr].owner = NoWorker,
                            ![t.utr].lease = "none"]
  /\ Win(index[t.utr].record)
  /\ tickets' = Spent(t.worker, t.utr)
  /\ UNCHANGED registered

ReleaseLease(w, u) ==
  /\ Open(index[u])
  /\ index[u].owner = w
  /\ index' = [index EXCEPT ![u].owner = NoWorker, ![u].lease = "none"]
  /\ tickets' = Spent(w, u)
  /\ UNCHANGED <<registered, wins>>

\* claimCrossPartitionCandidate, for the amount of the entry: it does not look
\* at the lease, and leaves leaseOwner and leaseExpiresAt as they are.
ClaimCrossPartitionCandidate(p, u) ==
  /\ u \in DirectUtrs
  /\ Open(index[u])
  /\ index' = [index EXCEPT ![u].consumedBy = p]
  /\ Win(index[u].record)
  /\ UNCHANGED <<registered, tickets>>

\* The time of a ticket passes; the entry's leaseExpiresAt is that of the last
\* ticket granted on it.
LeaseExpires(t) ==
  LET e == index[t.utr]
      last == e.record = t.record /\ e.owner = t.worker /\ e.version = t.version
  IN /\ t.live
     /\ tickets' = (tickets \ {t}) \cup {[t EXCEPT !.live = FALSE]}
     /\ index' = [index EXCEPT ![t.utr].lease = IF last THEN "expired" ELSE @]
     /\ UNCHANGED <<registered, wins>>

-----------------------------------------------------------------------------
Next ==
  \/ \E s \in Settlements : RegisterSettlement(s)
  \/ \E w \in Workers, u \in Utrs : AcquireLease(w, u) \/ ReleaseLease(w, u)
  \/ \E t \in tickets, p \in Partitions : CommitConsumption(t, p)
  \/ \E p \in Partitions, u \in Utrs : ClaimCrossPartitionCandidate(p, u)
  \/ \E t \in tickets : LeaseExpires(t)

Spec == Init /\ [][Next]_vars

-----------------------------------------------------------------------------
\* "Double-Consumption Prevention": a settlement is handed out at most once,
\* whichever of the two ways partitions take to it and however late the calls.
SingleConsumption == \A s \in Settlements : wins[s] <= 1

\* Fencing: whenever a worker's commit would be accepted, nobody else was
\* granted the lease of the entry after the version it commits with.
CommitFenced ==
  \A t \in tickets :
    Commits(index[t.utr], t) =>
      \A t2 \in tickets :
        t2.utr = t.utr /\ t2.record = index[t.utr].record
          => t2.version < t.version \/ t2.worker = t.worker

\* The UTRs of one settlement that partitions take by the lease protocol only.
LeasedOnly ==
  {u \in Utrs \ DirectUtrs :
     \A r, s \in Settlements : UtrOf[r] = u /\ UtrOf[s] = u => r = s}

\* A lease is a reservation: until its time has passed the candidate is neither
\* consumed nor leased to anyone but its holder, if it is taken by the lease
\* protocol only, whatever happens to other candidates.
LiveLeaseHeld ==
  \A t \in tickets :
    t.live /\ t.utr \in LeasedOnly =>
      /\ index[t.utr].record = t.record
      /\ index[t.utr].consumedBy = NoPartition
      /\ index[t.utr].owner = t.worker
=============================================================================
