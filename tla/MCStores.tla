------------------------------- MODULE MCStores -------------------------------
(* One model-checking instance for the components that keep a store of     *)
(* their own and share none: the cross-partition registry, the durable     *)
(* partitioned queue, the enqueue of jobs, the event broker, the matching  *)
(* of one batch and the solver.  A behaviour is one of the component       *)
(* chosen at the start; the others stay in their initial state.            *)
EXTENDS CrossPartitionRegistry, DurableQueue, JobEnqueue, EventBroker,
        MatchingEngine, InvoiceSolver, TLC

CONSTANTS s1, s2, s3, u1, u2, n1, n2, n3, host1, host2

\* s1 and s2 are two settlements of one payout and share its UTR, s3 has its own.
SharedUtr == [s \in Settlements |-> IF s = s3 THEN u2 ELSE u1]

\* n1 and n2 enqueue from one process, n3 from another.
TwoHosts == n1 :> host1 @@ n2 :> host1 @@ n3 :> host2

Pay(net, captured, status) == [net |-> net, captured |-> captured, status |-> status]
Settle(p, amount, utr, time) == [payment |-> p, amount |-> amount, utr |-> utr, time |-> time]
Txn(type, amount, utr, time, bulk, namesP, namesS) ==
  [type |-> type, amount |-> amount, utr |-> utr, time |-> time, bulk |-> bulk,
   namesPayment |-> namesP, namesSettlement |-> namesS]
Adjust(p, amount, counted) == [payment |-> p, amount |-> amount, counted |-> counted]

\* Two payments, one settlement each, and two credits, with every mix of UTRs, dates
\* and amounts at the tolerances.
PairsOfPayments ==
  {[payments |-> <<Pay(30000, 0, "captured"), Pay(30100, c, "captured")>>,
    settlements |-> <<Settle(1, 30000, w1, t), Settle(2, 30000, w2, 10)>>,
    bank |-> <<Txn("CREDIT", x, v1, 30, FALSE, 0, n), Txn("CREDIT", 30000, v2, y, FALSE, n, 1)>>,
    refunds |-> <<>>, chargebacks |-> <<>>] :
   c \in {0, 60}, w1 \in 0..1, w2 \in 0..2, t \in {10, NoTime}, x \in {30101, 30300},
   v1 \in 0..1, v2 \in {0, 2, 3}, y \in {33, 35}, n \in 0..1}

\* A payment with a refund and a chargeback, one settled twice, one not yet captured;
\* a debit that repays the chargeback or does not.
Adjusted ==
  {[payments |-> <<Pay(30000, 0, "captured"), Pay(20000, 80, st)>>,
    settlements |-> k,
    bank |-> <<Txn("CREDIT", a, 1, 20, FALSE, 0, 0), Txn("DEBIT", d, 0, 20, FALSE, 0, 0)>>,
    refunds |-> <<Adjust(1, r, cr)>>, chargebacks |-> <<Adjust(q, 2000, cc)>>] :
   st \in {"captured", "failed"}, a \in {27000, 30000}, d \in {2000, 3000}, r \in {1000, 0},
   cr \in BOOLEAN, cc \in BOOLEAN, q \in 1..2,
   k \in {<<>>, <<Settle(1, 27000, 1, 10)>>, <<Settle(1, 30000, 1, 10)>>,
          <<Settle(1, 27000, 1, 10), Settle(1, 27000, 2, 10)>>,
          <<Settle(1, 29000, 1, NoTime), Settle(2, 20000, 0, 90)>>}}

\* Three or four settlements without UTR and three credits to group.
Groups ==
  {[payments |-> <<Pay(10000, 0, "captured"), Pay(10000, 0, "captured"), Pay(9950, 0, "captured")>>,
    settlements |-> <<Settle(1, 10000, 0, t1), Settle(2, 10000, u, 20),
                      Settle(3, a3, 0, t3), Settle(p4, 50, 0, 20)>>,
    bank |-> <<Txn("CREDIT", b1, 0, 30, TRUE, 0, 0), Txn("CREDIT", b2, 0, y, k, 0, 0),
               Txn("CREDIT", b3, u, 30, TRUE, 0, 0)>>,
    refunds |-> <<>>, chargebacks |-> <<>>] :
   t1 \in {20, NoTime}, t3 \in {20, 120}, u \in {0, 1}, a3 \in {9950, 5000}, p4 \in {1, 3},
   b1 \in {20000, 15000, 6000}, b2 \in {19950, 4000}, b3 \in {20000, 14050},
   y \in {30, 130}, k \in BOOLEAN}

\* A payment settled in two date buckets, and bulk credits in both: an indexed pair of
\* one UTR, a whole bucket, or a group in each.
TwoBuckets ==
  {[payments |-> <<Pay(20000, 0, "captured"), Pay(10000, 0, "captured")>>,
    settlements |-> <<Settle(1, 10000, 1, 20), Settle(1, 10000, u, 120), Settle(2, 10000, v, t)>>,
    bank |-> <<Txn("CREDIT", x, 1, 30, TRUE, 0, 0), Txn("CREDIT", y, u, 130, TRUE, 0, 0)>>,
    refunds |-> <<>>, chargebacks |-> <<>>] :
   u \in {0, 2}, v \in {0, 3}, t \in {20, 120, NoTime}, x \in {10000, 20000}, y \in {10000, 20000}}

AllBatches == PairsOfPayments \cup Adjusted \cup Groups \cup TwoBuckets

Invoice(amount, status, tenant, currency, repeats) ==
  [amount |-> amount, status |-> status, tenant |-> tenant, currency |-> currency,
   repeats |-> repeats]
Asked(payment, tolerance, maxSplit, partial, invoices) ==
  [payment |-> payment, tolerance |-> tolerance, maxSplit |-> maxSplit, partial |-> partial,
   tenant |-> "t1", currency |-> "INR", invoices |-> invoices]

\* Four invoices against a cap of three candidates, some of them not eligible.
SplitRequests ==
  {Asked(p, tol, k, partial,
         <<Invoice(a, "ELIGIBLE", "t1", "INR", FALSE), Invoice(b, "ELIGIBLE", "t1", "INR", FALSE),
           Invoice(c, st, "t1", "INR", FALSE), Invoice(d, "ELIGIBLE", "t1", "INR", FALSE)>>) :
   p \in {5, 7}, tol \in {0, 1}, k \in {1, 3}, partial \in BOOLEAN,
   a \in {2, 3}, b \in {2, 4, 5}, c \in {1, 3, 8}, d \in {2, 9}, st \in {"ELIGIBLE", "LOCKED"}}

\* One invoice of another tenant or currency, or met before.
RefusedRequests ==
  {Asked(5, 0, 3, FALSE, <<Invoice(5, "ELIGIBLE", "t1", "INR", FALSE),
                           Invoice(2, "CONSUMED", t, c, r)>>) :
   t \in {"t1", "t2"}, c \in {"INR", "USD"}, r \in BOOLEAN}

AllRequests == SplitRequests \cup RefusedRequests

\* Where these two stay as they began.
SomeBatch == CHOOSE b \in Batches : TRUE
SomeRequest == CHOOSE r \in Requests : TRUE

Symmetry == Permutations(Workers) \cup Permutations(Producer) \cup Permutations(Consumer)

VARIABLE focus  \* the component this behaviour is one of

storeVars == <<vars, queueVars, enqueueVars, brokerVars, matchVars, solverVars, focus>>

StoresInit ==
  /\ focus \in {"registry", "queue", "enqueue", "broker", "matching", "solver"}
  /\ Init /\ DurableQueueInit /\ EnqueueInit
  /\ BrokerInit /\ (focus # "broker" => listening = "off")
  /\ MatchingInit /\ (focus # "matching" => batch = SomeBatch /\ ~scale)
  /\ SolverInit /\ (focus # "solver" => request = SomeRequest)

StoresNext ==
  /\ UNCHANGED focus
  /\ \/ focus = "registry" /\ Next
        /\ UNCHANGED <<queueVars, enqueueVars, brokerVars, matchVars, solverVars>>
     \/ focus = "queue" /\ DurableQueueNext
        /\ UNCHANGED <<vars, enqueueVars, brokerVars, matchVars, solverVars>>
     \/ focus = "enqueue" /\ EnqueueNext
        /\ UNCHANGED <<vars, queueVars, brokerVars, matchVars, solverVars>>
     \/ focus = "broker" /\ BrokerNext
        /\ UNCHANGED <<vars, queueVars, enqueueVars, matchVars, solverVars>>
     \/ focus = "matching" /\ MatchingNext
        /\ UNCHANGED <<vars, queueVars, enqueueVars, brokerVars, solverVars>>
     \/ focus = "solver" /\ SolverNext
        /\ UNCHANGED <<vars, queueVars, enqueueVars, brokerVars, matchVars>>

StoresSpec == StoresInit /\ [][StoresNext]_storeVars

\* The fields of the components; among them that after any joins and leaves
\* each partition of the durable queue has exactly one owner.
StoresTypeOK == TypeOK /\ DurableQueueTypeOK /\ EnqueueTypeOK /\ BrokerTypeOK
                /\ MatchingTypeOK /\ SolverTypeOK
=============================================================================
