---------------------------- MODULE MatchingEngine ----------------------------
(* The deterministic half of a reconciliation run: the matcher, the search *)
(* for groups (1:N, N:1, N:M) over what the matcher left, on the path of   *)
(* small batches or on the partitioned path of large ones, and the         *)
(* financial invariants that gate the run.                                 *)
(*                                                                         *)
(* Amounts are paise and times hours, with the code's own constants.       *)
(* Records are named by their place in the batch, which is also the order  *)
(* of their identifiers; 0 stands for null, NoTime for a null date.        *)
(* Wording, metrics and the copies kept for display are left out.          *)
EXTENDS Integers, Sequences, FiniteSets, SequencesExt

CONSTANTS
  Batches,              \* the batches considered
  ScalePaths,           \* whether the partitioned path is taken: a set of BOOLEANs
  ClusterMaxItems,      \* boundedClusterMaxItems
  MaxGroupSize,         \* maxGroupSize of the group search
  MaxCandidates,        \* maxCandidates of the group search
  MaxGroups             \* MAX_ENUMERATED_GROUPS

\* Hours from the first day of the batch's period, up to eleven years; a UTR and the
\* names in a narration are numbers, 0 for none.
Hours == 0..(96 * 1000 - 1)
NoTime == -1000
PaymentRecord == [net : Int, captured : Hours \cup {NoTime}, status : STRING]
SettlementRecord == [payment : Nat, amount : Int, utr : Nat, time : Hours \cup {NoTime}]
BankRecord == [type : STRING, amount : Int, utr : Nat, time : Hours, bulk : BOOLEAN,
               namesPayment : Nat, namesSettlement : Nat]
AdjustmentRecord == [payment : Nat, amount : Int, counted : BOOLEAN]
BatchRecord == [payments : Seq(PaymentRecord), settlements : Seq(SettlementRecord),
                bank : Seq(BankRecord), refunds : Seq(AdjustmentRecord),
                chargebacks : Seq(AdjustmentRecord)]

ASSUME MatchingAssumption ==
  /\ Batches \subseteq BatchRecord
  /\ ScalePaths \subseteq BOOLEAN
  /\ {ClusterMaxItems, MaxGroupSize, MaxCandidates, MaxGroups} \subseteq Nat \ {0}

TolerancePaise == 100
DelayHours == 48        \* DELAY_DAYS
ExpectedHours == 24     \* BANK_CREDIT_EXPECTED_HOURS
MaxHours == 72          \* BANK_CREDIT_MAX_HOURS
GroupHours == 96        \* maxHours of the group search, and the width of a bucket

VARIABLES
  batch,          \* the records under reconciliation
  scale,          \* this run takes the partitioned path
  stage,          \* "match", "orphans", the passes, "gate", "done"
  cursor,         \* the record the stage's loop has come to
  results,        \* MatchResult rows, in the order they were pushed
  matched,        \* matchedBankTxnIds, later usedBankTxnIds
  relationships,  \* CardinalityMatch rows
  gate            \* the verdict of the invariants: "none", "pass" or "fail"

matchVars == <<batch, scale, stage, cursor, results, matched, relationships, gate>>

-----------------------------------------------------------------------------
(* The indexes. *)

Distance(a, b) == IF a > b THEN a - b ELSE b - a
Larger(a, b) == IF a > b THEN a ELSE b

Payments == DOMAIN batch.payments
SettlementIds == DOMAIN batch.settlements
Credits == {b \in DOMAIN batch.bank : batch.bank[b].type = "CREDIT"}

\* The sum of amount over the places in S.
Total(amount, S) ==
  LET sum[n \in 0..Len(amount)] ==
        IF n = 0 THEN 0 ELSE sum[n - 1] + (IF n \in S THEN amount[n] ELSE 0)
  IN sum[Len(amount)]

\* Only refunds that were processed and chargebacks still standing are indexed.
AmountsOf(adjustments) == [a \in DOMAIN adjustments |-> adjustments[a].amount]
AdjustmentOf(adjustments, p) ==
  Total(AmountsOf(adjustments), {a \in DOMAIN adjustments : adjustments[a].payment = p
                                                           /\ adjustments[a].counted})
RefundOf(p) == AdjustmentOf(batch.refunds, p)
ChargebackOf(p) == AdjustmentOf(batch.chargebacks, p)

SettlementAmount == [s \in SettlementIds |-> batch.settlements[s].amount]
BankAmount == [b \in DOMAIN batch.bank |-> batch.bank[b].amount]

SettlementsOf(p) == {s \in SettlementIds : batch.settlements[s].payment = p}

\* Among credits of one UTR the last one wins; 0 when there is none.
BankByUtr(u) == LET same == {b \in Credits : u # 0 /\ batch.bank[b].utr = u}
                IN IF same = {} THEN 0 ELSE Max(same)

\* maxCapturedDate, over payments of every status.
MaxCaptured == Max({0} \cup {batch.payments[p].captured : p \in Payments})

\* A credit without a UTR belongs to the settlements without one.
SharesUtr(b) == \E s \in SettlementIds : batch.settlements[s].utr = batch.bank[b].utr

-----------------------------------------------------------------------------
(* The matcher. *)

ExpectedNet(p) == batch.payments[p].net - RefundOf(p) - ChargebackOf(p)

\* The penalty grows with the difference in steps.
DeltaPenalty(delta) ==
  CASE delta = 0 -> 0
    [] delta \in 1..100 -> 5
    [] delta \in 101..1000 -> 15
    [] delta \in 1001..10000 -> 25
    [] OTHER -> 40

\* signals: the names of the flags that are set.
ComputeConfidence(signals, delta) ==
  LET points(signal, weight) == IF signal \in signals THEN weight ELSE 0
      score == points("utr", 40) + points("id", 25) + points("amount", 15) + points("date", 10)
               + points("narration", 10) + points("single", 5) + points("multiple", -30)
               + points("noBank", -20) + points("noSettlement", -15) + points("refund", -3)
               + points("chargeback", -8) - DeltaPenalty(delta)
  IN Larger(0, IF score > 100 THEN 100 ELSE score)

\* Mutant: the threshold of another band.
ClassifyByConfidenceLax(score, status) ==
  IF score < 25 /\ status = "AUTO_MATCHED" THEN "NEEDS_MANUAL_REVIEW" ELSE status

\* A match the score does not support is reviewed.
ClassifyByConfidence(score, status) ==
  IF score < 50 /\ status = "AUTO_MATCHED" THEN "NEEDS_MANUAL_REVIEW" ELSE status

Flag(name, condition) == IF condition THEN {name} ELSE {}

Adjustments(p) == Flag("refund", RefundOf(p) > 0) \cup Flag("chargeback", ChargebackOf(p) > 0)

Row(p, settlements, banks, credited, status, score, net) ==
  [payment |-> p, settlements |-> settlements, banks |-> banks, credited |-> credited,
   status |-> status, score |-> score, net |-> net, type |-> "1:1"]

\* No settlement: pending while the capture is recent or its date unknown.
Unsettled(p) ==
  LET pending == \/ batch.payments[p].captured = NoTime
                 \/ MaxCaptured - batch.payments[p].captured < DelayHours + 24
  IN Row(p, {}, {}, 0, IF pending THEN "PENDING_SETTLEMENT" ELSE "MISSING_BANK_CREDIT",
         ComputeConfidence({"id", "single", "noBank", "noSettlement"}
                           \cup Flag("date", pending) \cup Adjustments(p), 0),
         ExpectedNet(p))

SettledTwice(p) ==
  LET total == Total(SettlementAmount, SettlementsOf(p))
  IN Row(p, SettlementsOf(p), {}, 0, "DUPLICATE_SETTLEMENT",
         ComputeConfidence({"id", "multiple"} \cup Adjustments(p),
                           Distance(ExpectedNet(p), total)),
         ExpectedNet(p))

\* The settlement compared with what the payment should bring.
AmountStatus(p, amount) ==
  CASE Distance(ExpectedNet(p), amount) <= TolerancePaise -> "AUTO_MATCHED"
    [] RefundOf(p) > 0 /\ Distance(batch.payments[p].net, amount) <= TolerancePaise
         -> "REFUND_MISMATCH"
    [] RefundOf(p) = 0 /\ ChargebackOf(p) > 0 -> "CHARGEBACK_ADJUSTMENT"
    [] OTHER -> "AMOUNT_MISMATCH"

FuzzyTolerance(amount) == Larger(TolerancePaise, (amount + 50) \div 100)

\* Credits no payment before this one has taken.
Unclaimed == Credits \ matched

\* Credits nobody has claimed yet, of a close amount, in the window after the
\* settlement if its date is known.
FuzzyCandidates(s) ==
  LET settlement == batch.settlements[s] IN
  {b \in Unclaimed :
     /\ Distance(batch.bank[b].amount, settlement.amount) <= FuzzyTolerance(settlement.amount)
     /\ \/ settlement.time = NoTime
        \/ batch.bank[b].time - settlement.time \in -1..MaxHours}

\* The credit of a settlement, 0 if none: by UTR, whoever has claimed it, else the
\* only fuzzy candidate.
BankOf(s) ==
  LET byUtr == BankByUtr(batch.settlements[s].utr) fuzzy == FuzzyCandidates(s)
  IN CASE byUtr # 0 -> byUtr
       [] byUtr = 0 /\ Cardinality(fuzzy) = 1 -> Max(fuzzy)
       [] OTHER -> 0

Ambiguous(s) == BankByUtr(batch.settlements[s].utr) = 0 /\ Cardinality(FuzzyCandidates(s)) > 1

\* A status other than AUTO_MATCHED is kept; an amount is compared on the UTR path
\* only, the delay on both.
BankStatus(s, status) ==
  LET settlement == batch.settlements[s]
      b == BankOf(s)
      byUtr == b # 0 /\ b = BankByUtr(settlement.utr)
  IN CASE status # "AUTO_MATCHED" -> status
       [] byUtr /\ Distance(batch.bank[b].amount, settlement.amount) > TolerancePaise
            -> "AMOUNT_MISMATCH"
       [] b # 0 /\ settlement.time # NoTime
            /\ batch.bank[b].time - settlement.time > ExpectedHours -> "DELAYED_BANK_CREDIT"
       [] Ambiguous(s) -> "NEEDS_MANUAL_REVIEW"
       [] b = 0 /\ ~Ambiguous(s) /\ settlement.time # NoTime
            /\ MaxCaptured - settlement.time > DelayHours -> "MISSING_BANK_CREDIT"
       [] OTHER -> "AUTO_MATCHED"

SettledOnce(p) ==
  LET s == Max(SettlementsOf(p))
      settlement == batch.settlements[s]
      b == BankOf(s)
      delta == Distance(ExpectedNet(p), settlement.amount)
      near == /\ b # 0 /\ settlement.time # NoTime
              /\ Distance(batch.bank[b].time, settlement.time) < ExpectedHours
      score == ComputeConfidence(
                 {"id", "single"}
                 \cup Flag("utr", b # 0 /\ b = BankByUtr(settlement.utr))
                 \cup Flag("amount", delta <= TolerancePaise)
                 \cup Flag("date", near)
                 \cup Flag("narration", b # 0 /\ batch.bank[b].namesSettlement = s)
                 \cup Flag("multiple", Ambiguous(s)) \cup Flag("noBank", b = 0)
                 \cup Adjustments(p), delta)
  IN Row(p, {s}, {b} \ {0}, IF b = 0 THEN 0 ELSE batch.bank[b].amount,
         ClassifyByConfidence(score, BankStatus(s, AmountStatus(p, settlement.amount))),
         score, ExpectedNet(p))

MatchOf(p) ==
  LET n == Cardinality(SettlementsOf(p))
  IN IF n = 0 THEN Unsettled(p) ELSE IF n > 1 THEN SettledTwice(p) ELSE SettledOnce(p)

\* One turn of the loop over the captured payments.
MatchPayment ==
  /\ stage = "match" /\ cursor <= Len(batch.payments)
  /\ IF batch.payments[cursor].status = "captured"
     THEN /\ results' = Append(results, MatchOf(cursor))
          /\ matched' = matched \cup MatchOf(cursor).banks
     ELSE UNCHANGED <<results, matched>>
  /\ cursor' = cursor + 1
  /\ UNCHANGED <<batch, scale, stage, relationships, gate>>

\* Mutant: a credit without a UTR is passed over.
IsOrphanUnlessNull(b) == b \in Credits \ matched /\ ~SharesUtr(b) /\ batch.bank[b].utr # 0

\* A credit no payment took and whose UTR no settlement has becomes a row of its own,
\* under the payment its narration names (0: the synthetic orphan_ identifier).
IsOrphan(b) == b \in Credits \ matched /\ ~SharesUtr(b)

OrphanRow(b) ==
  Row(batch.bank[b].namesPayment, {batch.bank[b].namesSettlement} \ {0}, {b},
      batch.bank[b].amount, "ORPHAN_BANK_CREDIT", 25, 0)

DetectOrphan ==
  /\ stage = "orphans" /\ cursor <= Len(batch.bank)
  /\ results' = IF IsOrphan(cursor) THEN Append(results, OrphanRow(cursor)) ELSE results
  /\ cursor' = cursor + 1
  /\ UNCHANGED <<batch, scale, stage, matched, relationships, gate>>

-----------------------------------------------------------------------------
(* The search for groups. *)

\* maxCandidates, on the partitioned path at least the size of a bounded cluster.
CandidateLimit == IF scale THEN Larger(ClusterMaxItems, MaxCandidates) ELSE MaxCandidates
FirstOf(seq) == SubSeq(seq, 1, IF Len(seq) < CandidateLimit THEN Len(seq) ELSE CandidateLimit)

\* The row that stands for a payment: the last one pushed, an orphan's that names it included.
RowOf(p) == Max({0} \cup {i \in DOMAIN results : results[i].payment = p /\ p # 0})

\* Settlements whose payment has no bank credit yet.
OpenSettlements == {s \in SettlementIds : LET i == RowOf(batch.settlements[s].payment)
                                   IN i # 0 /\ results[i].banks = {}}

Bulk == {b \in Credits : batch.bank[b].bulk}

\* Nearest amount first, then by identifier.
ByDistance(S, amount, target) ==
  LET before(a, b) == \/ Distance(amount[a], target) < Distance(amount[b], target)
                      \/ Distance(amount[a], target) = Distance(amount[b], target) /\ a < b
  IN FirstOf(CHOOSE seq \in [1..Cardinality(S) -> S] :
               \A j, k \in DOMAIN seq : j < k => before(seq[j], seq[k]))

ById(S) == FirstOf(CHOOSE seq \in [1..Cardinality(S) -> S] :
                     \A j, k \in DOMAIN seq : j < k => seq[j] < seq[k])

\* A settlement without a date is a candidate for every credit; a credit is a
\* candidate only for a settlement with a date.
SettlementsNear(S, b) == {s \in S : \/ batch.settlements[s].time = NoTime
                                    \/ Distance(batch.settlements[s].time, batch.bank[b].time)
                                       <= GroupHours}
CreditsNear(B, s) == {b \in B : /\ batch.settlements[s].time # NoTime
                                /\ Distance(batch.settlements[s].time, batch.bank[b].time)
                                   <= GroupHours}

\* Mutant: the tolerance is taken off the target.
PrunesEarly(sum, target) == sum >= target - TolerancePaise

\* No larger group can come closer once the sum is past the target.
Prunes(sum, target) == sum >= target + TolerancePaise

\* search(): the groups in lexical order, a group before those that go on from it.
\* visit[k]: the loop over the last k items, from a selection, with the best group met
\* before; what it returns is the best group met after.
Search(items, amount, target) ==
  LET n == Len(items)
      apart(group) == Distance(Total(amount, group), target)
      improves(group, best) == /\ Cardinality(group) >= 2 /\ apart(group) <= TolerancePaise
                               /\ \/ best = {}
                                  \/ apart(group) < apart(best)
                                  \/ /\ apart(group) = apart(best)
                                     /\ Cardinality(group) < Cardinality(best)
      ends(group) == \/ Cardinality(group) >= 2 /\ Prunes(Total(amount, group), target)
                     \/ Cardinality(group) >= MaxGroupSize
      groups == SUBSET {items[i] : i \in 1..n}
      visit[k \in 0..n] ==
        [group \in groups |-> [best \in groups |->
           IF k = 0 THEN best
           ELSE LET longer == group \cup {items[n + 1 - k]}
                    met == IF improves(longer, best) THEN longer ELSE best
                IN visit[k - 1][group][IF ends(longer) THEN met ELSE visit[k - 1][longer][met]]]]
  IN visit[n][{}][{}]

\* The best group of at least two of S for the target, {} if there is none.
BestGroup(S, amount, target) == Search(ByDistance(S, amount, target), amount, target)

Relationship(type, S, B, score) ==
  [type |-> type, settlements |-> S, banks |-> B, score |-> score]

Scored(type, S, B, exact, tolerated) ==
  Relationship(type, S, B,
               IF Total(SettlementAmount, S) = Total(BankAmount, B) THEN exact ELSE tolerated)

\* findSettlementGroupForBank and findBankGroupForSettlement: at most one relationship.
NToOne(S, b) ==
  LET group == BestGroup(SettlementsNear(S, b), SettlementAmount, BankAmount[b])
  IN IF group = {} THEN {} ELSE {Scored("N:1", group, {b}, 96, 90)}
OneToN(s, B) ==
  LET group == BestGroup(CreditsNear(B, s), BankAmount, SettlementAmount[s])
  IN IF group = {} THEN {} ELSE {Scored("1:N", {s}, group, 96, 90)}

\* buildGroups: the groups of two to six, in the order of the walk, up to MaxGroups.
\* walk[k]: the loop over the last k items, from a selection, with the groups so far.
BuildGroups(items) ==
  LET n == Len(items)
      selections == SUBSET {items[i] : i \in 1..n}
      walk[k \in 0..n] ==
        [group \in selections |-> [groups \in Seq(selections) |->
           IF k = 0 \/ Len(groups) >= MaxGroups THEN groups
           ELSE LET longer == group \cup {items[n + 1 - k]}
                    more == IF Cardinality(longer) >= 2 THEN Append(groups, longer) ELSE groups
                    full == Cardinality(longer) >= MaxGroupSize \/ Cardinality(longer) >= 6
                IN walk[k - 1][group][IF full THEN more ELSE walk[k - 1][longer][more]]]]
  IN walk[n][{}][<<>>]

\* Those of S where f is smallest.
Least(f, S) == {p \in S : \A q \in S : f[p] <= f[q]}

\* findManyToManyMatch: no window; the pair of groups of the smallest difference, then
\* of the fewest records, then the first one met: by settlements, sum and credits.
NToM(S, B) ==
  LET G == BuildGroups(ById(S))
      H == BuildGroups(ById(B))
      sumG == [i \in DOMAIN G |-> Total(SettlementAmount, G[i])]
      sumH == [j \in DOMAIN H |-> Total(BankAmount, H[j])]
      apart(p) == Distance(sumG[p[1]], sumH[p[2]])
      pairs == {p \in (DOMAIN G) \X (DOMAIN H) : apart(p) <= TolerancePaise}
      closest == Least([p \in pairs |-> apart(p)], pairs)
      smallest == Least([p \in pairs |-> Cardinality(G[p[1]]) + Cardinality(H[p[2]])], closest)
      first == Least([p \in pairs |-> sumH[p[2]]], Least([p \in pairs |-> p[1]], smallest))
      best == CHOOSE p \in Least([p \in pairs |-> p[2]], first) : TRUE
  IN IF pairs = {} THEN {}
     ELSE {Scored("N:M", G[best[1]], H[best[2]], 94, 88)}

\* The rows of the payments behind a relationship take over its credits; their status stays.
Applied(rows, rel) ==
  LET of(s) == RowOf(batch.settlements[s].payment)
      here(i) == {s \in rel.settlements : of(s) = i}
  IN [i \in DOMAIN rows |->
        IF here(i) = {} THEN rows[i]
        ELSE [rows[i] EXCEPT !.settlements = @ \cup here(i), !.banks = rel.banks,
                             !.credited = Total(BankAmount, rel.banks), !.type = rel.type,
                             !.score = Larger(@, rel.score)]]

\* found: {} or one relationship.
Records(found) ==
  IF found = {} THEN UNCHANGED <<results, matched, relationships>>
  ELSE LET rel == CHOOSE rel \in found : TRUE
       IN /\ relationships' = Append(relationships, rel)
          /\ matched' = matched \cup rel.banks
          /\ results' = Applied(results, rel)

-----------------------------------------------------------------------------
(* Small batches: three passes over the whole batch. *)

\* PASS 1: a bulk credit nobody uses, with at least two settlements available.
BulkFound(b) == IF b \in Bulk \ matched /\ Cardinality(OpenSettlements) >= 2
                THEN NToOne(OpenSettlements, b) ELSE {}

BulkCredit ==
  /\ stage = "bulk" /\ cursor <= Len(batch.bank)
  /\ Records(BulkFound(cursor))
  /\ cursor' = cursor + 1
  /\ UNCHANGED <<batch, scale, stage, gate>>

\* PASS 2: a settlement whose payment has no credit, over all credits nobody uses.
SplitFound(s) == IF s \in OpenSettlements THEN OneToN(s, Credits \ matched) ELSE {}

SplitSettlement ==
  /\ stage = "split" /\ cursor <= Len(batch.settlements)
  /\ Records(SplitFound(cursor))
  /\ cursor' = cursor + 1
  /\ UNCHANGED <<batch, scale, stage, gate>>

\* PASS 3: once, over what is left.
ManyFound == IF Cardinality(OpenSettlements) >= 2 /\ Cardinality(Bulk \ matched) >= 2
             THEN NToM(OpenSettlements, Bulk \ matched) ELSE {}

ManyToMany ==
  /\ stage = "many"
  /\ Records(ManyFound)
  /\ stage' = "gate"
  /\ UNCHANGED <<batch, scale, cursor, gate>>

-----------------------------------------------------------------------------
(* Large batches: one date bucket at a time. *)

\* The bucket of records without a date is the last one.
DateBucket(time) == IF time = NoTime THEN 1000 ELSE time \div GroupHours

SettlementsIn(k) == {s \in OpenSettlements : DateBucket(batch.settlements[s].time) = k}
CreditsIn(k) == {b \in Bulk \ matched : DateBucket(batch.bank[b].time) = k}
Buckets == {DateBucket(batch.settlements[s].time) : s \in OpenSettlements}
           \cup {DateBucket(batch.bank[b].time) : b \in Bulk \ matched}

\* resolveBounded: the first match only, credits first, then settlements, then N:M.
FirstMatch(seq, find(_)) ==
  LET hits == {i \in DOMAIN seq : find(seq[i]) # {}}
  IN IF hits = {} THEN {} ELSE find(seq[Min(hits)])
Bounded(S, B) ==
  LET aggregate == FirstMatch(ById(B), LAMBDA b : NToOne(S, b))
      split == FirstMatch(ById(S), LAMBDA s : OneToN(s, B))
  IN IF aggregate # {} THEN aggregate ELSE IF split # {} THEN split ELSE NToM(S, B)

\* selectStrategy and resolvePartition: a whole bucket that is one bulk credit, one pair
\* of a shared UTR, the bounded search in a small bucket, or nothing.
Resolved(S, B) ==
  LET near == Distance(Total(SettlementAmount, S), Total(BankAmount, B)) <= TolerancePaise
      sharedUtr == \A s \in S, b \in B : /\ batch.settlements[s].utr = batch.bank[b].utr
                                         /\ batch.bank[b].utr # 0
  IN CASE Cardinality(B) = 1 /\ Cardinality(S) >= 2 /\ near -> {Scored("N:1", S, B, 96, 90)}
       [] Cardinality(B) = 1 /\ Cardinality(S) = 1 /\ near /\ sharedUtr
            -> {Relationship("1:1", S, B, 98)}
       [] OTHER -> IF Cardinality(S) + Cardinality(B) <= ClusterMaxItems
                   THEN Bounded(S, B) ELSE {}

\* The buckets are resolved in order; their relationships are applied when all are.
ResolvePartition ==
  /\ stage = "partitions" /\ \E k \in Buckets : k >= cursor
  /\ LET k == Min({b \in Buckets : b >= cursor})
         found == Resolved(SettlementsIn(k), CreditsIn(k))
     IN /\ relationships' = IF found = {} THEN relationships
                            ELSE Append(relationships, CHOOSE rel \in found : TRUE)
        /\ cursor' = k + 1
  /\ UNCHANGED <<batch, scale, stage, results, matched, gate>>

ApplyRelationships ==
  /\ stage = "partitions" /\ \A k \in Buckets : k < cursor
  /\ LET applied[n \in 0..Len(relationships)] ==
            IF n = 0 THEN results ELSE Applied(applied[n - 1], relationships[n])
     IN results' = applied[Len(relationships)]
  /\ matched' = matched \cup UNION {relationships[i].banks : i \in DOMAIN relationships}
  /\ stage' = "gate"
  /\ UNCHANGED <<batch, scale, cursor, relationships, gate>>

-----------------------------------------------------------------------------
(* The financial invariants.  The sixth check recomputes the metrics from  *)
(* the rows they were computed from and is left out.                       *)

Absolute(n) == Distance(n, 0)
AggTolerance(amount) == Larger(TolerancePaise, (Absolute(amount) + 500) \div 1000)

Attributed == UNION {results[i].banks : i \in DOMAIN results}
Captured == {p \in Payments : batch.payments[p].status = "captured"}
AllRefunds == Total(AmountsOf(batch.refunds), DOMAIN batch.refunds)
AllChargebacks == Total(AmountsOf(batch.chargebacks), DOMAIN batch.chargebacks)
NetAmount == [p \in Payments |-> batch.payments[p].net]

InputComplete == \A p \in Payments : \E i \in DOMAIN results : results[i].payment = p

MoneyConservation ==
  LET expected == Total([i \in DOMAIN results |-> results[i].net], DOMAIN results)
      captured == Total(NetAmount, Captured) - AllRefunds - AllChargebacks
  IN Distance(expected, captured) <= AggTolerance(Larger(Absolute(expected), Absolute(captured)))

DebitCreditBalance ==
  LET lost == {b \in Credits : b \notin Attributed /\ ~SharesUtr(b)}
      debits == Total(BankAmount, (DOMAIN batch.bank) \ Credits)
  IN /\ Total(BankAmount, lost) <= AggTolerance(Total(BankAmount, Credits))
     /\ Distance(debits, AllChargebacks) <= AggTolerance(debits)

CardinalityConsistency ==
  /\ \A i, j \in DOMAIN relationships : i # j =>
       /\ relationships[i].settlements \cap relationships[j].settlements = {}
       /\ relationships[i].banks \cap relationships[j].banks = {}
  /\ \A i \in DOMAIN relationships :
       LET source == Total(SettlementAmount, relationships[i].settlements)
           target == Total(BankAmount, relationships[i].banks)
       IN Distance(source, target) <= AggTolerance(Larger(source, target))

PartitionComplete ==
  /\ SettlementIds \subseteq UNION {results[i].settlements : i \in DOMAIN results}
  /\ \A b \in Credits : b \in Attributed \/ SharesUtr(b)

EvaluateInvariants ==
  /\ stage = "gate"
  /\ gate' = IF /\ InputComplete /\ MoneyConservation /\ DebitCreditBalance
                /\ CardinalityConsistency /\ PartitionComplete
             THEN "pass" ELSE "fail"
  /\ stage' = "done"
  /\ UNCHANGED <<batch, scale, cursor, results, matched, relationships>>

-----------------------------------------------------------------------------
\* A loop has run over its records: what follows it, with the credits in use
\* collected from the rows before the passes.
NextStage ==
  /\ \/ stage = "match" /\ cursor > Len(batch.payments)
     \/ stage \in {"orphans", "bulk"} /\ cursor > Len(batch.bank)
     \/ stage = "split" /\ cursor > Len(batch.settlements)
  /\ stage' = CASE stage = "match" -> "orphans"
                [] stage = "orphans" -> IF scale THEN "partitions" ELSE "bulk"
                [] stage = "bulk" -> "split"
                [] stage = "split" -> "many"
  /\ matched' = IF stage = "orphans" THEN Attributed ELSE matched
  /\ cursor' = IF stage' = "partitions" THEN 0 ELSE 1
  /\ UNCHANGED <<batch, scale, results, relationships, gate>>

MatchingStart ==
  /\ stage = "match" /\ cursor = 1
  /\ results = <<>> /\ matched = {} /\ relationships = <<>> /\ gate = "none"

MatchingInit == batch \in Batches /\ scale \in ScalePaths /\ MatchingStart

MatchingNext ==
  \/ MatchPayment \/ DetectOrphan \/ NextStage
  \/ BulkCredit \/ SplitSettlement \/ ManyToMany
  \/ ResolvePartition \/ ApplyRelationships
  \/ EvaluateInvariants

MatchingSpec == MatchingInit /\ [][MatchingNext]_matchVars

-----------------------------------------------------------------------------
(* Properties *)

\* The fields, and scores within their bounds.
MatchingTypeOK ==
  /\ stage \in {"match", "orphans", "bulk", "split", "many", "partitions", "gate", "done"}
  /\ matched \subseteq Credits
  /\ \A i \in DOMAIN results : /\ results[i].score \in 0..100
                               /\ results[i].banks \subseteq Credits
  /\ gate \in {"none", "pass", "fail"}

\* AUTO_MATCHED means money in the bank: the payment has one settlement of the expected
\* amount and one credit of about that amount, on time.  A settlement without a credit
\* leaves the branches of the matcher as AUTO_MATCHED, and only the confidence score
\* turns it into a review (matcher.ts 229-265).
MatchedIsBacked ==
  \A i \in DOMAIN results : results[i].status = "AUTO_MATCHED" =>
    \E s \in SettlementIds, b \in Credits :
      LET settlement == batch.settlements[s] IN
      /\ results[i].settlements = {s} /\ results[i].banks = {b}
      /\ Distance(results[i].net, settlement.amount) <= TolerancePaise
      /\ Distance(batch.bank[b].amount, settlement.amount) <= FuzzyTolerance(settlement.amount)
      /\ settlement.time # NoTime => batch.bank[b].time - settlement.time <= ExpectedHours

\* A credit stands behind two payments only if one of them names it by its UTR: the
\* fuzzy search and the orphan detection skip what was taken, the UTR path does not
\* (matcher.ts 167-175, 382).
SharedOnlyByUtr ==
  \A i, j \in DOMAIN results : \A b \in results[i].banks \cap results[j].banks :
    (i < j /\ results[i].type = "1:1" /\ results[j].type = "1:1") =>
      \E s \in results[i].settlements \cup results[j].settlements :
        batch.settlements[s].utr = batch.bank[b].utr /\ batch.bank[b].utr # 0

\* What the matcher reports as matched is backed, and not counted twice by similarity.
MatchesSound == MatchedIsBacked /\ SharedOnlyByUtr

\* The group found for a target: as close as any group of two to MaxGroupSize records,
\* none of the groups as close is smaller, and none is found only if there is none.
IsBestGroup(group, S, amount, target) ==
  LET apart(G) == Distance(Total(amount, G), target)
      groups == {G \in SUBSET S : /\ Cardinality(G) \in 2..MaxGroupSize
                                  /\ apart(G) <= TolerancePaise}
  IN IF groups = {} THEN group = {}
     ELSE /\ group \in groups
          /\ \A G \in groups : \/ apart(group) < apart(G)
                               \/ /\ apart(group) = apart(G)
                                  /\ Cardinality(group) <= Cardinality(G)

\* The pruned, ordered search of cardinality.ts loses no better group than it returns
\* (87-141, 169-234): compared with all subsets, in every state the passes call it in.
SearchIsExact ==
  /\ stage = "bulk" => \A b \in Bulk \ matched :
       IsBestGroup(BestGroup(SettlementsNear(OpenSettlements, b), SettlementAmount, BankAmount[b]),
                   SettlementsNear(OpenSettlements, b), SettlementAmount, BankAmount[b])
  /\ stage = "split" => \A s \in OpenSettlements :
       IsBestGroup(BestGroup(CreditsNear(Credits \ matched, s), BankAmount, SettlementAmount[s]),
                   CreditsNear(Credits \ matched, s), BankAmount, SettlementAmount[s])

\* A settlement or a credit is in one relationship at most, and the credits of a
\* relationship stand in no row but those of its own payments: neither the matcher nor
\* the orphan detection has given them to somebody else.
GroupedOnce ==
  /\ \A i, j \in DOMAIN relationships : i # j =>
       /\ relationships[i].settlements \cap relationships[j].settlements = {}
       /\ relationships[i].banks \cap relationships[j].banks = {}
  /\ \A i \in DOMAIN relationships, r \in DOMAIN results :
       relationships[i].banks \cap results[r].banks # {} =>
         \E s \in relationships[i].settlements : batch.settlements[s].payment = results[r].payment

\* On the path of small batches, the row of every grouped settlement shows the credits
\* of its group, and no credit or settlement is left that a group of two would explain.
PassesComplete ==
  (~scale /\ stage \in {"gate", "done"}) =>
    /\ \A i \in DOMAIN relationships : \A s \in relationships[i].settlements :
         results[RowOf(batch.settlements[s].payment)].banks = relationships[i].banks
    /\ \A b \in Bulk \ matched : NToOne(OpenSettlements, b) = {}
    /\ \A s \in OpenSettlements : OneToN(s, Credits \ matched) = {}

\* The groups are the best there are, disjoint, and no pass leaves one behind.
GroupsSound == SearchIsExact /\ GroupedOnce /\ PassesComplete

\* A batch whose parts refer to each other and whose records all count.
WellFormed ==
  /\ Captured = Payments
  /\ \A s \in SettlementIds : batch.settlements[s].payment \in Payments
  /\ \A r \in DOMAIN batch.refunds : batch.refunds[r].counted
                                     /\ batch.refunds[r].payment \in Payments
  /\ \A c \in DOMAIN batch.chargebacks : batch.chargebacks[c].counted
                                         /\ batch.chargebacks[c].payment \in Payments
  /\ Total(BankAmount, (DOMAIN batch.bank) \ Credits) = AllChargebacks

\* No well-formed batch is stopped by the gate, on either path: whatever was mismatched,
\* duplicated, orphaned or grouped, every settlement and every credit is accounted for
\* (invariants.ts 11-16).
AccountedFor == (stage = "done" /\ WellFormed) => gate = "pass"

-----------------------------------------------------------------------------
(* Stated by the code and not kept; README.md says when. *)

\* "so both paths label results consistently": the row of a grouped settlement shows
\* the credits of its group on the path of large batches, too.
BothPathsLabel ==
  stage \in {"gate", "done"} =>
    \A i \in DOMAIN relationships : \A s \in relationships[i].settlements :
      results[RowOf(batch.settlements[s].payment)].banks = relationships[i].banks

\* "timing -> amount -> lexical ID": what is grouped lies within the time window.
GroupsAreTimely ==
  \A i \in DOMAIN relationships :
    \A s \in relationships[i].settlements, b \in relationships[i].banks :
      batch.settlements[s].time # NoTime =>
        Distance(batch.settlements[s].time, batch.bank[b].time) <= GroupHours

\* "every refund/chargeback is attached to its payment's result".
AdjustmentsAttached == stage = "gate" => MoneyConservation

\* "every payment must yield exactly one" result.
EveryPaymentHasRow == stage = "gate" => InputComplete
=============================================================================
