------------------------- MODULE InvoiceSolverProofs -------------------------
(***************************************************************************)
(* Theorem about InvoiceSolver, for every request and any cap on           *)
(* candidates and splits: what is answered is right.                       *)
(*                                                                         *)
(* The search visits the paths, the ascending sequences of places in the   *)
(* candidates, in lexical order.  Before the search is about to try a path *)
(* r, best is the first of the best good paths before r (BestBefore): a    *)
(* good path the search has skipped would go on from a leaf or from an     *)
(* invoice that was too large, and since the candidates ascend and sums    *)
(* only grow, its own sum would be too large.  At the end every good path  *)
(* lies behind, so best is the one path that beats all others, whichever   *)
(* solve found it: a replay that is not cut short comes to the same answer.*)
(* Unless candidates were dropped, every admissible selection is that of   *)
(* some path.                                                              *)
(***************************************************************************)
EXTENDS InvoiceSolver, TLAPS, FiniteSetTheorems, SequenceTheorems, WellFoundedInduction

-----------------------------------------------------------------------------
(* Induction, sums and sorting *)

\* A set of numbers that has 0 and with a number the next one up to n has all up to n.
LEMMA Upwards ==
  ASSUME NEW n \in Nat, NEW G, 0 \in G, \A k \in 1..n : k - 1 \in G => k \in G
  PROVE  \A k \in 0..n : k \in G
<1> SUFFICES ASSUME NEW z \in 0..n, z \notin G
             PROVE  FALSE
  OBVIOUS
<1> DEFINE Lacking == {k \in 0..n : k \notin G}
<1>1. Lacking \subseteq Nat /\ Lacking # {}
  OBVIOUS
<1>2. PICK b \in Lacking : \A m \in Lacking : ~(<<m, b>> \in OpToRel(<, Nat))
  BY <1>1, NatLessThanWellFounded, WFMin
<1>3. \A m \in Lacking : ~(m < b)
  BY <1>1, <1>2 DEF OpToRel
<1>4. b # 0 /\ b - 1 \notin Lacking
  BY <1>3
<1> QED
  BY <1>4

\* The partial sums of n numbers.
Accumulates(g, w, n) == g[0] = 0 /\ \A k \in 1..n : g[k] = g[k - 1] + w[k]

LEMMA SumsExist ==
  ASSUME NEW n \in Nat, NEW w \in [1..n -> Nat]
  PROVE  \E g \in [0..n -> Nat] : Accumulates(g, w, n)
<1> DEFINE G == {m \in 0..n : \E g \in [0..m -> Nat] : Accumulates(g, w, m)}
<1>1. 0 \in G
  <2>1. [k \in 0..0 |-> 0] \in [0..0 -> Nat]
    OBVIOUS
  <2>2. Accumulates([k \in 0..0 |-> 0], w, 0)
    BY DEF Accumulates
  <2> QED
    BY <2>1, <2>2
<1>2. ASSUME NEW m \in 1..n, m - 1 \in G
      PROVE  m \in G
  <2>1. PICK g \in [0..(m - 1) -> Nat] : Accumulates(g, w, m - 1)
    BY <1>2
  <2> DEFINE h == [k \in 0..m |-> IF k = m THEN g[m - 1] + w[m] ELSE g[k]]
  <2>2. h \in [0..m -> Nat]
    <3>1. g[m - 1] \in Nat /\ w[m] \in Nat
      OBVIOUS
    <3>2. \A k \in 0..m : k = m \/ k \in 0..(m - 1)
      OBVIOUS
    <3> QED
      BY <3>1, <3>2
  <2>3. Accumulates(h, w, m)
    <3>1. h[0] = 0
      BY <2>1 DEF Accumulates
    <3>2. ASSUME NEW k \in 1..m
          PROVE  h[k] = h[k - 1] + w[k]
      <4>1. CASE k = m
        BY <4>1
      <4>2. CASE k # m
        BY <2>1, <4>2 DEF Accumulates
      <4> QED
        BY <4>1, <4>2
    <3> QED
      BY <3>1, <3>2 DEF Accumulates
  <2> HIDE DEF h
  <2>4. \E f \in [0..m -> Nat] : Accumulates(f, w, m)
    BY <2>2, <2>3
  <2>5. m \in 0..n
    OBVIOUS
  <2> QED
    BY <2>4, <2>5
<1>3. \A m \in 0..n : m \in G
  BY <1>1, <1>2, Upwards
<1>4. n \in G
  <2> HIDE DEF G
  <2> QED
    BY <1>3
<1> QED
  BY <1>4

\* What SumOf adds up.
Weights(S) == [n \in 1..Len(request.invoices) |-> IF n \in S THEN AmountOf(n) ELSE 0]

LEMMA RequestType ==
  ASSUME request \in RequestRecord
  PROVE  /\ Len(request.invoices) \in Nat /\ Invoices = 1..Len(request.invoices)
         /\ \A i \in Invoices : AmountOf(i) \in Nat /\ AmountOf(i) > 0
         /\ \A S : Weights(S) \in [1..Len(request.invoices) -> Nat]
         /\ IsFiniteSet(Invoices)
<1>1. request.invoices \in Seq(InvoiceRecord)
  BY DEF RequestRecord
<1>2. Len(request.invoices) \in Nat /\ Invoices = 1..Len(request.invoices)
  BY <1>1 DEF Invoices
<1>3. \A i \in Invoices : request.invoices[i] \in InvoiceRecord
  BY <1>1, <1>2
<1>4. \A i \in Invoices : AmountOf(i) \in Nat /\ AmountOf(i) > 0
  BY <1>3 DEF AmountOf, InvoiceRecord
<1>5. \A S : Weights(S) \in [1..Len(request.invoices) -> Nat]
  BY <1>2, <1>4 DEF Weights
<1>6. IsFiniteSet(Invoices)
  BY <1>2, FS_Interval
<1> QED
  BY <1>2, <1>4, <1>5, <1>6

\* SumOf is the last of the partial sums.
LEMMA SumIsLast ==
  ASSUME request \in RequestRecord, NEW S
  PROVE  \E g \in [0..Len(request.invoices) -> Nat] :
            /\ Accumulates(g, Weights(S), Len(request.invoices))
            /\ SumOf(S) = g[Len(request.invoices)]
<1> DEFINE n == Len(request.invoices)
           part(k) == IF k \in S THEN AmountOf(k) ELSE 0
           F(f) == [k \in 0..n |-> IF k = 0 THEN 0 ELSE f[k - 1] + part(k)]
           sum == CHOOSE f : f = F(f)
<1>1. n \in Nat /\ Weights(S) \in [1..n -> Nat]
  BY RequestType
<1>2. PICK g \in [0..n -> Nat] : Accumulates(g, Weights(S), n)
  BY <1>1, SumsExist
<1>3. SumOf(S) = sum[n]
  BY DEF SumOf
<1>4. \A k \in 1..n : Weights(S)[k] = part(k)
  BY DEF Weights
<1> HIDE DEF part
<1>5. g = F(g)
  <2>1. ASSUME NEW k \in 0..n
        PROVE  g[k] = F(g)[k]
    <3>1. CASE k = 0
      BY <1>2, <3>1 DEF Accumulates
    <3>2. CASE k # 0
      <4>1. k \in 1..n
        BY <1>1, <3>2
      <4> QED
        BY <1>2, <1>4, <3>2, <4>1 DEF Accumulates
    <3> QED
      BY <3>1, <3>2
  <2> QED
    BY <2>1
<1>10. sum = F(sum)
  BY <1>5
<1> HIDE DEF sum
<1> DEFINE G == {k \in 0..n : sum[k] = g[k]}
<1>6. 0 \in G
  <2>1. sum[0] = 0 /\ g[0] = 0
    BY <1>1, <1>2, <1>10 DEF Accumulates
  <2> QED
    BY <1>1, <2>1
<1>7. ASSUME NEW k \in 1..n, k - 1 \in G
      PROVE  k \in G
  <2>1. sum[k] = sum[k - 1] + part(k)
    <3>1. k \in 0..n /\ k # 0
      BY <1>1
    <3>2. F(sum)[k] = sum[k - 1] + part(k)
      BY <3>1, Zenon
    <3> QED
      BY <1>10, <3>2, Zenon
  <2>2. g[k] = g[k - 1] + part(k)
    BY <1>1, <1>5
  <2> QED
    BY <1>1, <1>7, <2>1, <2>2
<1>8. \A k \in 0..n : k \in G
  <2> HIDE DEF G
  <2> QED
    BY <1>1, <1>6, <1>7, Upwards
<1>9. SumOf(S) = g[n]
  BY <1>1, <1>3, <1>8
<1> QED
  BY <1>2, <1>9

\* A sum over no invoices is zero; a further invoice adds its amount; a larger
\* set has no smaller sum.
LEMMA SumEmpty ==
  ASSUME request \in RequestRecord
  PROVE  SumOf({}) = 0
<1> DEFINE n == Len(request.invoices)
<1>1. n \in Nat
  BY RequestType
<1>2. PICK g \in [0..n -> Nat] : Accumulates(g, Weights({}), n) /\ SumOf({}) = g[n]
  BY SumIsLast
<1> DEFINE G == {k \in 0..n : g[k] = 0}
<1>3. 0 \in G
  BY <1>1, <1>2 DEF Accumulates
<1>4. \A k \in 1..n : k - 1 \in G => k \in G
  BY <1>1, <1>2 DEF Accumulates, Weights
<1>5. \A k \in 0..n : k \in G
  <2> HIDE DEF G
  <2> QED
    BY <1>1, <1>3, <1>4, Upwards
<1> QED
  BY <1>1, <1>2, <1>5

LEMMA SumAdds ==
  ASSUME request \in RequestRecord, NEW S, NEW i \in Invoices, i \notin S
  PROVE  SumOf(S \cup {i}) = SumOf(S) + AmountOf(i)
<1> DEFINE n == Len(request.invoices)
           T == S \cup {i}
<1>1. n \in Nat /\ i \in 1..n /\ AmountOf(i) \in Nat
  BY RequestType
<1>2. PICK g \in [0..n -> Nat] : Accumulates(g, Weights(S), n) /\ SumOf(S) = g[n]
  BY SumIsLast
<1>3. PICK h \in [0..n -> Nat] : Accumulates(h, Weights(T), n) /\ SumOf(T) = h[n]
  BY SumIsLast
<1> DEFINE G == {k \in 0..n : h[k] = g[k] + (IF k >= i THEN AmountOf(i) ELSE 0)}
<1>4. 0 \in G
  BY <1>1, <1>2, <1>3 DEF Accumulates
<1>5. ASSUME NEW k \in 1..n, k - 1 \in G
      PROVE  k \in G
  <2>1. h[k] = h[k - 1] + Weights(T)[k] /\ g[k] = g[k - 1] + Weights(S)[k]
    BY <1>2, <1>3 DEF Accumulates
  <2>2. Weights(T)[k] = (IF k = i THEN AmountOf(i) ELSE Weights(S)[k])
    BY DEF Weights
  <2>3. k = i => Weights(S)[k] = 0
    BY DEF Weights
  <2>4. Weights(S)[k] \in Nat
    BY RequestType
  <2> QED
    BY SMTT(30), <1>1, <1>5, <2>1, <2>2, <2>3, <2>4
<1>6. \A k \in 0..n : k \in G
  <2> HIDE DEF G
  <2> QED
    BY <1>1, <1>4, <1>5, Upwards
<1>7. n \in G
  BY SMTT(30), <1>1, <1>6
<1> QED
  BY <1>1, <1>2, <1>3, <1>7

LEMMA SumGrows ==
  ASSUME request \in RequestRecord, NEW S, NEW T, S \subseteq T
  PROVE  SumOf(S) \in Nat /\ SumOf(T) \in Nat /\ SumOf(S) <= SumOf(T)
<1> DEFINE n == Len(request.invoices)
<1>1. n \in Nat
  BY RequestType
<1>2. PICK g \in [0..n -> Nat] : Accumulates(g, Weights(S), n) /\ SumOf(S) = g[n]
  BY SumIsLast
<1>3. PICK h \in [0..n -> Nat] : Accumulates(h, Weights(T), n) /\ SumOf(T) = h[n]
  BY SumIsLast
<1> DEFINE G == {k \in 0..n : g[k] <= h[k]}
<1>4. 0 \in G
  BY <1>1, <1>2, <1>3 DEF Accumulates
<1>5. ASSUME NEW k \in 1..n, k - 1 \in G
      PROVE  k \in G
  <2>1. h[k] = h[k - 1] + Weights(T)[k] /\ g[k] = g[k - 1] + Weights(S)[k]
    BY <1>2, <1>3 DEF Accumulates
  <2>2. Weights(S)[k] \in Nat /\ Weights(T)[k] \in Nat
    BY RequestType
  <2>3. Weights(S)[k] <= Weights(T)[k]
    <3>1. AmountOf(k) \in Nat
      BY RequestType
    <3> QED
      BY <3>1 DEF Weights
  <2>4. k \in 0..n /\ k - 1 \in 0..n
    BY <1>1
  <2>5. g[k - 1] \in Nat /\ h[k - 1] \in Nat /\ g[k - 1] <= h[k - 1]
    BY <1>5, <2>4
  <2>6. g[k] <= h[k]
    BY <2>1, <2>2, <2>3, <2>5
  <2> QED
    BY <2>4, <2>6
<1>6. \A k \in 0..n : k \in G
  <2> HIDE DEF G
  <2> QED
    BY <1>1, <1>4, <1>5, Upwards
<1>7. n \in G
  BY <1>1, <1>6
<1> QED
  BY <1>1, <1>2, <1>3, <1>7

\* R orders T strictly and totally.
Orders(R, T) ==
  /\ \A a, b \in T : <<a, b>> \in R \/ <<b, a>> \in R \/ a = b
  /\ \A a \in T : <<a, a>> \notin R
  /\ \A a, b, c \in T : <<a, b>> \in R /\ <<b, c>> \in R => <<a, c>> \in R

\* A finite set can be written in such an order.
LEMMA OrderedListing ==
  ASSUME NEW T, IsFiniteSet(T), NEW R, Orders(R, T)
  PROVE  \E s \in [1..Cardinality(T) -> T] :
            \A j, k \in 1..Cardinality(T) : j < k => <<s[j], s[k]>> \in R
<1> DEFINE n == Cardinality(T)
           Below(a) == {b \in T : <<b, a>> \in R \/ b = a}
           rank == [a \in T |-> Cardinality(Below(a))]
<1>0. n \in Nat
  BY FS_CardinalityType
<1>1. \A a \in T : IsFiniteSet(Below(a)) /\ rank[a] \in 1..n
  <2> TAKE a \in T
  <2>1. Below(a) \subseteq T /\ a \in Below(a)
    OBVIOUS
  <2> HIDE DEF Below
  <2>2. IsFiniteSet(Below(a)) /\ Cardinality(Below(a)) <= n
    BY <2>1, FS_Subset
  <2>3. Cardinality(Below(a)) \in Nat /\ Cardinality(Below(a)) # 0
    BY <2>1, <2>2, FS_CardinalityType, FS_EmptySet
  <2> QED
    BY <1>0, <2>2, <2>3
<1>2. \A a, b \in T : <<a, b>> \in R => rank[a] < rank[b]
  <2> SUFFICES ASSUME NEW a \in T, NEW b \in T, <<a, b>> \in R
               PROVE  rank[a] < rank[b]
    OBVIOUS
  <2>1. Below(a) \subseteq Below(b)
    BY DEF Orders
  <2>2. b \in Below(b) /\ b \notin Below(a)
    BY DEF Orders
  <2> HIDE DEF Below
  <2>3. Cardinality(Below(a)) <= Cardinality(Below(b)) /\ Cardinality(Below(b)) # Cardinality(Below(a))
    BY <1>1, <2>1, <2>2, FS_Subset
  <2>4. Cardinality(Below(a)) \in Nat /\ Cardinality(Below(b)) \in Nat
    BY <1>1, FS_CardinalityType
  <2> QED
    BY <2>3, <2>4
<1> HIDE DEF rank
<1>3. rank \in [T -> 1..n]
  BY <1>1 DEF rank
<1>4. \A a, b \in T : a # b => rank[a] # rank[b]
  <2> SUFFICES ASSUME NEW a \in T, NEW b \in T, a # b, rank[a] = rank[b]
               PROVE  FALSE
    OBVIOUS
  <2>1. rank[a] \in Nat /\ rank[b] \in Nat
    BY <1>0, <1>3
  <2>2. ~(rank[a] < rank[b]) /\ ~(rank[b] < rank[a])
    BY <2>1
  <2>3. <<a, b>> \notin R /\ <<b, a>> \notin R
    BY <1>2, <2>2
  <2> QED
    BY <2>3 DEF Orders
<1>5. rank \in Injection(T, 1..n)
  BY <1>3, <1>4 DEF Injection, IsInjective
<1>6. IsFiniteSet(1..n) /\ Cardinality(1..n) = n
  BY <1>0, FS_Interval
<1>7. rank \in Surjection(T, 1..n)
  BY <1>5, <1>6, FS_Injection
<1>8. \A k \in 1..n : \E a \in T : rank[a] = k
  BY <1>7 DEF Surjection
<1> DEFINE s == [k \in 1..n |-> CHOOSE a \in T : rank[a] = k]
<1>9. s \in [1..n -> T] /\ \A k \in 1..n : rank[s[k]] = k
  BY <1>8
<1> HIDE DEF s
<1>10. ASSUME NEW j \in 1..n, NEW k \in 1..n, j < k
       PROVE  <<s[j], s[k]>> \in R
  <2>1. s[j] \in T /\ s[k] \in T /\ rank[s[j]] = j /\ rank[s[k]] = k
    BY <1>9
  <2>2. s[j] # s[k]
    BY <1>0, <1>10, <2>1
  <2>3. <<s[k], s[j]>> \notin R
    BY <1>0, <1>2, <1>10, <2>1
  <2> QED
    BY <2>1, <2>2, <2>3 DEF Orders
<1> QED
  BY <1>9, <1>10

\* A listing without repetition that is as long as the set has all of it.
LEMMA ListsAll ==
  ASSUME NEW T, IsFiniteSet(T), NEW s \in [1..Cardinality(T) -> T],
         \A j, k \in 1..Cardinality(T) : j < k => s[j] # s[k]
  PROVE  \A a \in T : \E k \in 1..Cardinality(T) : s[k] = a
<1> DEFINE n == Cardinality(T)
<1>1. n \in Nat /\ IsFiniteSet(1..n) /\ Cardinality(1..n) = n
  BY FS_CardinalityType, FS_Interval
<1>2. \A j, k \in 1..n : j # k => s[j] # s[k]
  BY <1>1
<1>3. s \in Injection(1..n, T)
  BY <1>2 DEF Injection, IsInjective
<1>4. s \in Surjection(1..n, T)
  BY <1>1, <1>3, FS_Injection
<1> QED
  BY <1>4 DEF Surjection

\* Invoices are ordered by amount and place.
LEMMA BeforeOrders ==
  ASSUME request \in RequestRecord, NEW S \in SUBSET Invoices
  PROVE  Orders({x \in S \X S : SortsBefore(x[1], x[2])}, S)
<1> DEFINE R == {x \in S \X S : SortsBefore(x[1], x[2])}
<1>1. \A a, b \in S : <<a, b>> \in R <=> SortsBefore(a, b)
  OBVIOUS
<1>2. \A a \in S : a \in Nat /\ AmountOf(a) \in Nat
  BY RequestType
<1>3. \A a, b \in S : SortsBefore(a, b) \/ SortsBefore(b, a) \/ a = b
  BY <1>2 DEF SortsBefore
<1>4. \A a \in S : ~SortsBefore(a, a)
  BY <1>2 DEF SortsBefore
<1>5. \A a, b, c \in S : SortsBefore(a, b) /\ SortsBefore(b, c) => SortsBefore(a, c)
  BY <1>2 DEF SortsBefore
<1> HIDE DEF R
<1>6. Orders(R, S)
  BY <1>1, <1>3, <1>4, <1>5 DEF Orders
<1> QED
  BY <1>6 DEF R

\* What sorting does (the sort of eligibleInvoices).
LEMMA SortedFacts ==
  ASSUME request \in RequestRecord, NEW S \in SUBSET Invoices
  PROVE  /\ Cardinality(S) \in Nat /\ Sorted(S) \in [1..Cardinality(S) -> S]
         /\ \A j, k \in 1..Cardinality(S) : j < k => SortsBefore(Sorted(S)[j], Sorted(S)[k])
         /\ \A i \in S : \E k \in 1..Cardinality(S) : Sorted(S)[k] = i
<1> DEFINE n == Cardinality(S)
           R == {x \in S \X S : SortsBefore(x[1], x[2])}
<1>1. IsFiniteSet(S) /\ n \in Nat
  BY RequestType, FS_Subset, FS_CardinalityType
<1>2. Orders(R, S)
  BY BeforeOrders
<1>3. \A a, b \in S : <<a, b>> \in R => SortsBefore(a, b)
  OBVIOUS
<1> HIDE DEF R
<1>4. \E s \in [1..n -> S] : \A j, k \in 1..n : j < k => SortsBefore(s[j], s[k])
  <2>1. PICK s \in [1..n -> S] : \A j, k \in 1..n : j < k => <<s[j], s[k]>> \in R
    BY <1>1, <1>2, OrderedListing
  <2>2. \A j, k \in 1..n : j < k => SortsBefore(s[j], s[k])
    BY <1>3, <2>1
  <2> QED
    BY <2>2
<1>5. /\ Sorted(S) \in [1..n -> S]
      /\ \A j, k \in 1..n : j < k => SortsBefore(Sorted(S)[j], Sorted(S)[k])
  BY <1>4 DEF Sorted
<1>6. \A j, k \in 1..n : j < k => Sorted(S)[j] # Sorted(S)[k]
  <2>1. \A a \in S : ~SortsBefore(a, a)
    BY RequestType DEF SortsBefore
  <2> QED
    BY <1>5, <2>1
<1>7. \A i \in S : \E k \in 1..n : Sorted(S)[k] = i
  BY <1>1, <1>5, <1>6, ListsAll
<1> QED
  BY <1>1, <1>5, <1>7

-----------------------------------------------------------------------------
(* Candidates and paths *)

\* The candidates ascend, and unless some were dropped they are all there is.
CandidatesRight ==
  /\ candidates \in Seq(Eligible)
  /\ \A j, k \in DOMAIN candidates : j < k => SortsBefore(candidates[j], candidates[k])
  /\ ~Dropped => \A i \in Eligible : \E k \in DOMAIN candidates : candidates[k] = i

\* The sort and the cut make them so.
LEMMA Candidates ==
  request \in RequestRecord /\ CandidatesCap \in Nat /\ candidates = Truncated(Sorted(Eligible))
    => CandidatesRight
<1> SUFFICES ASSUME request \in RequestRecord, CandidatesCap \in Nat,
                    candidates = Truncated(Sorted(Eligible))
             PROVE  CandidatesRight
  OBVIOUS
<1> DEFINE n == Cardinality(Eligible)
           s == Sorted(Eligible)
<1>1. Eligible \subseteq Invoices
  BY DEF Eligible
<1>2. /\ n \in Nat /\ s \in [1..n -> Eligible]
      /\ \A j, k \in 1..n : j < k => SortsBefore(s[j], s[k])
      /\ \A i \in Eligible : \E k \in 1..n : s[k] = i
  BY <1>1, SortedFacts
<1> HIDE DEF s
<1>3. s \in Seq(Eligible) /\ Len(s) = n
  BY <1>2
<1> DEFINE m == Lesser(n, CandidatesCap)
<1>4. m \in Nat /\ m <= n /\ (~Dropped => m = n)
  BY <1>2 DEF Lesser, Dropped
<1>5. candidates = SubSeq(s, 1, m)
  BY <1>3 DEF Truncated, s
<1> HIDE DEF m
<1>6. /\ candidates \in Seq(Eligible) /\ Len(candidates) = m
      /\ \A k \in 1..m : candidates[k] = s[k]
  BY <1>2, <1>3, <1>4, <1>5
<1>7. DOMAIN candidates = 1..m
  BY <1>6
<1>8. \A j, k \in 1..m : j < k => SortsBefore(candidates[j], candidates[k])
  BY <1>2, <1>4, <1>6
<1>9. ~Dropped => \A i \in Eligible : \E k \in 1..m : candidates[k] = i
  BY <1>2, <1>4, <1>6
<1> QED
  BY <1>6, <1>7, <1>8, <1>9 DEF CandidatesRight

\* A path of the search takes its places in ascending order.
IsPath(p) ==
  /\ p \in Seq(DOMAIN candidates)
  /\ \A i, j \in DOMAIN p : i < j => p[i] < p[j]

LEMMA CandidateTypes ==
  ASSUME request \in RequestRecord, CandidatesRight
  PROVE  /\ Len(candidates) \in Nat /\ DOMAIN candidates = 1..Len(candidates)
         /\ \A k \in DOMAIN candidates :
               candidates[k] \in Eligible /\ candidates[k] \in Invoices
                 /\ AmountOf(candidates[k]) \in Nat /\ AmountOf(candidates[k]) > 0
         /\ \A j, k \in DOMAIN candidates :
               /\ j < k => candidates[j] # candidates[k]
               /\ j <= k => AmountOf(candidates[j]) <= AmountOf(candidates[k])
<1>1. candidates \in Seq(Eligible) /\ Eligible \subseteq Invoices
  BY DEF CandidatesRight, Eligible
<1>2. Len(candidates) \in Nat /\ DOMAIN candidates = 1..Len(candidates)
  BY <1>1
<1>3. \A k \in DOMAIN candidates : candidates[k] \in Eligible /\ candidates[k] \in Invoices
  BY <1>1, <1>2
<1>4. \A k \in DOMAIN candidates :
         AmountOf(candidates[k]) \in Nat /\ AmountOf(candidates[k]) > 0
  BY <1>3, RequestType
<1>5. \A i \in Invoices : ~SortsBefore(i, i)
  BY RequestType DEF SortsBefore
<1>6. \A j, k \in DOMAIN candidates : j < k => candidates[j] # candidates[k]
  BY <1>3, <1>5 DEF CandidatesRight
<1>7. ASSUME NEW j \in DOMAIN candidates, NEW k \in DOMAIN candidates, j <= k
      PROVE  AmountOf(candidates[j]) <= AmountOf(candidates[k])
  <2>1. CASE j = k
    BY <1>4, <2>1
  <2>2. CASE j < k
    <3>1. SortsBefore(candidates[j], candidates[k])
      BY <2>2 DEF CandidatesRight
    <3>2. AmountOf(candidates[j]) \in Nat /\ AmountOf(candidates[k]) \in Nat
      BY <1>4
    <3> QED
      BY <3>1, <3>2 DEF SortsBefore
  <2> QED
    BY <1>2, <1>7, <2>1, <2>2
<1> QED
  BY <1>2, <1>3, <1>4, <1>6, <1>7

\* A path chooses as many invoices as it has places.
LEMMA ChosenType ==
  ASSUME request \in RequestRecord, CandidatesRight, NEW p, IsPath(p)
  PROVE  /\ Chosen(p) \subseteq Eligible /\ Chosen(p) \subseteq Invoices
         /\ Len(p) \in Nat /\ IsFiniteSet(Chosen(p)) /\ Cardinality(Chosen(p)) = Len(p)
<1> DEFINE n == Len(p)
           f == [k \in 1..n |-> candidates[p[k]]]
<1>1. n \in Nat /\ DOMAIN p = 1..n /\ \A k \in 1..n : p[k] \in DOMAIN candidates
  BY DEF IsPath
<1>2. \A k \in 1..n : candidates[p[k]] \in Eligible /\ candidates[p[k]] \in Invoices
  BY <1>1, CandidateTypes
<1>3. Chosen(p) \subseteq Eligible /\ Chosen(p) \subseteq Invoices
  BY <1>1, <1>2 DEF Chosen
<1>4. f \in [1..n -> Chosen(p)]
  BY <1>1 DEF Chosen
<1>5. \A j, k \in 1..n : j < k => f[j] # f[k]
  <2> SUFFICES ASSUME NEW j \in 1..n, NEW k \in 1..n, j < k
               PROVE  candidates[p[j]] # candidates[p[k]]
    OBVIOUS
  <2>1. p[j] < p[k]
    BY <1>1 DEF IsPath
  <2> QED
    BY <1>1, <2>1, CandidateTypes
<1>6. \A j, k \in 1..n : f[j] = f[k] => j = k
  <2> HIDE DEF f
  <2> QED
    BY <1>1, <1>5
<1>7. \A x \in Chosen(p) : \E k \in 1..n : f[k] = x
  BY <1>1 DEF Chosen
<1> HIDE DEF f
<1>8. f \in Bijection(1..n, Chosen(p))
  BY <1>4, <1>6, <1>7 DEF Bijection, Injection, IsInjective, Surjection
<1>9. ExistsBijection(1..n, Chosen(p))
  BY <1>8 DEF ExistsBijection
<1>10. Cardinality(Chosen(p)) = n /\ IsFiniteSet(Chosen(p))
  BY <1>1, <1>9, FS_CountingElements, FS_NatBijection
<1> QED
  BY <1>1, <1>3, <1>10

\* The path of the root chooses nothing.
LEMMA RootPath ==
  ASSUME request \in RequestRecord, CandidatesRight
  PROVE  IsPath(<< >>) /\ Chosen(<< >>) = {} /\ SumOf(Chosen(<< >>)) = 0
<1>1. IsPath(<< >>)
  BY DEF IsPath
<1>2. Chosen(<< >>) = {}
  BY DEF Chosen
<1> QED
  BY <1>1, <1>2, SumEmpty

\* One more place adds the amount of its invoice.
LEMMA LongerPath ==
  ASSUME request \in RequestRecord, CandidatesRight, NEW p, IsPath(p),
         NEW k \in DOMAIN candidates, p # << >> => p[Len(p)] < k
  PROVE  /\ IsPath(Append(p, k)) /\ Len(Append(p, k)) = Len(p) + 1
         /\ Chosen(Append(p, k)) = Chosen(p) \cup {candidates[k]}
         /\ SumOf(Chosen(Append(p, k))) = SumOf(Chosen(p)) + AmountOf(candidates[k])
<1> DEFINE n == Len(p)
           q == Append(p, k)
<1>1. n \in Nat /\ DOMAIN p = 1..n /\ \A i \in 1..n : p[i] \in DOMAIN candidates
  BY DEF IsPath
<1>2. p \in Seq(DOMAIN candidates)
  BY DEF IsPath
<1>3. /\ q \in Seq(DOMAIN candidates) /\ Len(q) = n + 1 /\ DOMAIN q = 1..(n + 1)
      /\ \A i \in 1..n : q[i] = p[i]
      /\ q[n + 1] = k
  BY <1>1, <1>2
<1> HIDE DEF q
<1>4. \A i \in 1..n : p[i] \in Nat /\ p[i] < k
  <2> SUFFICES ASSUME NEW i \in 1..n PROVE p[i] \in Nat /\ p[i] < k
    OBVIOUS
  <2>1. p # << >> /\ n \in 1..n
    BY <1>1
  <2>2. p[i] \in Nat /\ p[n] \in Nat /\ k \in Nat
    BY <1>1, <2>1, CandidateTypes
  <2>3. i < n => p[i] < p[n]
    BY <1>1, <2>1 DEF IsPath
  <2> QED
    BY <1>1, <2>1, <2>2, <2>3
<1>5. IsPath(q)
  <2>1. ASSUME NEW i \in DOMAIN q, NEW j \in DOMAIN q, i < j
        PROVE  q[i] < q[j]
    <3>1. i \in 1..n
      BY <1>1, <1>3, <2>1
    <3>2. CASE j = n + 1
      BY <1>3, <1>4, <3>1, <3>2
    <3>3. CASE j # n + 1
      <4>1. j \in 1..n
        BY <1>1, <1>3, <3>3
      <4> QED
        BY <1>1, <1>3, <2>1, <3>1, <4>1 DEF IsPath
    <3> QED
      BY <3>2, <3>3
  <2> QED
    BY <1>3, <2>1 DEF IsPath
<1>6. Chosen(q) = Chosen(p) \cup {candidates[k]}
  <2>1. ASSUME NEW x \in Chosen(q)
        PROVE  x \in Chosen(p) \cup {candidates[k]}
    <3>1. PICK i \in DOMAIN q : x = candidates[q[i]]
      BY <2>1 DEF Chosen
    <3>2. CASE i = n + 1
      BY <1>3, <3>1, <3>2
    <3>3. CASE i # n + 1
      <4>1. i \in 1..n
        BY <1>1, <1>3, <3>3
      <4> QED
        BY <1>1, <1>3, <3>1, <4>1 DEF Chosen
    <3> QED
      BY <3>2, <3>3
  <2>2. ASSUME NEW x \in Chosen(p) \cup {candidates[k]}
        PROVE  x \in Chosen(q)
    <3>1. CASE x = candidates[k]
      BY <1>1, <1>3, <3>1 DEF Chosen
    <3>2. CASE x \in Chosen(p)
      <4>1. PICK i \in DOMAIN p : x = candidates[p[i]]
        BY <3>2 DEF Chosen
      <4> QED
        BY <1>1, <1>3, <4>1 DEF Chosen
    <3> QED
      BY <2>2, <3>1, <3>2
  <2> QED
    BY <2>1, <2>2
<1>7. candidates[k] \notin Chosen(p)
  <2> SUFFICES ASSUME NEW i \in 1..n, candidates[p[i]] = candidates[k]
               PROVE  FALSE
    BY <1>1 DEF Chosen
  <2> QED
    BY <1>1, <1>4, CandidateTypes
<1>8. SumOf(Chosen(p) \cup {candidates[k]}) = SumOf(Chosen(p)) + AmountOf(candidates[k])
  <2>1. candidates[k] \in Invoices
    BY CandidateTypes
  <2> QED
    BY <1>7, <2>1, SumAdds
<1> QED
  BY <1>3, <1>5, <1>6, <1>8 DEF q

-----------------------------------------------------------------------------
(* What the search skips *)

\* q goes on where p ends.
Extends(q, p) == Len(q) > Len(p) /\ \A j \in 1..Len(p) : q[j] = p[j]

\* A path that goes on chooses at least what its beginning does.
LEMMA ExtendedSum ==
  ASSUME request \in RequestRecord, CandidatesRight,
         NEW p, IsPath(p), NEW q, IsPath(q), Extends(q, p)
  PROVE  LET k == q[Len(p) + 1]
         IN  /\ k \in DOMAIN candidates /\ (p # << >> => p[Len(p)] < k)
             /\ SumOf(Chosen(p)) \in Nat /\ SumOf(Chosen(q)) \in Nat
             /\ SumOf(Chosen(p)) + AmountOf(candidates[k]) <= SumOf(Chosen(q))
<1> DEFINE n == Len(p)
           k == q[n + 1]
<1>1. /\ n \in Nat /\ DOMAIN p = 1..n
      /\ Len(q) \in Nat /\ DOMAIN q = 1..Len(q) /\ n + 1 \in 1..Len(q)
      /\ \A j \in 1..n : q[j] = p[j]
  BY DEF IsPath, Extends
<1>2. k \in DOMAIN candidates
  BY <1>1 DEF IsPath
<1>3. p # << >> => p[n] < k
  <2> SUFFICES ASSUME p # << >> PROVE p[n] < k
    OBVIOUS
  <2>1. n \in 1..n
    BY <1>1 DEF IsPath
  <2>2. n \in DOMAIN q /\ n + 1 \in DOMAIN q /\ n < n + 1
    BY <1>1, <2>1
  <2>3. q[n] < q[n + 1]
    BY <2>2 DEF IsPath
  <2> QED
    BY <1>1, <2>1, <2>3
<1> HIDE DEF k
<1>4. /\ Chosen(Append(p, k)) = Chosen(p) \cup {candidates[k]}
      /\ SumOf(Chosen(Append(p, k))) = SumOf(Chosen(p)) + AmountOf(candidates[k])
  BY <1>2, <1>3, LongerPath
<1>5. Chosen(p) \cup {candidates[k]} \subseteq Chosen(q)
  <2>1. candidates[k] \in Chosen(q)
    BY <1>1 DEF Chosen, k
  <2>2. ASSUME NEW x \in Chosen(p)
        PROVE  x \in Chosen(q)
    <3>1. PICK i \in DOMAIN p : x = candidates[p[i]]
      BY <2>2 DEF Chosen
    <3>2. i \in DOMAIN q /\ q[i] = p[i]
      BY <1>1
    <3> QED
      BY <3>1, <3>2 DEF Chosen
  <2> QED
    BY <2>1, <2>2
<1>6. SumOf(Chosen(p)) \in Nat /\ SumOf(Chosen(q)) \in Nat
  BY SumGrows
<1>7. SumOf(Chosen(p) \cup {candidates[k]}) <= SumOf(Chosen(q))
  BY <1>5, SumGrows
<1> QED
  BY <1>2, <1>3, <1>4, <1>6, <1>7 DEF k

\* The paths the search is to find: short enough, and within the tolerance.
Good(p) ==
  /\ IsPath(p) /\ p # << >> /\ Len(p) <= MaxSplit
  /\ Gap(SumOf(Chosen(p)), request.payment) <= request.tolerance

LEMMA GoodSum ==
  ASSUME request \in RequestRecord, NEW p, Good(p)
  PROVE  SumOf(Chosen(p)) \in Nat /\ Ceiling \in Nat /\ SumOf(Chosen(p)) <= Ceiling
<1>1. request.payment \in Nat /\ request.tolerance \in Nat
  BY DEF RequestRecord
<1>2. SumOf(Chosen(p)) \in Nat
  BY SumGrows
<1> QED
  BY <1>1, <1>2 DEF Good, Gap, Ceiling

\* Candidates ascend: when one is too large for a path, so is every later one.
LEMMA TooLarge ==
  ASSUME request \in RequestRecord, CandidatesRight, NEW p, IsPath(p), NEW q, Good(q),
         Extends(q, p), NEW b \in DOMAIN candidates, Exceeds(p, b)
  PROVE  q[Len(p) + 1] < b
<1> DEFINE k == q[Len(p) + 1]
<1>1. /\ k \in DOMAIN candidates
      /\ SumOf(Chosen(p)) \in Nat /\ SumOf(Chosen(q)) \in Nat
      /\ SumOf(Chosen(p)) + AmountOf(candidates[k]) <= SumOf(Chosen(q))
  BY ExtendedSum DEF Good
<1> HIDE DEF k
<1>2. SumOf(Chosen(q)) <= Ceiling /\ Ceiling \in Nat
  BY GoodSum
<1>3. /\ k \in Nat /\ b \in Nat
      /\ AmountOf(candidates[k]) \in Nat /\ AmountOf(candidates[b]) \in Nat
      /\ b <= k => AmountOf(candidates[b]) <= AmountOf(candidates[k])
  BY <1>1, CandidateTypes
<1>4. SumOf(Chosen(p)) + AmountOf(candidates[b]) > Ceiling
  BY DEF Exceeds
<1>5. k < b
  BY <1>1, <1>2, <1>3, <1>4
<1> QED
  BY <1>5 DEF k

\* Below a leaf there is nothing to find.
LEMMA LeafEnds ==
  ASSUME request \in RequestRecord, CandidatesRight, NEW p, IsPath(p), NEW q, Good(q),
         Len(p) >= MaxSplit \/ SumOf(Chosen(p)) > Ceiling, MaxSplit \in Nat
  PROVE  ~Extends(q, p)
<1> SUFFICES ASSUME Extends(q, p) PROVE FALSE
  OBVIOUS
<1>1. /\ q[Len(p) + 1] \in DOMAIN candidates
      /\ SumOf(Chosen(p)) \in Nat /\ SumOf(Chosen(q)) \in Nat
      /\ SumOf(Chosen(p)) + AmountOf(candidates[q[Len(p) + 1]]) <= SumOf(Chosen(q))
  BY ExtendedSum DEF Good
<1>2. AmountOf(candidates[q[Len(p) + 1]]) \in Nat
  BY <1>1, CandidateTypes
<1>3. SumOf(Chosen(q)) <= Ceiling /\ Ceiling \in Nat
  BY GoodSum
<1>4. ~(SumOf(Chosen(p)) > Ceiling)
  BY <1>1, <1>2, <1>3
<1>5. Len(p) \in Nat /\ Len(q) \in Nat /\ Len(q) > Len(p) /\ Len(q) <= MaxSplit
  BY DEF Good, IsPath, Extends
<1> QED
  BY <1>4, <1>5

-----------------------------------------------------------------------------
(* The order of the search *)

\* p is a beginning of r, or smaller at the first place where they differ: the
\* search that is about to try r has been at p.
Precedes(p, r) ==
  \E d \in 1..Len(r) :
    /\ Len(p) >= d - 1 /\ \A j \in 1..(d - 1) : p[j] = r[j]
    /\ Len(p) = d - 1 \/ p[d] < r[d]

LEMMA PrecedesOneWay ==
  ASSUME NEW p \in Seq(Nat), NEW r \in Seq(Nat), Precedes(p, r), Precedes(r, p)
  PROVE  FALSE
<1>0. Len(p) \in Nat /\ Len(r) \in Nat
  OBVIOUS
<1>1. PICK d \in 1..Len(r) : /\ Len(p) >= d - 1 /\ \A j \in 1..(d - 1) : p[j] = r[j]
                             /\ Len(p) = d - 1 \/ p[d] < r[d]
  BY DEF Precedes
<1>2. PICK e \in 1..Len(p) : /\ Len(r) >= e - 1 /\ \A j \in 1..(e - 1) : r[j] = p[j]
                             /\ Len(r) = e - 1 \/ r[e] < p[e]
  BY DEF Precedes
<1>3. CASE d = e
  <2>1. p[d] \in Nat /\ r[d] \in Nat
    BY <1>1, <1>2, <1>3
  <2> QED
    BY SMTT(30), <1>0, <1>1, <1>2, <1>3, <2>1
<1>4. CASE d < e
  <2>1. d \in 1..(e - 1) /\ d \in 1..Len(p)
    BY <1>0, <1>1, <1>2, <1>4
  <2>2. r[d] = p[d] /\ p[d] \in Nat
    BY <1>2, <2>1
  <2> QED
    BY <1>0, <1>1, <2>1, <2>2
<1>5. CASE e < d
  <2>1. e \in 1..(d - 1) /\ e \in 1..Len(r)
    BY <1>0, <1>1, <1>2, <1>5
  <2>2. p[e] = r[e] /\ r[e] \in Nat
    BY <1>1, <2>1
  <2> QED
    BY <1>0, <1>2, <2>1, <2>2
<1> QED
  BY <1>0, <1>3, <1>4, <1>5

\* What precedes a path with one more place: what precedes the path, the path
\* itself, and what goes on from it with a smaller place.
LEMMA PrecedesLonger ==
  ASSUME NEW p \in Seq(Nat), NEW r \in Seq(Nat), NEW b \in Nat
  PROVE  Precedes(p, Append(r, b)) <=>
           \/ Precedes(p, r)
           \/ p = r
           \/ Extends(p, r) /\ p[Len(r) + 1] < b
<1> DEFINE n == Len(r)
           t == Append(r, b)
<1>1. /\ n \in Nat /\ Len(p) \in Nat /\ t \in Seq(Nat) /\ Len(t) = n + 1
      /\ \A j \in 1..n : t[j] = r[j]
      /\ t[n + 1] = b
  OBVIOUS
<1> HIDE DEF t
<1>2. ASSUME Precedes(p, t)
      PROVE  Precedes(p, r) \/ p = r \/ (Extends(p, r) /\ p[n + 1] < b)
  <2>1. PICK d \in 1..(n + 1) : /\ Len(p) >= d - 1 /\ \A j \in 1..(d - 1) : p[j] = t[j]
                                /\ Len(p) = d - 1 \/ p[d] < t[d]
    BY <1>1, <1>2 DEF Precedes
  <2>2. CASE d # n + 1
    <3>1. d \in 1..n /\ t[d] = r[d] /\ \A j \in 1..(d - 1) : p[j] = r[j]
      BY <1>1, <2>1, <2>2
    <3> QED
      BY <2>1, <3>1 DEF Precedes
  <2>3. CASE d = n + 1
    <3>1. Len(p) >= n /\ \A j \in 1..n : p[j] = r[j]
      BY <1>1, <2>1, <2>3
    <3>2. CASE Len(p) = n
      <4>1. p = r
        BY <3>1, <3>2, SeqEqual
      <4> QED
        BY <4>1
    <3>3. CASE Len(p) # n
      BY <1>1, <2>1, <2>3, <3>1, <3>3 DEF Extends
    <3> QED
      BY <3>2, <3>3
  <2> QED
    BY <2>2, <2>3
<1>3. ASSUME Precedes(p, r)
      PROVE  Precedes(p, t)
  <2>1. PICK d \in 1..n : /\ Len(p) >= d - 1 /\ \A j \in 1..(d - 1) : p[j] = r[j]
                          /\ Len(p) = d - 1 \/ p[d] < r[d]
    BY <1>3 DEF Precedes
  <2>2. d \in 1..(n + 1) /\ t[d] = r[d] /\ \A j \in 1..(d - 1) : p[j] = t[j]
    BY <1>1, <2>1
  <2> QED
    BY <1>1, <2>1, <2>2 DEF Precedes
<1>4. ASSUME p = r \/ (Extends(p, r) /\ p[n + 1] < b)
      PROVE  Precedes(p, t)
  <2>1. n + 1 \in 1..Len(t) /\ n + 1 - 1 = n
    BY <1>1
  <2>2. Len(p) >= n /\ \A j \in 1..n : p[j] = t[j]
    BY <1>1, <1>4 DEF Extends
  <2>3. Len(p) = n \/ p[n + 1] < t[n + 1]
    BY <1>1, <1>4
  <2> QED
    BY SMTT(30), <2>1, <2>2, <2>3 DEF Precedes
<1> QED
  BY <1>2, <1>3, <1>4 DEF t

-----------------------------------------------------------------------------
(* The search *)

\* The selection of p is better than that of q, or as good and found first.
NoWorse(p, q) ==
  \/ Objective(Chosen(p)) < Objective(Chosen(q))
  \/ /\ Objective(Chosen(p)) = Objective(Chosen(q))
     /\ p = q \/ Precedes(p, q)

\* p is the best path, if any, before r; the first of several as good.
BestBefore(p, r) ==
  /\ p # << >> => Good(p) /\ Precedes(p, r)
  /\ \A q \in Seq(Nat) : Good(q) /\ Precedes(q, r) => p # << >> /\ NoWorse(p, q)

Top == branch[Len(branch)]

\* What the search is about to try.
PathReached == IF pc = "enter" THEN selected ELSE Append(selected, Top)

SearchInv ==
  pc \in {"enter", "branch"} =>
    /\ IsPath(selected) /\ Len(selected) <= MaxSplit
    /\ branch \in Seq(Nat) /\ Len(branch) = Len(selected) + 1
    /\ \A d \in 1..Len(selected) : branch[d] = selected[d] + 1
    /\ Top \in 1..(Len(candidates) + 1)
    /\ selected # << >> => selected[Len(selected)] < Top
    /\ pc = "enter" => Top = (IF selected = << >> THEN 1 ELSE selected[Len(selected)] + 1)
    /\ pc = "branch" /\ Top <= Len(candidates) => Len(selected) < MaxSplit
    /\ BestBefore(best, PathReached)

\* The request and its candidates decide about paths.
LEMMA SameProblem ==
  ASSUME UNCHANGED <<request, candidates>>
  PROVE  /\ CandidatesRight' <=> CandidatesRight
         /\ MaxSplit' = MaxSplit
         /\ \A S : SumOf(S)' = SumOf(S) /\ Objective(S)' = Objective(S)
         /\ \A p : /\ IsPath(p)' <=> IsPath(p)
                   /\ Chosen(p)' = Chosen(p)
                   /\ Good(p)' <=> Good(p)
         /\ \A p, r : /\ NoWorse(p, r)' <=> NoWorse(p, r)
                      /\ BestBefore(p, r)' <=> BestBefore(p, r)
<1>1. \A S : SumOf(S)' = SumOf(S)
  BY DEF SumOf, AmountOf
<1>2. \A S : Objective(S)' = Objective(S)
  BY <1>1 DEF Objective
<1>3. MaxSplit' = MaxSplit
  BY DEF MaxSplit
<1>4. \A p : Chosen(p)' = Chosen(p)
  BY DEF Chosen
<1>5. \A p : IsPath(p)' <=> IsPath(p)
  BY DEF IsPath
<1>6. \A p : Good(p)' <=> Good(p)
  BY <1>1, <1>3, <1>4, <1>5 DEF Good
<1>7. \A p, q : NoWorse(p, q)' <=> NoWorse(p, q)
  BY <1>2, <1>4 DEF NoWorse
<1>8. \A p, r : BestBefore(p, r)' <=> BestBefore(p, r)
  BY <1>6, <1>7 DEF BestBefore
<1>9. Eligible' = Eligible
  BY DEF Eligible, Invoices
<1>10. Dropped' = Dropped
  BY <1>9 DEF Dropped
<1>11. CandidatesRight' <=> CandidatesRight
  BY <1>9, <1>10 DEF CandidatesRight, SortsBefore, AmountOf
<1> QED
  BY <1>1, <1>2, <1>3, <1>4, <1>5, <1>6, <1>7, <1>8, <1>11

\* What is known before every step.
Solvable ==
  /\ request \in RequestRecord /\ CandidatesCap \in Nat \ {0} /\ PolicySplit \in Nat \ {0}
  /\ CandidatesRight

LEMMA SplitType ==
  ASSUME Solvable
  PROVE  MaxSplit \in Nat \ {0} /\ MaxSplit <= request.maxSplit
  BY DEF Solvable, RequestRecord, MaxSplit, Lesser

\* Numbers of a path.
LEMMA PathNumbers ==
  ASSUME Solvable, NEW p, IsPath(p)
  PROVE  /\ p \in Seq(Nat) /\ Len(p) \in Nat /\ DOMAIN p = 1..Len(p)
         /\ \A k \in 1..Len(p) : p[k] \in 1..Len(candidates)
         /\ Len(candidates) \in Nat /\ DOMAIN candidates = 1..Len(candidates)
<1>1. Len(candidates) \in Nat /\ DOMAIN candidates = 1..Len(candidates)
  BY CandidateTypes DEF Solvable
<1>2. p \in Seq(1..Len(candidates))
  BY <1>1 DEF IsPath
<1> QED
  BY <1>1, <1>2

\* The objective is a number.
LEMMA ObjectiveType ==
  ASSUME Solvable, NEW p, IsPath(p)
  PROVE  /\ Objective(Chosen(p)) \in Nat
         /\ Objective(Chosen(p)) = Gap(SumOf(Chosen(p)), request.payment) * 1000 + Len(p)
<1>1. SumOf(Chosen(p)) \in Nat /\ request.payment \in Nat
  BY SumGrows DEF Solvable, RequestRecord
<1>2. Gap(SumOf(Chosen(p)), request.payment) \in Nat
  BY <1>1 DEF Gap
<1>3. Cardinality(Chosen(p)) = Len(p) /\ Len(p) \in Nat
  BY ChosenType DEF Solvable
<1> QED
  BY <1>2, <1>3 DEF Objective

\* The first node.
LEMMA SearchStarts ==
  Solvable /\ pc = "enter" /\ selected = << >> /\ branch = << 1 >> /\ best = << >> => SearchInv
<1> SUFFICES ASSUME Solvable, pc = "enter", selected = << >>, branch = << 1 >>, best = << >>
             PROVE  SearchInv
  OBVIOUS
<1>1. IsPath(selected)
  BY RootPath DEF Solvable
<1>2. Len(candidates) \in Nat
  BY CandidateTypes DEF Solvable
<1>3. MaxSplit \in Nat
  BY SplitType
<1>4. branch \in Seq(Nat) /\ Len(branch) = 1 /\ Len(selected) = 0 /\ Top = 1
  BY DEF Top
<1>5. BestBefore(best, PathReached)
  BY <1>4 DEF BestBefore, PathReached, Precedes
<1> QED
  BY <1>1, <1>2, <1>3, <1>4, <1>5 DEF SearchInv

\* Entering a node: its selection is compared with the best one.
LEMMA EnterStep ==
  ASSUME Solvable, SearchInv, Enter
  PROVE  SearchInv'
<1> DEFINE n == Len(selected)
           t == Top'
<1>1. /\ pc = "enter" /\ pc' = "branch" /\ best' = (IF Improves THEN selected ELSE best)
      /\ selected' = selected
      /\ branch' = (IF IsLeaf THEN [branch EXCEPT ![Len(branch)] = Len(candidates) + 1] ELSE branch)
      /\ UNCHANGED <<request, candidates>>
  BY DEF Enter
<1>2. /\ IsPath(selected) /\ n <= MaxSplit
      /\ branch \in Seq(Nat) /\ Len(branch) = n + 1
      /\ \A d \in 1..n : branch[d] = selected[d] + 1
      /\ Top \in 1..(Len(candidates) + 1)
      /\ selected # << >> => selected[n] < Top
      /\ Top = (IF selected = << >> THEN 1 ELSE selected[n] + 1)
      /\ BestBefore(best, selected)
  BY <1>1 DEF SearchInv, PathReached
<1>3. /\ selected \in Seq(Nat) /\ n \in Nat /\ MaxSplit \in Nat
      /\ Len(candidates) \in Nat /\ DOMAIN candidates = 1..Len(candidates)
      /\ \A k \in 1..n : selected[k] \in 1..Len(candidates)
  BY <1>2, PathNumbers, SplitType
<1>4. /\ branch' \in Seq(Nat) /\ Len(branch') = n + 1
      /\ \A d \in 1..n : branch'[d] = selected[d] + 1
      /\ t = (IF IsLeaf THEN Len(candidates) + 1 ELSE Top)
  <2>1. n + 1 \in 1..Len(branch) /\ Len(candidates) + 1 \in Nat
    BY <1>2, <1>3
  <2>2. CASE IsLeaf
    <3>1. branch' = [branch EXCEPT ![n + 1] = Len(candidates) + 1]
      BY <1>1, <1>2, <2>2
    <3>2. branch' \in Seq(Nat) /\ Len(branch') = n + 1
      BY <1>2, <1>3, <2>1, <3>1
    <3>3. \A d \in 1..n : branch'[d] = selected[d] + 1
      BY <1>2, <1>3, <3>1
    <3>4. branch'[n + 1] = Len(candidates) + 1
      BY <1>2, <2>1, <3>1
    <3> QED
      BY <2>2, <3>2, <3>3, <3>4 DEF Top
  <2>3. CASE ~IsLeaf
    BY <1>1, <1>2, <2>3 DEF Top
  <2> QED
    BY <2>2, <2>3
<1>5. t \in 1..(Len(candidates) + 1) /\ (selected # << >> => selected[n] < t)
  <2>1. selected # << >> => n \in 1..n
    BY <1>3
  <2>2. CASE IsLeaf
    <3>1. t = Len(candidates) + 1
      BY <1>4, <2>2
    <3>2. selected # << >> => selected[n] <= Len(candidates)
      BY <1>3, <2>1
    <3> QED
      BY <1>3, <2>1, <3>1, <3>2
  <2>3. CASE ~IsLeaf
    <3>1. t = Top
      BY <1>4, <2>3
    <3>2. Top \in 1..(Len(candidates) + 1) /\ (selected # << >> => selected[n] < Top)
      BY <1>2, <1>3, <2>1
    <3> QED
      BY <3>1, <3>2
  <2> QED
    BY <2>2, <2>3
<1>6. t <= Len(candidates) => n < MaxSplit
  BY <1>3, <1>4 DEF IsLeaf
<1> HIDE DEF t
<1>7. ASSUME NEW q \in Seq(Nat), Good(q), Precedes(q, Append(selected, t))
      PROVE  Precedes(q, selected) \/ q = selected
  <2> SUFFICES ASSUME Extends(q, selected), q[n + 1] < t
               PROVE  FALSE
    BY <1>3, <1>5, <1>7, PrecedesLonger
  <2>1. ~IsLeaf
    BY <1>2, <1>3, <1>7, LeafEnds DEF Solvable, IsLeaf
  <2>2. q[n + 1] \in DOMAIN candidates /\ (selected # << >> => selected[n] < q[n + 1])
    BY <1>2, <1>7, ExtendedSum DEF Solvable, Good
  <2>3. selected # << >> => n \in 1..n
    BY <1>3
  <2>4. selected # << >> => selected[n] \in Nat
    BY <1>3, <2>3
  <2>5. t = Top /\ q[n + 1] \in Nat /\ q[n + 1] >= 1
    BY <1>3, <1>4, <2>1, <2>2
  <2>6. CASE selected = << >>
    BY <1>2, <2>5, <2>6
  <2>7. CASE selected # << >>
    BY <1>2, <2>2, <2>4, <2>5, <2>7
  <2> QED
    BY <2>6, <2>7
<1>8. Precedes(selected, Append(selected, t))
  BY <1>3, <1>5, PrecedesLonger
<1>9. Improves => Good(selected)
  BY <1>2 DEF Improves, Good
<1>10. best' # << >> => Good(best') /\ Precedes(best', Append(selected, t))
  <2>1. CASE Improves
    BY <1>1, <1>8, <1>9, <2>1
  <2>2. CASE ~Improves
    <3> SUFFICES ASSUME best # << >>
                 PROVE  Good(best) /\ Precedes(best, Append(selected, t))
      BY <1>1, <2>2
    <3>1. Good(best) /\ Precedes(best, selected)
      BY <1>2 DEF BestBefore
    <3>2. best \in Seq(Nat)
      BY <3>1, PathNumbers DEF Good
    <3> QED
      BY <1>3, <1>5, <3>1, <3>2, PrecedesLonger
  <2> QED
    BY <2>1, <2>2
<1>11. ASSUME NEW q \in Seq(Nat), Good(q), Precedes(q, selected)
       PROVE  best' # << >> /\ NoWorse(best', q)
  <2>1. best # << >> /\ NoWorse(best, q) /\ Good(best)
    BY <1>2, <1>11 DEF BestBefore
  <2>2. CASE ~Improves
    BY <1>1, <2>1, <2>2
  <2>3. CASE Improves
    <3>1. best' = selected /\ selected # << >>
      BY <1>1, <2>3 DEF Improves
    <3>2. Objective(Chosen(selected)) < Objective(Chosen(best))
      BY <2>1, <2>3 DEF Improves
    <3>3. /\ Objective(Chosen(selected)) \in Nat /\ Objective(Chosen(best)) \in Nat
          /\ Objective(Chosen(q)) \in Nat
      BY <1>2, <1>11, <2>1, ObjectiveType DEF Good
    <3>4. Objective(Chosen(selected)) < Objective(Chosen(q))
      BY <2>1, <3>2, <3>3 DEF NoWorse
    <3> QED
      BY <3>1, <3>4 DEF NoWorse
  <2> QED
    BY <2>2, <2>3
<1>12. ASSUME Good(selected)
       PROVE  best' # << >> /\ NoWorse(best', selected)
  <2>1. CASE Improves
    BY <1>1, <1>12, <2>1 DEF NoWorse, Good
  <2>2. CASE ~Improves
    <3>1. best # << >> /\ ~(Objective(Chosen(selected)) < Objective(Chosen(best)))
      BY <1>12, <2>2 DEF Improves, Good
    <3>2. Good(best) /\ Precedes(best, selected)
      BY <1>2, <3>1 DEF BestBefore
    <3>3. Objective(Chosen(selected)) \in Nat /\ Objective(Chosen(best)) \in Nat
      BY <1>2, <3>2, ObjectiveType DEF Good
    <3>4. NoWorse(best, selected)
      BY <3>1, <3>2, <3>3 DEF NoWorse
    <3> QED
      BY <1>1, <2>2, <3>1, <3>4
  <2> QED
    BY <2>1, <2>2
<1>13. BestBefore(best', Append(selected, t))
  BY <1>7, <1>10, <1>11, <1>12 DEF BestBefore
<1>14. PathReached' = Append(selected, t)
  BY <1>1 DEF PathReached, t
<1>15. BestBefore(best, PathReached)'
  BY <1>1, <1>13, <1>14, SameProblem
<1>16. IsPath(selected)' /\ MaxSplit' = MaxSplit
  BY <1>1, <1>2, SameProblem
<1> QED
  BY <1>1, <1>2, <1>4, <1>5, <1>6, <1>15, <1>16 DEF SearchInv, t

\* Going down: the next node is what the search was about to try.
LEMMA DescendStep ==
  ASSUME Solvable, SearchInv, Descend
  PROVE  SearchInv'
<1> DEFINE n == Len(selected)
           k == Top
<1>1. /\ pc = "branch" /\ pc' = "enter" /\ best' = best /\ selected' = Append(selected, k)
      /\ branch' = Append([branch EXCEPT ![Len(branch)] = k + 1], k + 1)
      /\ UNCHANGED <<request, candidates>> /\ k <= Len(candidates)
  BY DEF Descend, MayDescend, Top
<1>2. /\ IsPath(selected) /\ n < MaxSplit
      /\ branch \in Seq(Nat) /\ Len(branch) = n + 1
      /\ \A d \in 1..n : branch[d] = selected[d] + 1
      /\ k \in 1..(Len(candidates) + 1)
      /\ selected # << >> => selected[n] < k
      /\ BestBefore(best, Append(selected, k))
  BY <1>1 DEF SearchInv, PathReached
<1> HIDE DEF k
<1>3. /\ selected \in Seq(Nat) /\ n \in Nat /\ MaxSplit \in Nat
      /\ Len(candidates) \in Nat /\ DOMAIN candidates = 1..Len(candidates)
  BY <1>2, PathNumbers, SplitType
<1>4. k \in DOMAIN candidates /\ k \in Nat
  BY <1>1, <1>2, <1>3
<1>5. IsPath(selected') /\ Len(selected') = n + 1
  BY <1>1, <1>2, <1>4, LongerPath DEF Solvable
<1>6. PICK c \in Seq(Nat) : c = [branch EXCEPT ![n + 1] = k + 1]
  <2>1. n + 1 \in 1..Len(branch) /\ k + 1 \in Nat
    BY <1>2, <1>3, <1>4
  <2>2. [branch EXCEPT ![n + 1] = k + 1] \in Seq(Nat)
    BY <1>2, <2>1
  <2> QED
    BY <2>2
<1>7. /\ Len(c) = n + 1 /\ c[n + 1] = k + 1 /\ \A d \in 1..n : c[d] = branch[d]
  BY <1>2, <1>3, <1>6
<1>8. branch' = Append(c, k + 1)
  BY <1>1, <1>2, <1>6
<1>9. /\ branch' \in Seq(Nat) /\ Len(branch') = n + 2 /\ branch'[n + 2] = k + 1
      /\ \A d \in 1..(n + 1) : branch'[d] = c[d]
  BY <1>3, <1>4, <1>7, <1>8
<1>10. /\ \A d \in 1..n : selected'[d] = selected[d]
       /\ selected'[n + 1] = k
  BY <1>1, <1>3, <1>4
<1>11. \A d \in 1..(n + 1) : branch'[d] = selected'[d] + 1
  <2> TAKE d \in 1..(n + 1)
  <2>1. CASE d = n + 1
    BY <1>7, <1>9, <1>10, <2>1
  <2>2. CASE d # n + 1
    <3>1. d \in 1..n
      BY <1>3, <2>2
    <3> QED
      BY ZenonT(30), <1>2, <1>7, <1>9, <1>10, <3>1
  <2> QED
    BY <2>1, <2>2
<1>12. Top' = k + 1 /\ selected' # << >> /\ PathReached' = Append(selected, k)
  BY SMTT(30), <1>1, <1>5, <1>9 DEF Top, PathReached
<1>13. BestBefore(best, PathReached)' /\ IsPath(selected)' /\ MaxSplit' = MaxSplit
  BY <1>1, <1>2, <1>5, <1>12, SameProblem
<1>14. Len(selected') <= MaxSplit /\ Len(branch') = Len(selected') + 1
  BY <1>2, <1>3, <1>5, <1>9
<1>15. Top' \in 1..(Len(candidates) + 1) /\ Top' = selected'[Len(selected')] + 1
  BY <1>1, <1>3, <1>4, <1>5, <1>10, <1>12
<1>16. selected'[Len(selected')] < Top'
  BY <1>4, <1>5, <1>10, <1>12
<1> QED
  BY <1>1, <1>5, <1>9, <1>11, <1>12, <1>13, <1>14, <1>15, <1>16 DEF SearchInv

\* When the loop of a node ends, no path that goes on from it with the next place
\* or a later one is left to find.
LEMMA LoopEnds ==
  ASSUME Solvable, IsPath(selected), Top \in Nat, ~MayDescend,
         NEW q, Good(q), Extends(q, selected), Top >= 1
  PROVE  q[Len(selected) + 1] < Top
<1>1. /\ Len(candidates) \in Nat /\ DOMAIN candidates = 1..Len(candidates)
      /\ q[Len(selected) + 1] \in DOMAIN candidates
  BY CandidateTypes, ExtendedSum DEF Solvable, Good
<1>2. CASE Top > Len(candidates)
  BY <1>1, <1>2
<1>3. CASE Top <= Len(candidates)
  <2>1. Exceeds(selected, Top)
    BY <1>3 DEF MayDescend, Top
  <2>2. Top \in DOMAIN candidates
    BY <1>1, <1>3
  <2> QED
    BY <2>1, <2>2, TooLarge DEF Solvable
<1> QED
  BY <1>1, <1>2, <1>3

\* A sequence is its front and its last element.
LEMMA FrontOf ==
  ASSUME NEW S, NEW s \in Seq(S), NEW m \in Nat, Len(s) = m + 1
  PROVE  /\ Front(s) \in Seq(S) /\ Len(Front(s)) = m
         /\ \A i \in 1..m : Front(s)[i] = s[i]
         /\ s[m + 1] \in S /\ s = Append(Front(s), s[m + 1])
<1>1. Front(s) = SubSeq(s, 1, m)
  BY DEF Front
<1>2. Front(s) \in Seq(S) /\ Len(Front(s)) = m /\ \A i \in 1..m : Front(s)[i] = s[i]
  BY <1>1
<1>3. s[m + 1] \in S
  OBVIOUS
<1> DEFINE t == Append(Front(s), s[m + 1])
<1>4. /\ t \in Seq(S) /\ Len(t) = m + 1 /\ t[m + 1] = s[m + 1]
      /\ \A i \in 1..m : t[i] = s[i]
  BY <1>2, <1>3
<1> HIDE DEF t
<1>5. \A i \in 1..(m + 1) : t[i] = s[i]
  <2> TAKE i \in 1..(m + 1)
  <2>1. CASE i = m + 1
    BY <1>4, <2>1
  <2>2. CASE i # m + 1
    <3>1. i \in 1..m
      BY <2>2
    <3> QED
      BY <1>4, <3>1
  <2> QED
    BY <2>1, <2>2
<1>6. s = t
  BY <1>4, <1>5, SeqEqual
<1> QED
  BY <1>2, <1>3, <1>6 DEF t

\* Going up: the next place of the node above is what the search is about to try.
LEMMA BacktrackStep ==
  ASSUME Solvable, SearchInv, Backtrack
  PROVE  SearchInv'
<1>0. PICK m \in Nat : Len(selected) = m + 1
  <2>1. selected \in Seq(Nat) /\ selected # << >>
    BY PathNumbers DEF SearchInv, Backtrack
  <2>2. Len(selected) \in Nat /\ Len(selected) # 0
    BY <2>1
  <2>3. Len(selected) - 1 \in Nat /\ Len(selected) = (Len(selected) - 1) + 1
    BY <2>2
  <2> QED
    BY <2>3
<1> DEFINE n == m + 1
           p == Front(selected)
           k == selected[n]
<1>1. /\ pc = "branch" /\ pc' = "branch" /\ best' = best /\ ~MayDescend
      /\ selected # << >> /\ selected' = p /\ branch' = Front(branch)
      /\ UNCHANGED <<request, candidates>>
  BY DEF Backtrack
<1>2. /\ IsPath(selected) /\ n <= MaxSplit
      /\ branch \in Seq(Nat) /\ Len(branch) = n + 1
      /\ \A d \in 1..n : branch[d] = selected[d] + 1
      /\ Top \in 1..(Len(candidates) + 1)
      /\ selected[n] < Top
      /\ BestBefore(best, Append(selected, Top))
  BY <1>0, <1>1 DEF SearchInv, PathReached
<1>3. /\ selected \in Seq(Nat) /\ n = Len(selected) /\ MaxSplit \in Nat /\ DOMAIN selected = 1..n
      /\ Len(candidates) \in Nat /\ DOMAIN candidates = 1..Len(candidates)
      /\ \A i \in 1..n : selected[i] \in 1..Len(candidates)
  BY <1>0, <1>2, PathNumbers, SplitType
<1>4. n \in 1..n /\ n \in Nat /\ \A i \in 1..n : i = n \/ i \in 1..m
  OBVIOUS
<1>5. k \in 1..Len(candidates) /\ k \in Nat
  BY <1>3, <1>4
<1>6. /\ p \in Seq(DOMAIN candidates) /\ p \in Seq(Nat) /\ Len(p) = m
      /\ \A i \in 1..m : p[i] = selected[i]
  <2>1. selected \in Seq(DOMAIN candidates)
    BY <1>2 DEF IsPath
  <2>2. p \in Seq(DOMAIN candidates)
    BY <1>0, <2>1, FrontOf
  <2> QED
    BY <1>0, <1>3, <2>2, FrontOf
<1>7. selected = Append(p, k)
  BY SMTT(30), <1>0, <1>3, FrontOf
<1>8. /\ branch' \in Seq(Nat) /\ Len(branch') = n
      /\ \A d \in 1..n : branch'[d] = selected[d] + 1
  BY <1>1, <1>2, <1>4, FrontOf
<1>9. Top' = k + 1
  BY <1>4, <1>8 DEF Top
<1> HIDE DEF p, k
<1>10. IsPath(p)
  <2>1. DOMAIN p = 1..m
    BY <1>4, <1>6
  <2>2. \A i, j \in 1..m : i < j => p[i] < p[j]
    <3> SUFFICES ASSUME NEW i \in 1..m, NEW j \in 1..m, i < j
                 PROVE  p[i] < p[j]
      OBVIOUS
    <3>1. i \in DOMAIN selected /\ j \in DOMAIN selected
      BY <1>3, <1>4
    <3>2. selected[i] < selected[j]
      BY <1>2, <3>1 DEF IsPath
    <3> QED
      BY <1>6, <3>2
  <2> QED
    BY <1>6, <2>1, <2>2 DEF IsPath
<1>11. p # << >> => p[Len(p)] < k + 1
  <2> SUFFICES ASSUME p # << >> PROVE p[m] < k + 1
    BY <1>6
  <2>1. m \in 1..m
    BY <1>4, <1>6
  <2>2. m \in DOMAIN selected /\ n \in DOMAIN selected /\ m < n
    BY <1>3, <1>4, <2>1
  <2>3. selected[m] < selected[n]
    BY <1>2, <2>2 DEF IsPath
  <2>4. selected[m] \in Nat /\ selected[m] = p[m]
    BY <1>3, <1>6, <2>1, <2>2
  <2> QED
    BY <1>5, <2>3, <2>4 DEF k
<1>12. ASSUME NEW q \in Seq(Nat), Good(q), Precedes(q, Append(p, k + 1))
       PROVE  Precedes(q, Append(selected, Top))
  <2>1. CASE Precedes(q, p) \/ q = p
    <3>1. Precedes(q, selected)
      BY <1>5, <1>6, <1>7, <2>1, PrecedesLonger
    <3> QED
      BY <1>2, <1>3, <3>1, PrecedesLonger
  <2>2. CASE Extends(q, p) /\ q[Len(p) + 1] < k + 1
    <3>1. q[n] \in Nat /\ Len(q) \in Nat /\ Len(q) >= n /\ Len(p) + 1 = n
      <4>1. Len(q) \in Nat /\ Len(q) >= n
        BY <1>4, <1>6, <2>2 DEF Extends
      <4>2. n \in 1..Len(q)
        BY <1>4, <4>1
      <4> QED
        BY <1>6, <4>1, <4>2
    <3>2. CASE q[n] < k
      <4>1. Precedes(q, selected)
        BY <1>5, <1>6, <1>7, <2>2, <3>1, <3>2, PrecedesLonger
      <4> QED
        BY <1>2, <1>3, <4>1, PrecedesLonger
    <3>3. CASE q[n] = k
      <4>1. \A i \in 1..n : q[i] = selected[i]
        <5> TAKE i \in 1..n
        <5>1. CASE i = n
          BY <3>3, <5>1 DEF k
        <5>2. CASE i \in 1..m
          BY <1>6, <2>2, <5>2 DEF Extends
        <5> QED
          BY <1>4, <5>1, <5>2
      <4>2. CASE Len(q) = n
        <5>1. q = selected
          BY <1>3, <4>1, <4>2, SeqEqual
        <5> QED
          BY <1>2, <1>3, <5>1, PrecedesLonger
      <4>3. CASE Len(q) # n
        <5>1. Extends(q, selected)
          BY <1>3, <3>1, <4>1, <4>3 DEF Extends
        <5>2. Top \in Nat
          BY <1>2
        <5>3. q[n + 1] < Top
          BY SMTT(30), <1>1, <1>2, <1>3, <1>12, <5>1, <5>2, LoopEnds
        <5> QED
          BY <1>3, <5>1, <5>2, <5>3, PrecedesLonger
      <4> QED
        BY <4>2, <4>3
    <3> QED
      BY <1>5, <1>6, <2>2, <3>1, <3>2, <3>3
  <2> QED
    BY <1>5, <1>6, <1>12, <2>1, <2>2, PrecedesLonger
<1>13. ASSUME best # << >>
       PROVE  Good(best) /\ Precedes(best, Append(p, k + 1))
  <2>1. Good(best) /\ Precedes(best, Append(selected, Top))
    BY <1>2, <1>13 DEF BestBefore
  <2>2. best \in Seq(Nat) /\ Top \in Nat
    BY <1>2, <2>1, PathNumbers DEF Good
  <2>3. CASE Precedes(best, selected)
    <3>1. \/ Precedes(best, p) \/ best = p
          \/ Extends(best, p) /\ best[Len(p) + 1] < k
      BY <1>5, <1>6, <1>7, <2>2, <2>3, PrecedesLonger
    <3>2. Extends(best, p) => best[Len(p) + 1] \in Nat
      <4> SUFFICES ASSUME Extends(best, p) PROVE best[n] \in Nat
        BY <1>3, <1>6
      <4>1. n \in 1..Len(best)
        BY <1>4, <1>6, <2>2 DEF Extends
      <4> QED
        BY <2>2, <4>1
    <3>3. \/ Precedes(best, p) \/ best = p
          \/ Extends(best, p) /\ best[Len(p) + 1] < k + 1
      BY <1>5, <3>1, <3>2
    <3> QED
      BY <1>5, <1>6, <2>1, <2>2, <3>3, PrecedesLonger
  <2>4. CASE best = selected \/ Extends(best, selected)
    <3>1. /\ Len(best) >= n /\ \A i \in 1..n : best[i] = selected[i]
      BY <1>3, <2>2, <2>4 DEF Extends
    <3>2. Extends(best, p) /\ best[n] = k
      BY SMTT(30), <1>3, <1>4, <1>6, <2>2, <3>1 DEF Extends, k
    <3>3. best[Len(p) + 1] < k + 1
      BY <1>3, <1>5, <1>6, <3>2
    <3> QED
      BY <1>5, <1>6, <2>1, <2>2, <3>2, <3>3, PrecedesLonger
  <2> QED
    BY <1>3, <2>1, <2>2, <2>3, <2>4, PrecedesLonger
<1>14. BestBefore(best, Append(p, k + 1))
  BY <1>2, <1>12, <1>13 DEF BestBefore
<1>15. PathReached' = Append(p, k + 1)
  BY <1>1, <1>9 DEF PathReached
<1>16. BestBefore(best, PathReached)' /\ IsPath(selected)' /\ MaxSplit' = MaxSplit
  BY <1>1, <1>10, <1>14, <1>15, SameProblem
<1>17. /\ Len(selected') < MaxSplit /\ Len(branch') = Len(selected') + 1
       /\ \A d \in 1..Len(selected') : branch'[d] = selected'[d] + 1
  BY <1>1, <1>2, <1>3, <1>4, <1>6, <1>8
<1>18. Top' \in 1..(Len(candidates) + 1) /\ (selected' # << >> => selected'[Len(selected')] < Top')
  BY <1>1, <1>3, <1>5, <1>9, <1>11
<1>19. Len(selected') <= MaxSplit' /\ Len(candidates') = Len(candidates) /\ pc' # "enter"
  BY <1>1, <1>3, <1>6, <1>16, <1>17
<1>20. pc' = "branch" /\ Top' <= Len(candidates') => Len(selected') < MaxSplit'
  BY <1>16, <1>17
<1>21. branch' \in Seq(Nat)
  BY <1>8
<1> QED
  BY <1>16, <1>17, <1>18, <1>19, <1>20, <1>21 DEF SearchInv

-----------------------------------------------------------------------------
(* The answers *)

\* A non-empty set of numbers has its least one.
LEMMA LeastOf ==
  ASSUME NEW S \in SUBSET Nat, S # {}
  PROVE  Min(S) \in S
<1>1. PICK b \in S : \A m \in S : ~(<<m, b>> \in OpToRel(<, Nat))
  BY NatLessThanWellFounded, WFMin
<1>2. ASSUME NEW m \in S
      PROVE  b <= m
  <2>1. ~(m < b)
    BY <1>1 DEF OpToRel
  <2> QED
    BY <2>1
<1> QED
  BY <1>2 DEF Min

\* The amount of one invoice.
LEMMA SumOfOne ==
  ASSUME request \in RequestRecord, NEW i \in Invoices
  PROVE  SumOf({i}) = AmountOf(i) /\ SumOf({i}) \in Nat /\ Cardinality({i}) = 1
<1>1. SumOf({}) = 0 /\ AmountOf(i) \in Nat
  BY SumEmpty, RequestType
<1>2. SumOf({} \cup {i}) = SumOf({}) + AmountOf(i)
  BY SumAdds
<1>3. {} \cup {i} = {i}
  OBVIOUS
<1>4. SumOf({i}) = AmountOf(i)
  BY <1>1, <1>2, <1>3
<1> QED
  BY <1>1, <1>4, FS_Singleton

\* What the search comes to: the first of the best paths, if there is any.
FinalBest(b) ==
  /\ b # << >> => Good(b)
  /\ \A q \in Seq(Nat) : Good(q) => b # << >> /\ NoWorse(b, q)

LEMMA FinishFinds ==
  ASSUME Solvable, SearchInv, Finish
  PROVE  FinalBest(best)
<1>1. pc = "branch" /\ ~MayDescend /\ selected = << >>
  BY DEF Finish
<1>2. IsPath(selected) /\ Top \in 1..(Len(candidates) + 1) /\ BestBefore(best, Append(selected, Top))
  BY <1>1 DEF SearchInv, PathReached
<1>3. Len(candidates) \in Nat
  BY CandidateTypes DEF Solvable
<1>4. Top \in Nat /\ Top >= 1
  BY <1>2, <1>3
<1>5. best # << >> => Good(best)
  BY <1>2 DEF BestBefore
<1>6. ASSUME NEW q \in Seq(Nat), Good(q)
      PROVE  Precedes(q, Append(selected, Top))
  <2>1. selected \in Seq(Nat) /\ Len(selected) = 0
    BY <1>1
  <2>2. Extends(q, selected)
    BY <1>6, <2>1 DEF Extends, Good
  <2>3. q[Len(selected) + 1] < Top
    BY <1>1, <1>2, <1>4, <1>6, <2>2, LoopEnds
  <2> QED
    BY <1>4, <2>1, <2>2, <2>3, PrecedesLonger
<1> QED
  BY <1>2, <1>5, <1>6 DEF FinalBest, BestBefore

LEMMA FinalUnique ==
  ASSUME Solvable, NEW b, NEW c, FinalBest(b), FinalBest(c)
  PROVE  b = c
<1>1. ASSUME NEW d, NEW e, FinalBest(d), FinalBest(e), e # << >>
      PROVE  Good(e) /\ e \in Seq(Nat) /\ d # << >> /\ NoWorse(d, e)
  <2>1. Good(e) /\ IsPath(e)
    BY <1>1 DEF FinalBest, Good
  <2>2. e \in Seq(Nat)
    BY <2>1, PathNumbers
  <2> QED
    BY <1>1, <2>1, <2>2 DEF FinalBest
<1>2. b = << >> <=> c = << >>
  BY <1>1
<1>3. CASE b # << >>
  <2>1. /\ Good(b) /\ Good(c) /\ b \in Seq(Nat) /\ c \in Seq(Nat)
        /\ NoWorse(b, c) /\ NoWorse(c, b)
    BY <1>1, <1>2, <1>3
  <2>2. Objective(Chosen(b)) \in Nat /\ Objective(Chosen(c)) \in Nat
    BY <2>1, ObjectiveType DEF Good
  <2>3. b = c \/ (Precedes(b, c) /\ Precedes(c, b))
    BY <2>1, <2>2 DEF NoWorse
  <2> QED
    BY <2>1, <2>3, PrecedesOneWay
<1> QED
  BY <1>2, <1>3

\* Unless candidates were dropped, every selection a request admits has a path.
LEMMA Covers ==
  ASSUME Solvable, ~Dropped, NEW S \in Feasible
  PROVE  \E p \in Seq(Nat) : Good(p) /\ Chosen(p) = S
<1> DEFINE K == {k \in DOMAIN candidates : candidates[k] \in S}
           R == {x \in K \X K : x[1] < x[2]}
           n == Cardinality(K)
<1>1. Len(candidates) \in Nat /\ DOMAIN candidates = 1..Len(candidates)
  BY CandidateTypes DEF Solvable
<1>2. IsFiniteSet(K) /\ n \in Nat
  <2>1. K \subseteq 1..Len(candidates)
    BY <1>1
  <2>2. IsFiniteSet(1..Len(candidates))
    BY <1>1, FS_Interval
  <2> QED
    BY <2>1, <2>2, FS_Subset, FS_CardinalityType
<1>3. \A a \in K : a \in Nat /\ a \in DOMAIN candidates
  BY <1>1
<1>4. \A a, b \in K : <<a, b>> \in R <=> a < b
  OBVIOUS
<1>5. S \subseteq Eligible /\ Cardinality(S) \in 1..MaxSplit
      /\ Gap(SumOf(S), request.payment) <= request.tolerance
  BY DEF Feasible
<1>6. \A i \in S : \E k \in K : candidates[k] = i
  BY <1>5 DEF Solvable, CandidatesRight
<1>7. \A k \in K : candidates[k] \in S
  OBVIOUS
<1> HIDE DEF K, R
<1>8. Orders(R, K)
  BY <1>3, <1>4 DEF Orders
<1>9. PICK p \in [1..n -> K] : \A j, k \in 1..n : j < k => <<p[j], p[k]>> \in R
  BY <1>2, <1>8, OrderedListing
<1>10. \A j, k \in 1..n : j < k => p[j] < p[k]
  BY <1>4, <1>9
<1>11. \A k \in K : \E j \in 1..n : p[j] = k
  <2>1. \A j, k \in 1..n : j < k => p[j] # p[k]
    BY <1>3, <1>9, <1>10
  <2> QED
    BY <1>2, <1>9, <2>1, ListsAll
<1>12. IsPath(p) /\ DOMAIN p = 1..n /\ Len(p) = n
  <2>1. p \in [1..n -> DOMAIN candidates]
    BY <1>3, <1>9
  <2>2. p \in Seq(DOMAIN candidates) /\ DOMAIN p = 1..n /\ Len(p) = n
    BY <1>2, <2>1
  <2> QED
    BY <1>10, <2>2 DEF IsPath
<1>13. Chosen(p) = S
  <2>1. \A x \in Chosen(p) : x \in S
    BY <1>7, <1>9, <1>12 DEF Chosen
  <2>2. ASSUME NEW i \in S PROVE i \in Chosen(p)
    <3>1. PICK k \in K : candidates[k] = i
      BY <1>6
    <3>2. PICK j \in 1..n : p[j] = k
      BY <1>11
    <3> QED
      BY <1>12, <3>1, <3>2 DEF Chosen
  <2> QED
    BY <2>1, <2>2
<1>14. Len(p) = Cardinality(S)
  BY <1>12, <1>13, ChosenType DEF Solvable
<1>15. p # << >> /\ Len(p) <= MaxSplit
  BY <1>5, <1>14, SplitType
<1>16. p \in Seq(Nat)
  BY <1>12, PathNumbers
<1> QED
  BY <1>5, <1>12, <1>13, <1>15, <1>16 DEF Good

\* An invoice of the very amount of the payment.
Exact == {k \in DOMAIN candidates : AmountOf(candidates[k]) = request.payment}

\* An answer of a solve that was not cut short.
Complete(a) ==
  CASE IsBlocked -> a = Refusal("BLOCKED", "MODEL_INVALID")
    [] ~IsBlocked /\ Exact # {} -> a = Match("EXACT_MATCH", "OPTIMAL", {candidates[Min(Exact)]})
    [] OTHER -> \E b : FinalBest(b) /\ a = Found(b)

\* Two such answers to a request are the same.
LEMMA CompleteUnique ==
  ASSUME Solvable, NEW a, NEW c, Complete(a), Complete(c)
  PROVE  a = c
  BY FinalUnique DEF Complete

\* What is said of an answer on its own.
AnswerRight(a) ==
  /\ Verified(a)
  /\ a.solver = "OPTIMAL" => \A S \in Feasible : a.objective <= Objective(S)
  /\ (a.solver = "INFEASIBLE" /\ ~Dropped) => Feasible = {}

\* An invoice that the search may choose.
LEMMA Choosable ==
  ASSUME Solvable, ~IsBlocked, NEW i \in Eligible
  PROVE  /\ i \in Invoices /\ request.invoices[i].tenant = request.tenant
         /\ AmountOf(i) \in Nat /\ SumOf({i}) = AmountOf(i) /\ Cardinality({i}) = 1
<1>1. i \in Invoices
  BY DEF Eligible
<1>2. request.invoices[i].tenant = request.tenant
  BY <1>1 DEF IsBlocked
<1> QED
  BY <1>1, <1>2, RequestType, SumOfOne DEF Solvable

\* The answer of one invoice of the very amount.
LEMMA ExactRight ==
  ASSUME Solvable, ~IsBlocked, Exact # {}
  PROVE  AnswerRight(Match("EXACT_MATCH", "OPTIMAL", {candidates[Min(Exact)]}))
<1> DEFINE k == Min(Exact)
           i == candidates[k]
           a == Match("EXACT_MATCH", "OPTIMAL", {i})
<1>1. k \in Exact
  <2>1. Exact \subseteq Nat
    BY CandidateTypes DEF Solvable, Exact
  <2> QED
    BY <2>1, LeastOf
<1>2. i \in Eligible /\ AmountOf(i) = request.payment
  BY <1>1, CandidateTypes DEF Solvable, Exact
<1> HIDE DEF k, i
<1>3. /\ request.invoices[i].tenant = request.tenant
      /\ SumOf({i}) = request.payment /\ Cardinality({i}) = 1
  BY <1>2, Choosable
<1>4. /\ request.payment \in Nat /\ request.tolerance \in Nat
      /\ request.maxSplit \in Nat /\ request.maxSplit >= 1
  BY DEF Solvable, RequestRecord
<1>5. Gap(SumOf({i}), request.payment) = 0
  BY <1>3, <1>4 DEF Gap
<1>6. Objective({i}) = 1
  BY <1>3, <1>5 DEF Objective
<1>7. /\ a.status = "EXACT_MATCH" /\ a.solver = "OPTIMAL" /\ a.selected = {i}
      /\ a.total = SumOf({i}) /\ a.difference = Gap(SumOf({i}), request.payment)
      /\ a.objective = Objective({i})
  BY DEF Match, Response
<1> HIDE DEF a
<1>8. Verified(a)
  BY <1>2, <1>3, <1>4, <1>5, <1>7 DEF Verified, IsRefusal
<1>9. ASSUME NEW S \in Feasible
      PROVE  1 <= Objective(S)
  <2>1. Cardinality(S) \in 1..MaxSplit /\ MaxSplit \in Nat
    BY SplitType DEF Feasible
  <2>2. SumOf(S) \in Nat
    BY SumGrows DEF Solvable
  <2>3. Gap(SumOf(S), request.payment) \in Nat
    BY <1>4, <2>2 DEF Gap
  <2> QED
    BY <2>1, <2>3 DEF Objective
<1> QED
  BY <1>6, <1>7, <1>8, <1>9 DEF AnswerRight, a, i, k

\* The best selection, an overpaid invoice, or none at all.
LEMMA FoundRight ==
  ASSUME Solvable, ~IsBlocked, NEW b, FinalBest(b)
  PROVE  AnswerRight(Found(b))
<1> DEFINE larger == {k \in DOMAIN candidates : AmountOf(candidates[k]) > request.payment}
           a == Found(b)
<1>1. request.payment \in Nat /\ request.tolerance \in Nat
  BY DEF Solvable, RequestRecord
<1>2. CASE b # << >>
  <2> DEFINE S == Chosen(b)
  <2>1. Good(b) /\ IsPath(b) /\ Len(b) \in Nat /\ Len(b) # 0 /\ Len(b) <= MaxSplit
        /\ Gap(SumOf(S), request.payment) <= request.tolerance
    BY <1>2, PathNumbers DEF FinalBest, Good
  <2>2. S \subseteq Eligible /\ Cardinality(S) = Len(b)
    BY <2>1, ChosenType DEF Solvable
  <2>3. S # {}
    BY <2>1, <2>2, FS_EmptySet
  <2>4. \A i \in S : request.invoices[i].tenant = request.tenant
    BY <2>2, Choosable
  <2>5. /\ a.status \in {"SPLIT_MATCH_WITH_TOLERANCE", "SPLIT_MATCH", "EXACT_MATCH"}
        /\ a.solver = (IF Dropped THEN "FEASIBLE" ELSE "OPTIMAL")
        /\ a.selected = S /\ a.total = SumOf(S)
        /\ a.difference = Gap(SumOf(S), request.payment) /\ a.objective = Objective(S)
    BY <1>2 DEF Found, Match, Response
  <2> HIDE DEF a, S
  <2>6. Cardinality(S) <= request.maxSplit
    BY <2>1, <2>2, SplitType DEF Solvable, RequestRecord
  <2>7. ~IsRefusal(a) /\ a.status # "PARTIAL_PAYMENT" /\ a.solver \in {"OPTIMAL", "FEASIBLE"}
    BY <2>5 DEF IsRefusal
  <2>8. Verified(a)
    BY <2>1, <2>2, <2>3, <2>4, <2>5, <2>6, <2>7 DEF Verified
  <2>9. ASSUME ~Dropped, NEW T \in Feasible
        PROVE  Objective(S) <= Objective(T)
    <3>1. PICK q \in Seq(Nat) : Good(q) /\ Chosen(q) = T
      BY <2>9, Covers
    <3>2. NoWorse(b, q)
      BY <3>1 DEF FinalBest
    <3>3. Objective(S) \in Nat /\ Objective(T) \in Nat
      BY <2>1, <3>1, ObjectiveType DEF Good, S
    <3> QED
      BY <3>1, <3>2, <3>3 DEF NoWorse, S
  <2>10. a.solver = "OPTIMAL" => \A T \in Feasible : a.objective <= Objective(T)
    BY <2>5, <2>9
  <2>11. a.solver # "INFEASIBLE"
    BY <2>7
  <2> QED
    BY <2>8, <2>10, <2>11 DEF AnswerRight, a
<1>3. CASE b = << >> /\ request.partial /\ larger # {}
  <2> DEFINE k == Min(larger)
             i == candidates[k]
  <2>1. k \in larger
    <3>1. larger \subseteq Nat
      BY CandidateTypes DEF Solvable
    <3> QED
      BY <1>3, <3>1, LeastOf
  <2>2. i \in Eligible /\ AmountOf(i) > request.payment
    BY <2>1, CandidateTypes DEF Solvable
  <2>3. a = Response("PARTIAL_PAYMENT", "FEASIBLE", {i}, AmountOf(i),
                     AmountOf(i) - request.payment, AmountOf(i) - request.payment)
    BY <1>3 DEF Found
  <2> HIDE DEF k, i
  <2>4. /\ request.invoices[i].tenant = request.tenant
        /\ AmountOf(i) \in Nat /\ SumOf({i}) = AmountOf(i) /\ Cardinality({i}) = 1
    BY <2>2, Choosable
  <2>5. Gap(SumOf({i}), request.payment) = AmountOf(i) - request.payment
    BY <1>1, <2>2, <2>4 DEF Gap
  <2>6. /\ a.status = "PARTIAL_PAYMENT" /\ a.solver = "FEASIBLE"
        /\ a.selected = {i} /\ a.total = SumOf({i})
        /\ a.difference = Gap(SumOf({i}), request.payment) /\ a.objective = a.difference
    BY <2>3, <2>4, <2>5 DEF Response
  <2> HIDE DEF a
  <2>7. Verified(a)
    BY <2>2, <2>4, <2>6 DEF Verified, IsRefusal
  <2> QED
    BY <2>6, <2>7 DEF AnswerRight, a
<1>4. CASE b = << >> /\ ~(request.partial /\ larger # {})
  <2>1. a = Refusal("NO_FEASIBLE_MATCH", "INFEASIBLE")
    BY <1>4 DEF Found
  <2>2. a.status = "NO_FEASIBLE_MATCH" /\ a.solver = "INFEASIBLE" /\ a.selected = {}
    BY <2>1 DEF Refusal, Response
  <2> HIDE DEF a
  <2>3. Verified(a)
    BY <2>2 DEF Verified, IsRefusal
  <2>4. ASSUME ~Dropped
        PROVE  Feasible = {}
    <3> SUFFICES ASSUME NEW S \in Feasible PROVE FALSE
      OBVIOUS
    <3>1. PICK q \in Seq(Nat) : Good(q)
      BY <2>4, Covers
    <3> QED
      BY <1>4, <3>1 DEF FinalBest
  <2> QED
    BY <2>2, <2>3, <2>4 DEF AnswerRight, a
<1> QED
  BY <1>2, <1>3, <1>4

LEMMA CompleteRight ==
  ASSUME Solvable, NEW a, Complete(a)
  PROVE  AnswerRight(a)
<1>1. CASE IsBlocked
  <2>1. a = Refusal("BLOCKED", "MODEL_INVALID")
    BY <1>1 DEF Complete
  <2>2. a.status = "BLOCKED" /\ a.solver = "MODEL_INVALID" /\ a.selected = {}
    BY <2>1 DEF Refusal, Response
  <2> QED
    BY <2>2 DEF AnswerRight, Verified, IsRefusal
<1>2. CASE ~IsBlocked /\ Exact # {}
  BY <1>2, ExactRight DEF Complete
<1>3. CASE ~IsBlocked /\ Exact = {}
  BY <1>3, FoundRight DEF Complete
<1> QED
  BY <1>1, <1>2, <1>3

-----------------------------------------------------------------------------
(* The solver *)

TimedOut == Refusal("SOLVER_TIMEOUT", "TIMEOUT")

\* Every answer is that of a solve run to its end, or of one that met its deadline.
Proper(a) == a = TimedOut \/ Complete(a)

LEMMA ProperRight ==
  ASSUME Solvable, NEW a, Proper(a)
  PROVE  AnswerRight(a) /\ (a.status = "SOLVER_TIMEOUT" \/ Complete(a))
<1>1. CASE a = TimedOut
  <2>1. a.status = "SOLVER_TIMEOUT" /\ a.solver = "TIMEOUT" /\ a.selected = {}
    BY <1>1 DEF TimedOut, Refusal, Response
  <2> QED
    BY <2>1 DEF AnswerRight, Verified, IsRefusal
<1> QED
  BY <1>1, CompleteRight DEF Proper

\* Nothing about answers but the request and the candidates.
LEMMA SameAnswers ==
  ASSUME UNCHANGED <<request, candidates>>
  PROVE  \A a : Proper(a)' <=> Proper(a)
<1>1. /\ Eligible' = Eligible /\ IsBlocked' = IsBlocked /\ Dropped' = Dropped /\ Exact' = Exact
  BY DEF Eligible, Invoices, IsBlocked, Dropped, Exact, AmountOf
<1>2. \A S : SumOf(S)' = SumOf(S) /\ Objective(S)' = Objective(S)
  BY SameProblem
<1>3. \A st, so, S : Match(st, so, S)' = Match(st, so, S) /\ Refusal(st, so)' = Refusal(st, so)
  BY <1>2 DEF Match, Refusal, Response
<1>4. \A b : Found(b)' = Found(b)
  BY SMTT(30), <1>1, <1>2, <1>3, SameProblem DEF Found, AmountOf
<1>5. \A b : FinalBest(b)' <=> FinalBest(b)
  BY SameProblem DEF FinalBest
<1>6. \A a : Complete(a)' <=> Complete(a)
  BY <1>1, <1>3, <1>4, <1>5 DEF Complete
<1> QED
  BY <1>3, <1>6 DEF Proper, TimedOut

\* What is known of the answers so far.
AnswersInv ==
  /\ stored # NoAnswer => Proper(stored)
  /\ answer # NoAnswer => stored # NoAnswer /\ Proper(answer)
  /\ replay \in {"none", "same", "diverged"} /\ (stored = NoAnswer => replay = "none")
  /\ replay = "diverged" => "SOLVER_TIMEOUT" \in {answer.status, stored.status}

\* Between its steps the solver has the candidates of the request, and searches only
\* when no check and no single invoice decides.
SolverInv ==
  /\ request \in RequestRecord
  /\ candidates = Truncated(Sorted(Eligible)) \/ (pc = "solve" /\ stored = NoAnswer)
  /\ \/ pc \in {"enter", "branch"} /\ ~IsBlocked /\ Exact = {}
     \/ pc \in {"solve", "replay", "done"} /\ selected = << >> /\ branch = << >>
  /\ SearchInv
  /\ AnswersInv

\* The sorted candidates of the same request are the same.
LEMMA SameCandidates ==
  ASSUME UNCHANGED request
  PROVE  /\ Eligible' = Eligible /\ IsBlocked' = IsBlocked
         /\ \A j : AmountOf(j)' = AmountOf(j)
         /\ (Truncated(Sorted(Eligible)))' = Truncated(Sorted(Eligible))
<1>1. Eligible' = Eligible
  BY DEF Eligible, Invoices
<1>2. IsBlocked' = IsBlocked
  BY DEF IsBlocked, Invoices
<1>3. \A j : AmountOf(j)' = AmountOf(j)
  BY DEF AmountOf
<1>4. \A a, b : SortsBefore(a, b)' <=> SortsBefore(a, b)
  BY <1>3 DEF SortsBefore
<1>5. Sorted(Eligible)' = Sorted(Eligible)
  BY <1>1, <1>4 DEF Sorted
<1> QED
  BY <1>1, <1>2, <1>3, <1>5 DEF Truncated

LEMMA Known ==
  ASSUME SolverInv, ~(pc = "solve" /\ stored = NoAnswer)
  PROVE  Solvable
  BY SolverAssumption, Candidates DEF SolverInv, Solvable

\* An answer is stored, or compared with the stored one.
LEMMA EndsRight ==
  ASSUME AnswersInv, NEW a, Ends(a), Proper(a)',
         stored # NoAnswer => Solvable /\ UNCHANGED <<request, candidates>>
  PROVE  AnswersInv' /\ pc' \in {"replay", "done"} /\ selected' = << >> /\ branch' = << >>
<1>1. answer' = a /\ selected' = << >> /\ branch' = << >>
  BY DEF Ends
<1>2. CASE stored = NoAnswer
  <2>1. pc' = "replay" /\ stored' = a /\ replay' = "none"
    BY <1>2 DEF Ends, AnswersInv
  <2> QED
    BY <1>1, <2>1 DEF AnswersInv
<1>3. CASE stored # NoAnswer
  <2>1. /\ pc' = "done" /\ stored' = stored
        /\ replay' = (IF Verified(a) /\ Agrees(a, stored) THEN "same" ELSE "diverged")
    BY <1>3 DEF Ends
  <2>2. Proper(a) /\ Proper(stored) /\ Proper(stored)'
    BY <1>3, <2>1, SameAnswers DEF AnswersInv
  <2>3. Verified(a)
    BY <1>3, <2>2, ProperRight DEF AnswerRight
  <2>4. a.status = "SOLVER_TIMEOUT" \/ stored.status = "SOLVER_TIMEOUT" \/ a = stored
    BY <1>3, <2>2, ProperRight, CompleteUnique
  <2>5. replay' = "diverged" => "SOLVER_TIMEOUT" \in {a.status, stored.status}
    BY <2>1, <2>3, <2>4 DEF Agrees
  <2> QED
    BY <1>1, <1>3, <2>1, <2>2, <2>5 DEF AnswersInv
<1> QED
  BY <1>2, <1>3

LEMMA AnswersKept ==
  ASSUME AnswersInv, UNCHANGED <<request, candidates, answer, stored, replay>>
  PROVE  AnswersInv'
  BY SameAnswers DEF AnswersInv

\* The solver starts with nothing found.
LEMMA SolverStarts ==
  ASSUME SolverInit
  PROVE  SolverInv
<1>1. request \in RequestRecord
  BY SolverAssumption DEF SolverInit
<1>2. SearchInv /\ AnswersInv
  BY DEF SolverInit, SolverStart, SearchInv, AnswersInv
<1> QED
  BY <1>1, <1>2 DEF SolverInit, SolverStart, SolverInv

\* The checks, the single invoice, or the first node.
LEMMA SolveStep ==
  ASSUME SolverInv, Solve
  PROVE  SolverInv'
<1> DEFINE exact == {k \in DOMAIN candidates' : AmountOf(candidates'[k]) = request.payment}
<1>1. /\ pc = "solve" /\ request' = request /\ candidates' = Truncated(Sorted(Eligible))
      /\ \/ IsBlocked /\ Ends(Refusal("BLOCKED", "MODEL_INVALID"))
         \/ ~IsBlocked /\ exact # {} /\ Ends(Match("EXACT_MATCH", "OPTIMAL", {candidates'[Min(exact)]}))
         \/ /\ ~IsBlocked /\ exact = {}
            /\ pc' = "enter" /\ selected' = << >> /\ branch' = << 1 >> /\ best' = << >>
            /\ UNCHANGED <<answer, stored, replay>>
  BY DEF Solve
<1>2. /\ Eligible' = Eligible /\ IsBlocked' = IsBlocked /\ Exact' = exact
      /\ (Truncated(Sorted(Eligible)))' = Truncated(Sorted(Eligible))
  BY <1>1, SameCandidates DEF Exact
<1>3. \A st, so, S : Match(st, so, S)' = Match(st, so, S) /\ Refusal(st, so)' = Refusal(st, so)
  <2>1. \A S : SumOf(S)' = SumOf(S)
    BY <1>1 DEF SumOf, AmountOf
  <2> QED
    BY <1>1, <2>1 DEF Match, Refusal, Response, Objective
<1>4. request' \in RequestRecord /\ candidates' = (Truncated(Sorted(Eligible)))'
  BY <1>1, <1>2 DEF SolverInv
<1>5. stored # NoAnswer => Solvable /\ UNCHANGED <<request, candidates>>
  BY <1>1, Known DEF SolverInv
<1>6. Solvable'
  <2>1. (request \in RequestRecord /\ candidates = Truncated(Sorted(Eligible)) /\ CandidatesCap \in Nat
           => CandidatesRight)'
    BY Candidates, PTL
  <2> QED
    BY SolverAssumption, <1>4, <2>1 DEF Solvable
<1>7. ASSUME NEW a, Ends(a), Complete(a)'
      PROVE  SolverInv'
  <2>1. AnswersInv' /\ pc' \in {"replay", "done"} /\ selected' = << >> /\ branch' = << >>
    BY <1>5, <1>7, EndsRight DEF Proper, SolverInv
  <2> QED
    BY <1>4, <2>1 DEF SolverInv, SearchInv
<1>8. CASE IsBlocked /\ Ends(Refusal("BLOCKED", "MODEL_INVALID"))
  BY <1>2, <1>3, <1>7, <1>8 DEF Complete
<1>9. CASE ~IsBlocked /\ exact # {} /\ Ends(Match("EXACT_MATCH", "OPTIMAL", {candidates'[Min(exact)]}))
  BY <1>2, <1>3, <1>7, <1>9 DEF Complete
<1>10. CASE /\ ~IsBlocked /\ exact = {}
            /\ pc' = "enter" /\ selected' = << >> /\ branch' = << 1 >> /\ best' = << >>
            /\ UNCHANGED <<answer, stored, replay>>
  <2>1. (Solvable /\ pc = "enter" /\ selected = << >> /\ branch = << 1 >> /\ best = << >> => SearchInv)'
    BY SearchStarts, PTL
  <2>2. SearchInv'
    BY <1>6, <1>10, <2>1
  <2>3. AnswersInv'
    <3>1. CASE stored = NoAnswer
      BY <1>10, <3>1 DEF SolverInv, AnswersInv
    <3>2. CASE stored # NoAnswer
      BY <1>5, <1>10, <3>2, AnswersKept DEF SolverInv
    <3> QED
      BY <3>1, <3>2
  <2> QED
    BY <1>2, <1>4, <1>10, <2>2, <2>3 DEF SolverInv
<1> QED
  BY <1>1, <1>8, <1>9, <1>10

\* A solve ends with a proper answer to its request.
LEMMA EndStep ==
  ASSUME SolverInv, pc # "solve", Solvable, NEW a, Ends(a), Proper(a),
         UNCHANGED <<request, candidates>>
  PROVE  SolverInv'
<1>1. Proper(a)'
  BY SameAnswers
<1>2. AnswersInv' /\ pc' \in {"replay", "done"} /\ selected' = << >> /\ branch' = << >>
  BY <1>1, EndsRight DEF SolverInv
<1>3. request' \in RequestRecord /\ candidates' = (Truncated(Sorted(Eligible)))'
  BY SameCandidates DEF SolverInv
<1> QED
  BY <1>2, <1>3 DEF SolverInv, SearchInv

\* A step of the search leaves the answers alone.
LEMMA SearchStep ==
  ASSUME SolverInv, SearchInv', pc # "solve", UNCHANGED <<request, candidates, answer, stored, replay>>,
         \/ {pc, pc'} \subseteq {"enter", "branch"}
         \/ pc = "replay" /\ pc' = "solve" /\ UNCHANGED <<selected, branch>>
  PROVE  SolverInv'
<1>1. AnswersInv'
  BY AnswersKept DEF SolverInv
<1>2. request' \in RequestRecord /\ candidates' = (Truncated(Sorted(Eligible)))'
  BY SameCandidates DEF SolverInv
<1>3. IsBlocked' = IsBlocked /\ Exact' = Exact
  BY SameCandidates DEF Exact
<1> QED
  BY <1>1, <1>2, <1>3 DEF SolverInv

LEMMA SolverStep ==
  ASSUME SolverInv, [SolverNext]_solverVars
  PROVE  SolverInv'
<1>1. pc # "solve" => Solvable /\ SearchInv
  BY Known DEF SolverInv
<1>2. CASE Solve
  BY <1>2, SolveStep
<1>3. CASE TimeOut
  <2>1. pc = "enter" /\ Ends(TimedOut) /\ UNCHANGED <<request, candidates>>
    BY <1>3 DEF TimeOut, TimedOut
  <2> QED
    BY <1>1, <2>1, EndStep DEF Proper
<1>4. CASE Enter
  <2>1. /\ pc = "enter" /\ pc' = "branch"
        /\ UNCHANGED <<request, candidates, answer, stored, replay>>
    BY <1>4 DEF Enter
  <2> QED
    BY <1>1, <1>4, <2>1, EnterStep, SearchStep
<1>5. CASE Descend
  <2>1. /\ pc = "branch" /\ pc' = "enter"
        /\ UNCHANGED <<request, candidates, answer, stored, replay>>
    BY <1>5 DEF Descend
  <2> QED
    BY <1>1, <1>5, <2>1, DescendStep, SearchStep
<1>6. CASE Backtrack
  <2>1. /\ pc = "branch" /\ pc' = "branch"
        /\ UNCHANGED <<request, candidates, answer, stored, replay>>
    BY <1>6 DEF Backtrack
  <2> QED
    BY <1>1, <1>6, <2>1, BacktrackStep, SearchStep
<1>7. CASE Finish
  <2>1. pc = "branch" /\ Ends(Found(best)) /\ UNCHANGED <<request, candidates>>
    BY <1>7 DEF Finish
  <2>2. FinalBest(best) /\ ~IsBlocked /\ Exact = {}
    BY <1>1, <1>7, <2>1, FinishFinds DEF SolverInv
  <2>3. Proper(Found(best))
    BY <2>2 DEF Proper, Complete
  <2> QED
    BY <1>1, <2>1, <2>3, EndStep
<1>8. CASE Replay
  <2>1. /\ pc = "replay" /\ pc' = "solve"
        /\ UNCHANGED <<request, candidates, selected, branch, answer, stored, replay>>
    BY <1>8 DEF Replay
  <2>2. SearchInv'
    BY <2>1 DEF SearchInv
  <2> QED
    BY <2>1, <2>2, SearchStep
<1>9. CASE UNCHANGED solverVars
  <2>1. UNCHANGED <<request, pc, candidates, selected, branch, best, answer, stored, replay>>
    BY <1>9 DEF solverVars
  <2>2. AnswersInv'
    BY <2>1, AnswersKept DEF SolverInv
  <2>3. /\ Eligible' = Eligible /\ IsBlocked' = IsBlocked /\ Exact' = Exact
        /\ (Truncated(Sorted(Eligible)))' = Truncated(Sorted(Eligible))
    BY <2>1, SameCandidates DEF Exact
  <2>4. SearchInv'
    <3>1. Top' = Top /\ PathReached' = PathReached
      BY <2>1 DEF Top, PathReached
    <3>2. BestBefore(best, PathReached)' <=> BestBefore(best, PathReached)
      BY <2>1, <3>1, SameProblem
    <3>3. IsPath(selected)' <=> IsPath(selected)
      BY <2>1, SameProblem
    <3>4. MaxSplit' = MaxSplit
      BY <2>1, SameProblem
    <3> QED
      BY <2>1, <3>1, <3>2, <3>3, <3>4 DEF SolverInv, SearchInv
  <2> QED
    BY <2>1, <2>2, <2>3, <2>4 DEF SolverInv
<1> QED
  BY <1>2, <1>3, <1>4, <1>5, <1>6, <1>7, <1>8, <1>9 DEF SolverNext

\* The path of the search and the places its nodes try grow and shrink together.
LEMMA SolverTypes ==
  ASSUME SolverInv
  PROVE  SolverTypeOK
<1>1. CASE pc \in {"enter", "branch"}
  <2>1. IsPath(selected) /\ Len(branch) = Len(selected) + 1
    BY <1>1 DEF SolverInv, SearchInv
  <2> QED
    BY <1>1, <2>1 DEF IsPath, SolverInv, AnswersInv, SolverTypeOK
<1>2. CASE pc \notin {"enter", "branch"}
  <2>1. pc \in {"solve", "replay", "done"} /\ selected = << >> /\ branch = << >>
    BY <1>2 DEF SolverInv
  <2> QED
    BY <2>1 DEF SolverInv, AnswersInv, SolverTypeOK
<1> QED
  BY <1>1, <1>2

\* Whatever the request, every answer of the solver passes the verifier, OPTIMAL is the
\* best of all admissible selections although the search stops at the first invoice too
\* large and keeps one selection only, INFEASIBLE over an uncut request means that there
\* is none, and a replay disagrees only after a deadline.
THEOREM SolverAnswers == SolverSpec => [](SolverTypeOK /\ SolverAnswersHold)
<1>1. SolverInit => SolverInv
  BY SolverStarts
<1>2. SolverInv /\ [SolverNext]_solverVars => SolverInv'
  BY SolverStep
<1>3. SolverInv => SolverAnswersHold
  <2> SUFFICES ASSUME SolverInv, answer # NoAnswer
               PROVE  SolverAnswersHold
    BY DEF SolverAnswersHold
  <2>1. stored # NoAnswer /\ Proper(answer)
    BY DEF SolverInv, AnswersInv
  <2>2. Solvable
    BY <2>1, Known
  <2>3. AnswerRight(answer)
    BY <2>1, <2>2, ProperRight
  <2> QED
    BY <2>3 DEF SolverInv, AnswersInv, AnswerRight, SolverAnswersHold
<1>4. SolverInv => SolverTypeOK
  BY SolverTypes
<1> QED
  BY <1>1, <1>2, <1>3, <1>4, PTL DEF SolverSpec
=============================================================================
