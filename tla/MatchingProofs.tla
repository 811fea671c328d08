--------------------------- MODULE MatchingProofs ---------------------------
(***************************************************************************)
(* Theorems about MatchingEngine, for any batches and any limits of the    *)
(* searches: what the matcher reports as matched is backed by a credit and *)
(* no credit is taken twice by similarity; a settlement or a credit is in  *)
(* one relationship at most; the gate stops no well-formed batch; and, on  *)
(* batches whose lists of candidates are not cut, the search finds the     *)
(* best group and the passes leave none behind.                            *)
(*                                                                         *)
(* The argument: sums and the two searches are recursive functions, which  *)
(* exist because every step maps groups to groups; the pruned search loses *)
(* nothing because, once a sum of amounts none of which is negative is     *)
(* past the target, a larger group is no closer.  A relationship found     *)
(* takes open settlements and free credits only, and applying it closes    *)
(* them.  Along a run the rows, the credits in use and the relationships   *)
(* are related by Held; Labelled keeps the rows of grouped settlements     *)
(* showing their group, Accounted the sum of the rows equal to what was    *)
(* captured, and Left what the passes found nothing for.                   *)
(***************************************************************************)
EXTENDS MatchingEngine, InvoiceSolverProofs

-----------------------------------------------------------------------------
(* Recursion and sums *)

\* A recursion over the numbers up to n that stays in X has a result.
Runs(g, x, step, n) == g[0] = x /\ \A k \in 1..n : g[k] = step[k][g[k - 1]]

\* A recursion whose steps stay in X is a function into X.
LEMMA RecursionExists ==
  ASSUME NEW n \in Nat, NEW X, NEW x \in X, NEW step \in [1..n -> [X -> X]]
  PROVE  \E g \in [0..n -> X] : Runs(g, x, step, n)
<1> DEFINE G == {m \in 0..n : \E g \in [0..m -> X] : Runs(g, x, step, m)}
<1>1. 0 \in G
  <2>1. [k \in 0..0 |-> x] \in [0..0 -> X]
    OBVIOUS
  <2>2. Runs([k \in 0..0 |-> x], x, step, 0)
    BY DEF Runs
  <2>3. \E g \in [0..0 -> X] : Runs(g, x, step, 0)
    BY <2>1, <2>2
  <2> QED
    BY <2>3
<1>2. ASSUME NEW m \in 1..n, m - 1 \in G
      PROVE  m \in G
  <2>1. PICK g \in [0..(m - 1) -> X] : Runs(g, x, step, m - 1)
    BY <1>2
  <2>2. step[m] \in [X -> X] /\ g[m - 1] \in X
    OBVIOUS
  <2>3. step[m][g[m - 1]] \in X
    BY <2>2
  <2> DEFINE h == [k \in 0..m |-> IF k = m THEN step[m][g[m - 1]] ELSE g[k]]
  <2>4. h \in [0..m -> X]
    <3>1. \A k \in 0..m : k = m \/ k \in 0..(m - 1)
      OBVIOUS
    <3> QED
      BY <2>3, <3>1
  <2>5. Runs(h, x, step, m)
    <3>1. h[0] = x
      BY <2>1 DEF Runs
    <3>2. ASSUME NEW k \in 1..m
          PROVE  h[k] = step[k][h[k - 1]]
      <4>1. k - 1 \in 0..m /\ k - 1 # m /\ k \in 0..m
        OBVIOUS
      <4>2. CASE k = m
        BY <4>1, <4>2
      <4>3. CASE k # m
        <5>1. k \in 1..(m - 1)
          BY <4>3
        <5> QED
          BY <2>1, <4>1, <4>3, <5>1 DEF Runs
      <4> QED
        BY <4>2, <4>3
    <3> QED
      BY <3>1, <3>2 DEF Runs
  <2> HIDE DEF h
  <2>6. \E f \in [0..m -> X] : Runs(f, x, step, m)
    BY <2>4, <2>5
  <2>7. m \in 0..n
    OBVIOUS
  <2> QED
    BY <2>6, <2>7
<1>3. \A m \in 0..n : m \in G
  <2> HIDE DEF G
  <2> QED
    BY <1>1, <1>2, Upwards
<1>4. n \in G
  <2> HIDE DEF G
  <2> QED
    BY <1>3
<1> QED
  BY <1>4

\* What Total adds up at place k.
Part(amount, S, k) == IF k \in S THEN amount[k] ELSE 0
Partial(g, amount, S, n) == g[0] = 0 /\ \A k \in 1..n : g[k] = g[k - 1] + Part(amount, S, k)

\* A function on 1..n is a sequence of that length.
LEMMA FunctionLength ==
  ASSUME NEW n \in Nat, NEW X, NEW f \in [1..n -> X]
  PROVE  f \in Seq(X) /\ Len(f) = n
OBVIOUS

\* Total is the last of the partial sums.
LEMMA TotalIsLast ==
  ASSUME NEW n \in Nat, NEW amount \in [1..n -> Int], NEW S
  PROVE  \E g \in [0..n -> Int] : Partial(g, amount, S, n) /\ Total(amount, S) = g[n]
<1> DEFINE part(k) == IF k \in S THEN amount[k] ELSE 0
           F(f) == [k \in 0..Len(amount) |-> IF k = 0 THEN 0 ELSE f[k - 1] + part(k)]
           sum == CHOOSE f : f = F(f)
           step == [k \in 1..n |-> [v \in Int |-> v + part(k)]]
<1>0. Len(amount) = n
  BY FunctionLength
<1>1. \A k \in 1..n : part(k) \in Int
  OBVIOUS
<1>2. PICK g \in [0..n -> Int] : Runs(g, 0, step, n)
  <2>1. step \in [1..n -> [Int -> Int]]
    <3> HIDE DEF part
    <3> QED
      BY <1>1
  <2>2. 0 \in Int
    OBVIOUS
  <2> HIDE DEF step
  <2> QED
    BY <2>1, <2>2, RecursionExists
<1>3. Total(amount, S) = sum[n]
  BY <1>0 DEF Total
<1> HIDE DEF part
<1>4. \A k \in 1..n : g[k] = g[k - 1] + part(k)
  <2> TAKE k \in 1..n
  <2>1. g[k - 1] \in Int
    OBVIOUS
  <2> QED
    BY <1>2, <2>1 DEF Runs
<1>12. g[0] = 0
  BY <1>2 DEF Runs
<1> HIDE DEF step
<1>5. g = F(g)
  <2>1. ASSUME NEW k \in 0..n
        PROVE  g[k] = F(g)[k]
    <3>1. CASE k = 0
      BY <1>0, <1>12, <3>1
    <3>2. CASE k # 0
      <4>1. k \in 1..n
        BY <3>2
      <4> QED
        BY <1>0, <1>4, <3>2, <4>1
    <3> QED
      BY <3>1, <3>2
  <2> QED
    BY <1>0, <2>1
<1>6. sum = F(sum)
  BY <1>5
<1> HIDE DEF sum
<1> DEFINE G == {k \in 0..n : sum[k] = g[k]}
<1>7. 0 \in G
  BY <1>0, <1>12, <1>6
<1>8. ASSUME NEW k \in 1..n, k - 1 \in G
      PROVE  k \in G
  <2>1. sum[k] = sum[k - 1] + part(k)
    <3>1. k \in 0..Len(amount) /\ k # 0
      BY <1>0
    <3>2. F(sum)[k] = sum[k - 1] + part(k)
      BY <3>1, Zenon
    <3> QED
      BY <1>6, <3>2, Zenon
  <2> QED
    BY <1>4, <1>8, <2>1
<1>9. \A k \in 0..n : k \in G
  <2> HIDE DEF G
  <2> QED
    BY <1>7, <1>8, Upwards
<1>10. Total(amount, S) = g[n]
  BY <1>3, <1>9
<1>11. Partial(g, amount, S, n)
  BY <1>12, <1>4 DEF Partial, Part, part
<1> QED
  BY <1>10, <1>11

\* Sums are integers; only places in S count; no places sum to zero.
LEMMA TotalType ==
  ASSUME NEW n \in Nat, NEW amount \in [1..n -> Int], NEW S
  PROVE  Total(amount, S) \in Int
BY TotalIsLast

\* No places sum to zero.
LEMMA TotalEmpty ==
  ASSUME NEW n \in Nat, NEW amount \in [1..n -> Int], NEW S, S \cap (1..n) = {}
  PROVE  Total(amount, S) = 0
<1>1. PICK g \in [0..n -> Int] : Partial(g, amount, S, n) /\ Total(amount, S) = g[n]
  BY TotalIsLast
<1> DEFINE G == {k \in 0..n : g[k] = 0}
<1>2. 0 \in G
  BY <1>1 DEF Partial
<1>3. ASSUME NEW k \in 1..n, k - 1 \in G
      PROVE  k \in G
  <2>1. g[k] = g[k - 1] + Part(amount, S, k) /\ Part(amount, S, k) = 0
    BY <1>1 DEF Partial, Part
  <2> QED
    BY <1>3, <2>1
<1>4. \A k \in 0..n : k \in G
  <2> HIDE DEF G
  <2> QED
    BY <1>2, <1>3, Upwards
<1> QED
  BY <1>1, <1>4

\* The sum over two disjoint sets.
LEMMA TotalUnion ==
  ASSUME NEW n \in Nat, NEW amount \in [1..n -> Int], NEW S, NEW T, S \cap T = {}
  PROVE  Total(amount, S \cup T) = Total(amount, S) + Total(amount, T)
<1>1. PICK f \in [0..n -> Int] : Partial(f, amount, S, n) /\ Total(amount, S) = f[n]
  BY TotalIsLast
<1>2. PICK g \in [0..n -> Int] : Partial(g, amount, T, n) /\ Total(amount, T) = g[n]
  BY TotalIsLast
<1>3. PICK h \in [0..n -> Int] : Partial(h, amount, S \cup T, n)
                                 /\ Total(amount, S \cup T) = h[n]
  BY TotalIsLast
<1> DEFINE G == {k \in 0..n : h[k] = f[k] + g[k]}
<1>4. 0 \in G
  BY <1>1, <1>2, <1>3 DEF Partial
<1>5. ASSUME NEW k \in 1..n, k - 1 \in G
      PROVE  k \in G
  <2>1. /\ f[k] = f[k - 1] + Part(amount, S, k)
        /\ g[k] = g[k - 1] + Part(amount, T, k)
        /\ h[k] = h[k - 1] + Part(amount, S \cup T, k)
    BY <1>1, <1>2, <1>3 DEF Partial
  <2>2. Part(amount, S \cup T, k) = Part(amount, S, k) + Part(amount, T, k)
    BY DEF Part
  <2>3. Part(amount, S, k) \in Int /\ Part(amount, T, k) \in Int
    BY DEF Part
  <2> HIDE DEF Part
  <2> QED
    BY <1>5, <2>1, <2>2, <2>3
<1>6. \A k \in 0..n : k \in G
  <2> HIDE DEF G
  <2> QED
    BY <1>4, <1>5, Upwards
<1> QED
  BY <1>1, <1>2, <1>3, <1>6

\* Amounts that agree on S have the same sum; the sum of differences.
LEMMA TotalSame ==
  ASSUME NEW n \in Nat, NEW amount \in [1..n -> Int], NEW other \in [1..n -> Int],
         NEW S, NEW T, \A k \in 1..n : Part(amount, S, k) = Part(other, T, k)
  PROVE  Total(amount, S) = Total(other, T)
<1>1. PICK f \in [0..n -> Int] : Partial(f, amount, S, n) /\ Total(amount, S) = f[n]
  BY TotalIsLast
<1>2. PICK g \in [0..n -> Int] : Partial(g, other, T, n) /\ Total(other, T) = g[n]
  BY TotalIsLast
<1> DEFINE G == {k \in 0..n : f[k] = g[k]}
<1>3. 0 \in G
  BY <1>1, <1>2 DEF Partial
<1>4. \A k \in 1..n : k - 1 \in G => k \in G
  BY <1>1, <1>2 DEF Partial
<1>5. \A k \in 0..n : k \in G
  <2> HIDE DEF G
  <2> QED
    BY <1>3, <1>4, Upwards
<1> QED
  BY <1>1, <1>2, <1>5

Differs(rest, amount, other, n) ==
  /\ amount \in [1..n -> Int] /\ other \in [1..n -> Int] /\ rest \in [1..n -> Int]
  /\ \A k \in 1..n : rest[k] = amount[k] - other[k]

\* The sum of differences is the difference of the sums.
LEMMA TotalMinus ==
  ASSUME NEW n \in Nat, NEW amount, NEW other, NEW rest, NEW S, Differs(rest, amount, other, n)
  PROVE  Total(rest, S) = Total(amount, S) - Total(other, S)
<1>0. amount \in [1..n -> Int] /\ other \in [1..n -> Int] /\ rest \in [1..n -> Int]
  BY DEF Differs
<1>1. PICK f \in [0..n -> Int] : Partial(f, amount, S, n) /\ Total(amount, S) = f[n]
  BY <1>0, TotalIsLast
<1>2. PICK g \in [0..n -> Int] : Partial(g, other, S, n) /\ Total(other, S) = g[n]
  BY <1>0, TotalIsLast
<1>3. PICK h \in [0..n -> Int] : Partial(h, rest, S, n) /\ Total(rest, S) = h[n]
  BY <1>0, TotalIsLast
<1> DEFINE G == {k \in 0..n : h[k] = f[k] - g[k]}
<1>4. 0 \in G
  BY <1>1, <1>2, <1>3 DEF Partial
<1>5. ASSUME NEW k \in 1..n, k - 1 \in G
      PROVE  k \in G
  <2>1. /\ f[k] = f[k - 1] + Part(amount, S, k)
        /\ g[k] = g[k - 1] + Part(other, S, k)
        /\ h[k] = h[k - 1] + Part(rest, S, k)
    BY <1>1, <1>2, <1>3 DEF Partial
  <2>2. Part(rest, S, k) = Part(amount, S, k) - Part(other, S, k)
    BY DEF Part, Differs
  <2>3. Part(amount, S, k) \in Int /\ Part(other, S, k) \in Int
    BY <1>0 DEF Part
  <2> HIDE DEF Part
  <2> QED
    BY <1>5, <2>1, <2>2, <2>3
<1>6. \A k \in 0..n : k \in G
  <2> HIDE DEF G
  <2> QED
    BY <1>4, <1>5, Upwards
<1> QED
  BY <1>1, <1>2, <1>3, <1>6

\* A larger set of amounts none of which is negative has no smaller sum.
LEMMA TotalGrows ==
  ASSUME NEW n \in Nat, NEW amount \in [1..n -> Nat], NEW S, NEW T, S \subseteq T
  PROVE  Total(amount, S) \in Int /\ Total(amount, T) \in Int
         /\ Total(amount, S) <= Total(amount, T)
<1>0. amount \in [1..n -> Int]
  OBVIOUS
<1>1. PICK f \in [0..n -> Int] : Partial(f, amount, S, n) /\ Total(amount, S) = f[n]
  BY <1>0, TotalIsLast
<1>2. PICK g \in [0..n -> Int] : Partial(g, amount, T, n) /\ Total(amount, T) = g[n]
  BY <1>0, TotalIsLast
<1> DEFINE G == {k \in 0..n : f[k] <= g[k]}
<1>3. 0 \in G
  BY <1>1, <1>2 DEF Partial
<1>4. ASSUME NEW k \in 1..n, k - 1 \in G
      PROVE  k \in G
  <2>1. f[k] = f[k - 1] + Part(amount, S, k) /\ g[k] = g[k - 1] + Part(amount, T, k)
    BY <1>1, <1>2 DEF Partial
  <2>2. /\ Part(amount, S, k) \in Int /\ Part(amount, T, k) \in Int
        /\ Part(amount, S, k) <= Part(amount, T, k)
    BY DEF Part
  <2> HIDE DEF Part
  <2> QED
    BY <1>4, <2>1, <2>2
<1>5. \A k \in 0..n : k \in G
  <2> HIDE DEF G
  <2> QED
    BY <1>3, <1>4, Upwards
<1> QED
  BY <1>1, <1>2, <1>5

\* One more place at the end.
LEMMA TotalLonger ==
  ASSUME NEW n \in Nat, NEW amount \in [1..n -> Int], NEW longer \in [1..(n + 1) -> Int],
         \A k \in 1..n : longer[k] = amount[k]
  PROVE  Total(longer, 1..(n + 1)) = Total(amount, 1..n) + longer[n + 1]
<1>1. PICK f \in [0..n -> Int] : Partial(f, amount, 1..n, n) /\ Total(amount, 1..n) = f[n]
  BY TotalIsLast
<1>2. PICK g \in [0..(n + 1) -> Int] : /\ Partial(g, longer, 1..(n + 1), n + 1)
                                       /\ Total(longer, 1..(n + 1)) = g[n + 1]
  BY TotalIsLast, n + 1 \in Nat
<1> DEFINE G == {k \in 0..n : f[k] = g[k]}
<1>3. 0 \in G
  BY <1>1, <1>2 DEF Partial
<1>4. ASSUME NEW k \in 1..n, k - 1 \in G
      PROVE  k \in G
  <2>1. f[k] = f[k - 1] + Part(amount, 1..n, k)
    BY <1>1 DEF Partial
  <2>2. g[k] = g[k - 1] + Part(longer, 1..(n + 1), k)
    BY <1>2 DEF Partial
  <2>3. Part(amount, 1..n, k) = Part(longer, 1..(n + 1), k)
    BY DEF Part
  <2> HIDE DEF Part
  <2> QED
    BY <1>4, <2>1, <2>2, <2>3
<1>5. \A k \in 0..n : k \in G
  <2> HIDE DEF G
  <2> QED
    BY <1>3, <1>4, Upwards
<1>6. f[n] = g[n]
  BY <1>5
<1>7. g[n + 1] = g[n] + longer[n + 1]
  BY <1>2 DEF Partial, Part
<1> QED
  BY <1>1, <1>2, <1>6, <1>7

-----------------------------------------------------------------------------
(* The search for a group *)

\* How far a group is from the target, and whether it is one the search may return.
Apart(amount, target, G) == Distance(Total(amount, G), target)
Fits(amount, target, G) == /\ Cardinality(G) \in 2..MaxGroupSize
                           /\ Apart(amount, target, G) <= TolerancePaise
Beats(amount, target, G, held) ==
  /\ Cardinality(G) >= 2 /\ Apart(amount, target, G) <= TolerancePaise
  /\ \/ held = {}
     \/ Apart(amount, target, G) < Apart(amount, target, held)
     \/ /\ Apart(amount, target, G) = Apart(amount, target, held)
        /\ Cardinality(G) < Cardinality(held)
Met(amount, target, G, held) == IF Beats(amount, target, G, held) THEN G ELSE held
Ends3(amount, target, G) == \/ Cardinality(G) >= 2 /\ Prunes(Total(amount, G), target)
                            \/ Cardinality(G) >= MaxGroupSize

\* One turn of the loop: f is what the rest of the loop does.
Turn(amount, target, x, f, group, held) ==
  LET longer == group \cup {x}
      met == Met(amount, target, longer, held)
  IN f[group][IF Ends3(amount, target, longer) THEN met ELSE f[longer][met]]

ItemSet(items) == {items[i] : i \in 1..Len(items)}

\* visit is the loop of the search, from its last item back to its first.
Visits(visit, items, amount, target) ==
  LET n == Len(items)
      groups == SUBSET ItemSet(items)
  IN /\ visit \in [0..n -> [groups -> [groups -> groups]]]
     /\ \A group, held \in groups : visit[0][group][held] = held
     /\ \A k \in 1..n : \A group, held \in groups :
          visit[k][group][held] =
            Turn(amount, target, items[n + 1 - k], visit[k - 1], group, held)

\* One item of the search makes groups of groups.
LEMMA TurnType ==
  ASSUME NEW groups, NEW A, groups = SUBSET A, NEW f \in [groups -> [groups -> groups]],
         NEW amount, NEW target, NEW x \in A, NEW group \in groups, NEW b \in groups
  PROVE  Turn(amount, target, x, f, group, b) \in groups
<1> DEFINE longer == group \cup {x}
           met == Met(amount, target, longer, b)
           next == IF Ends3(amount, target, longer) THEN met ELSE f[longer][met]
<1>1. longer \in groups
  OBVIOUS
<1>2. met \in groups
  BY <1>1 DEF Met
<1> HIDE DEF longer, met
<1>3. f[longer][met] \in groups
  BY <1>1, <1>2
<1>4. next \in groups
  BY <1>2, <1>3
<1> HIDE DEF next
<1>5. f[group][next] \in groups
  BY <1>4
<1> QED
  BY <1>5 DEF Turn, next, met, longer

\* Search is the last of its visits.
LEMMA SearchVisits ==
  ASSUME NEW A, NEW items \in Seq(A), NEW amount, NEW target
  PROVE  \E visit : /\ Visits(visit, items, amount, target)
                    /\ Search(items, amount, target) = visit[Len(items)][{}][{}]
<1> DEFINE n == Len(items)
           groups == SUBSET ItemSet(items)
           X == [groups -> [groups -> groups]]
           zero == [group \in groups |-> [b \in groups |-> b]]
           turn(k, f) == [group \in groups |-> [b \in groups |->
                            Turn(amount, target, items[n + 1 - k], f, group, b)]]
           step == [k \in 1..n |-> [f \in X |-> turn(k, f)]]
           F(f) == [k \in 0..n |-> [group \in groups |-> [b \in groups |->
                      IF k = 0 THEN b
                      ELSE Turn(amount, target, items[n + 1 - k], f[k - 1], group, b)]]]
           visit == CHOOSE f : f = F(f)
<1>1. n \in Nat
  OBVIOUS
<1>2. Search(items, amount, target) = visit[n][{}][{}]
  BY DEF Search, Turn, Met, Beats, Ends3, Apart, ItemSet
<1>3. zero \in X
  OBVIOUS
<1>4. ASSUME NEW k \in 1..n, NEW f \in X
      PROVE  turn(k, f) \in X
  <2>1. items[n + 1 - k] \in ItemSet(items)
    BY <1>1 DEF ItemSet
  <2>2. \A group, b \in groups : Turn(amount, target, items[n + 1 - k], f, group, b) \in groups
    BY <2>1, TurnType
  <2> QED
    BY <2>2
<1> HIDE DEF turn
<1>5. step \in [1..n -> [X -> X]]
  <2> HIDE DEF X
  <2> QED
    BY <1>4
<1>6. PICK g \in [0..n -> X] : Runs(g, zero, step, n)
  <2> HIDE DEF X, zero, step
  <2> QED
    BY <1>1, <1>3, <1>5, RecursionExists
<1>7. g[0] = zero
  BY <1>6 DEF Runs
<1>8. ASSUME NEW k \in 1..n
      PROVE  g[k - 1] \in X /\ g[k] = turn(k, g[k - 1])
  <2>1. k - 1 \in 0..n
    BY <1>1
  <2>2. g[k - 1] \in X
    BY <2>1
  <2> HIDE DEF X
  <2>3. step[k][g[k - 1]] = turn(k, g[k - 1])
    BY <2>2
  <2> HIDE DEF step
  <2>4. g[k] = step[k][g[k - 1]]
    BY <1>6 DEF Runs
  <2> QED
    BY <2>2, <2>3, <2>4
<1> HIDE DEF step
<1>9. g = F(g)
  <2>1. ASSUME NEW k \in 0..n
        PROVE  g[k] = F(g)[k]
    <3>1. CASE k = 0
      BY <1>7, <3>1
    <3>2. CASE k # 0
      <4>1. k \in 1..n
        BY <1>1, <3>2
      <4>2. F(g)[k] = turn(k, g[k - 1])
        BY <3>2 DEF turn
      <4> QED
        BY <1>8, <4>1, <4>2
    <3> QED
      BY <3>1, <3>2
  <2>2. DOMAIN g = 0..n /\ DOMAIN F(g) = 0..n
    OBVIOUS
  <2> HIDE DEF F
  <2>3. F(g) = [k \in 0..n |-> F(g)[k]]
    BY DEF F
  <2> QED
    BY <2>1, <2>2, <2>3
<1>10. visit = F(visit)
  <2> HIDE DEF F
  <2> QED
    BY <1>9
<1> HIDE DEF visit
<1>11. \A group, b \in groups : visit[0][group][b] = b
  BY <1>1, <1>10
<1>12. ASSUME NEW k \in 1..n, NEW group \in groups, NEW b \in groups
       PROVE  visit[k][group][b] = Turn(amount, target, items[n + 1 - k], visit[k - 1], group, b)
  <2>1. k \in 0..n /\ k # 0
    BY <1>1
  <2>2. F(visit)[k][group][b] = Turn(amount, target, items[n + 1 - k], visit[k - 1], group, b)
    BY <2>1
  <2> HIDE DEF F
  <2> QED
    BY <1>10, <2>2
<1> DEFINE G == {k \in 0..n : visit[k] = g[k]}
<1>13. visit[0] = F(visit)[0] /\ F(visit)[0] = zero
  BY <1>1, <1>10
<1>14. \A k \in 0..n : k \in G
  <2>1. 0 \in G
    <3> HIDE DEF F, zero
    <3>1. visit[0] = g[0]
      BY <1>7, <1>13
    <3> QED
      BY <1>1, <3>1
  <2>2. ASSUME NEW k \in 1..n, k - 1 \in G
        PROVE  k \in G
    <3>1. k \in 0..n /\ k # 0 /\ visit[k - 1] = g[k - 1]
      BY <1>1, <2>2
    <3>2. F(visit)[k] = turn(k, visit[k - 1])
      BY <3>1 DEF turn
    <3> HIDE DEF F
    <3>3. visit[k] = turn(k, visit[k - 1])
      BY <1>10, <3>2
    <3> QED
      BY <1>8, <3>1, <3>3
  <2> HIDE DEF G
  <2> QED
    BY <1>1, <2>1, <2>2, Upwards
<1>15. visit \in [0..n -> X]
  <2>1. DOMAIN visit = 0..n /\ visit = [k \in 0..n |-> visit[k]]
    BY <1>10
  <2>2. \A k \in 0..n : visit[k] \in X
    BY <1>14
  <2> HIDE DEF X
  <2> QED
    BY <2>1, <2>2
<1>16. Visits(visit, items, amount, target)
  BY <1>11, <1>12, <1>15 DEF Visits
<1> QED
  BY <1>2, <1>16

-----------------------------------------------------------------------------
\* Cardinalities of groups of records.
LEMMA Sizes ==
  ASSUME NEW A, IsFiniteSet(A), NEW S \in SUBSET A, NEW T \in SUBSET A
  PROVE  /\ IsFiniteSet(S) /\ Cardinality(S) \in Nat /\ (Cardinality(S) = 0 <=> S = {})
         /\ S \subseteq T => Cardinality(S) <= Cardinality(T)
         /\ S \subseteq T /\ S # T => Cardinality(S) < Cardinality(T)
         /\ \A x \in A : Cardinality(S \cup {x}) <= Cardinality(S) + 1
<1>1. IsFiniteSet(S) /\ IsFiniteSet(T)
  BY FS_Subset
<1>2. Cardinality(S) \in Nat /\ Cardinality(T) \in Nat /\ (Cardinality(S) = 0 <=> S = {})
  BY <1>1, FS_CardinalityType, FS_EmptySet
<1>3. S \subseteq T => Cardinality(S) <= Cardinality(T)
  BY <1>1, FS_Subset
<1>4. S \subseteq T /\ S # T => Cardinality(S) < Cardinality(T)
  <2>1. S \subseteq T => (Cardinality(S) = Cardinality(T) => S = T)
    BY <1>1, FS_Subset
  <2> QED
    BY <1>2, <1>3, <2>1
<1>5. \A x \in A : Cardinality(S \cup {x}) <= Cardinality(S) + 1
  <2> TAKE x \in A
  <2>1. Cardinality(S \cup {x}) = (IF x \in S THEN Cardinality(S) ELSE Cardinality(S) + 1)
    BY <1>1, FS_AddElement
  <2> QED
    BY <1>2, <2>1
<1> QED
  BY <1>1, <1>2, <1>3, <1>4, <1>5

\* A sequence has finitely many items.
LEMMA ItemsFinite ==
  ASSUME NEW A, NEW items \in Seq(A)
  PROVE  IsFiniteSet(ItemSet(items)) /\ ItemSet(items) \subseteq A
<1> DEFINE n == Len(items)
           f == [i \in 1..n |-> items[i]]
<1>0. f \in Surjection(1..n, ItemSet(items))
  BY DEF Surjection, ItemSet
<1>1. n \in Nat /\ IsFiniteSet(1..n)
  BY FS_Interval
<1>2. IsFiniteSet(ItemSet(items))
  BY <1>0, <1>1, FS_Surjection
<1>3. ItemSet(items) \subseteq A
  BY DEF ItemSet
<1> QED
  BY <1>2, <1>3

\* What the search returns is small enough and close enough (or empty).
LEMMA SearchFits ==
  ASSUME MaxGroupSize \in Nat \ {0}, NEW A, NEW items \in Seq(A), NEW amount, NEW target
  PROVE  /\ Search(items, amount, target) \subseteq A
         /\ \/ Search(items, amount, target) = {}
            \/ Fits(amount, target, Search(items, amount, target))
<1> DEFINE n == Len(items)
           groups == SUBSET ItemSet(items)
           ok(b) == b = {} \/ Fits(amount, target, b)
<1>1. n \in Nat /\ IsFiniteSet(ItemSet(items)) /\ ItemSet(items) \subseteq A
  BY ItemsFinite
<1>2. PICK visit : /\ Visits(visit, items, amount, target)
                   /\ Search(items, amount, target) = visit[n][{}][{}]
  BY SearchVisits
<1> DEFINE G == {k \in 0..n : \A group, b \in groups :
                    Cardinality(group) < MaxGroupSize /\ ok(b) => ok(visit[k][group][b])}
<1>3. 0 \in G
  <2>1. \A group, b \in groups : visit[0][group][b] = b
    BY <1>2 DEF Visits
  <2> QED
    BY <1>1, <2>1
<1>4. ASSUME NEW k \in 1..n, k - 1 \in G
      PROVE  k \in G
  <2> SUFFICES ASSUME NEW group \in groups, NEW b \in groups,
                      Cardinality(group) < MaxGroupSize, ok(b)
               PROVE  ok(visit[k][group][b])
    OBVIOUS
  <2> DEFINE x == items[n + 1 - k]
             f == visit[k - 1]
             longer == group \cup {x}
             met == Met(amount, target, longer, b)
             next == IF Ends3(amount, target, longer) THEN met ELSE f[longer][met]
  <2>1. visit[k][group][b] = f[group][next]
    BY <1>2 DEF Visits, Turn
  <2>2. x \in ItemSet(items) /\ longer \in groups
    BY <1>1 DEF ItemSet
  <2>3. f \in [groups -> [groups -> groups]]
    <3>1. k - 1 \in 0..n
      BY <1>1
    <3> QED
      BY <1>2, <3>1 DEF Visits
  <2>4. Cardinality(longer) \in Nat /\ Cardinality(longer) <= MaxGroupSize
    <3>1. /\ Cardinality(group) \in Nat /\ Cardinality(longer) \in Nat
          /\ Cardinality(longer) <= Cardinality(group) + 1
      BY <1>1, <2>2, Sizes
    <3> QED
      BY <3>1
  <2>5. met \in groups /\ ok(met)
    <3>1. CASE Beats(amount, target, longer, b)
      BY <2>2, <2>4, <3>1 DEF Met, Beats, Fits
    <3>2. CASE ~Beats(amount, target, longer, b)
      BY <3>2 DEF Met
    <3> QED
      BY <3>1, <3>2
  <2> HIDE DEF met, longer, x, f
  <2>6. \A g, c \in groups : Cardinality(g) < MaxGroupSize /\ ok(c) => ok(f[g][c])
    BY <1>4 DEF f
  <2> HIDE DEF ok
  <2>7. next \in groups /\ ok(next)
    <3>1. CASE Ends3(amount, target, longer)
      BY <2>5, <3>1
    <3>2. CASE ~Ends3(amount, target, longer)
      <4>1. Cardinality(longer) < MaxGroupSize
        BY <2>4, <3>2 DEF Ends3
      <4> QED
        BY <2>2, <2>3, <2>5, <2>6, <3>2, <4>1
    <3> QED
      BY <3>1, <3>2
  <2> QED
    BY <2>1, <2>6, <2>7
<1>5. \A k \in 0..n : k \in G
  <2> HIDE DEF G
  <2> QED
    BY <1>1, <1>3, <1>4, Upwards
<1>6. {} \in groups /\ Cardinality({}) = 0
  BY FS_EmptySet
<1>7. visit[n][{}][{}] \in groups
  <2>1. visit[n] \in [groups -> [groups -> groups]]
    <3>1. visit \in [0..n -> [groups -> [groups -> groups]]]
      BY <1>2 DEF Visits
    <3>2. n \in 0..n
      BY <1>1
    <3> HIDE DEF groups, n
    <3> QED
      BY <3>1, <3>2
  <2> QED
    BY <1>6, <2>1
<1>8. ok(visit[n][{}][{}])
  BY <1>1, <1>5, <1>6
<1> QED
  BY <1>1, <1>2, <1>7, <1>8

\* b is at least as good as G: as close, and as close only if no larger.
NoFurther(amount, target, b, G) ==
  /\ b # {}
  /\ \/ Apart(amount, target, b) < Apart(amount, target, G)
     \/ /\ Apart(amount, target, b) = Apart(amount, target, G)
        /\ Cardinality(b) <= Cardinality(G)

\* The items the last k turns of the loop take.
Rest(items, k) == {items[i] : i \in (Len(items) + 1 - k)..Len(items)}

\* Being no further from the target is an order, and a group met improves on the best.
LEMMA NoFurtherOrders ==
  ASSUME NEW amount, NEW target, NEW A, IsFiniteSet(A), NEW R \in SUBSET A, NEW S \in SUBSET A,
         NEW T \in SUBSET A, \A G \in SUBSET A : Apart(amount, target, G) \in Int
  PROVE  /\ S # {} => NoFurther(amount, target, S, S)
         /\ NoFurther(amount, target, R, S) /\ NoFurther(amount, target, S, T)
              => NoFurther(amount, target, R, T)
         /\ S # {} => NoFurther(amount, target, Met(amount, target, T, S), S)
         /\ Fits(amount, target, T) => NoFurther(amount, target, Met(amount, target, T, S), T)
<1>1. \A G \in SUBSET A : Cardinality(G) \in Nat /\ (Cardinality(G) = 0 <=> G = {})
  BY Sizes
<1>2. /\ Apart(amount, target, R) \in Int /\ Apart(amount, target, S) \in Int
      /\ Apart(amount, target, T) \in Int
  OBVIOUS
<1>3. /\ Cardinality(R) \in Nat /\ Cardinality(S) \in Nat /\ Cardinality(T) \in Nat
      /\ (Cardinality(T) = 0 <=> T = {})
  BY <1>1
<1>4. S # {} => NoFurther(amount, target, S, S)
  BY <1>2, <1>3 DEF NoFurther
<1>5. NoFurther(amount, target, R, S) /\ NoFurther(amount, target, S, T)
        => NoFurther(amount, target, R, T)
  BY <1>2, <1>3 DEF NoFurther
<1>6. S # {} => NoFurther(amount, target, Met(amount, target, T, S), S)
  <2>1. CASE Beats(amount, target, T, S)
    BY <1>2, <1>3, <2>1 DEF NoFurther, Met, Beats
  <2>2. CASE ~Beats(amount, target, T, S)
    BY <1>4, <2>2 DEF Met
  <2> QED
    BY <2>1, <2>2
<1>7. Fits(amount, target, T) => NoFurther(amount, target, Met(amount, target, T, S), T)
  <2> SUFFICES ASSUME Fits(amount, target, T)
               PROVE  NoFurther(amount, target, Met(amount, target, T, S), T)
    OBVIOUS
  <2>1. Cardinality(T) >= 2 /\ Apart(amount, target, T) <= TolerancePaise
    BY <1>3 DEF Fits
  <2>2. CASE Beats(amount, target, T, S)
    BY <1>2, <1>3, <2>1, <2>2 DEF NoFurther, Met
  <2>3. CASE ~Beats(amount, target, T, S)
    BY <1>2, <1>3, <2>1, <2>3 DEF NoFurther, Met, Beats
  <2> QED
    BY <2>2, <2>3
<1> QED
  BY <1>4, <1>5, <1>6, <1>7

\* Nothing that goes on from a group where the search returns is better than the group.
LEMMA EndsSound ==
  ASSUME MaxGroupSize \in Nat, NEW m \in Nat, NEW amount \in [1..m -> Nat], NEW target \in Int,
         NEW G \in SUBSET (1..m), Ends3(amount, target, G),
         NEW T \in SUBSET (1..m), G \subseteq T, G # T, Fits(amount, target, T)
  PROVE  Fits(amount, target, G) /\ NoFurther(amount, target, G, T)
<1>1. /\ Cardinality(G) \in Nat /\ Cardinality(T) \in Nat /\ Cardinality(G) < Cardinality(T)
      /\ (Cardinality(G) = 0 <=> G = {})
  <2>1. IsFiniteSet(1..m)
    BY FS_Interval
  <2>2. /\ Cardinality(G) \in Nat /\ Cardinality(G) < Cardinality(T)
        /\ (Cardinality(G) = 0 <=> G = {})
    BY <2>1, Sizes
  <2>3. Cardinality(T) \in Nat
    BY <2>1, Sizes
  <2> QED
    BY <2>2, <2>3
<1>2. /\ Total(amount, G) \in Int /\ Total(amount, T) \in Int
      /\ Total(amount, G) <= Total(amount, T)
  BY TotalGrows
<1>3. Cardinality(G) < MaxGroupSize
  BY <1>1 DEF Fits
<1>4. Cardinality(G) >= 2 /\ Total(amount, G) >= target + TolerancePaise
  BY <1>1, <1>3 DEF Ends3, Prunes
<1>5. Total(amount, T) <= target + TolerancePaise
  BY <1>2 DEF Fits, Apart, Distance, TolerancePaise
<1>6. Total(amount, T) = Total(amount, G)
  BY <1>2, <1>4, <1>5 DEF TolerancePaise
<1>7. Apart(amount, target, G) = Apart(amount, target, T)
  BY <1>6 DEF Apart
<1> QED
  BY <1>1, <1>3, <1>4, <1>7 DEF Fits, NoFurther

\* The search loses no better group than it returns (cardinality.ts 100-139).
LEMMA SearchLosesNone ==
  ASSUME MaxGroupSize \in Nat \ {0}, NEW m \in Nat, NEW amount \in [1..m -> Nat],
         NEW target \in Int, NEW items \in Seq(1..m),
         NEW T \in SUBSET ItemSet(items), Fits(amount, target, T)
  PROVE  NoFurther(amount, target, Search(items, amount, target), T)
<1> DEFINE n == Len(items)
           A == ItemSet(items)
           groups == SUBSET A
           NF(b, G) == NoFurther(amount, target, b, G)
<1>1. n \in Nat /\ IsFiniteSet(A) /\ A \subseteq 1..m
  BY ItemsFinite
<1>2. PICK visit : /\ Visits(visit, items, amount, target)
                   /\ Search(items, amount, target) = visit[n][{}][{}]
  BY SearchVisits
<1>3. \A G \in groups : Apart(amount, target, G) \in Int
  <2>1. \A G : Total(amount, G) \in Int
    BY TotalGrows
  <2> QED
    BY <2>1 DEF Apart, Distance
<1>4. \A R, S, G \in groups : NF(R, S) /\ NF(S, G) => NF(R, G)
  BY <1>1, <1>3, NoFurtherOrders
<1>5. \A S \in groups : S # {} => NF(S, S)
  BY <1>1, <1>3, NoFurtherOrders
<1>6. \A S, G \in groups : S # {} => NF(Met(amount, target, G, S), S)
  BY <1>1, <1>3, NoFurtherOrders
<1>7. \A S, G \in groups : Fits(amount, target, G) => NF(Met(amount, target, G, S), G)
  BY <1>1, <1>3, NoFurtherOrders
<1> DEFINE Kept(k) == \A group, b \in groups : b # {} => NF(visit[k][group][b], b)
           Reached2(k) == \A group, b, G \in groups :
                       (/\ group \subseteq G /\ G # group /\ G \subseteq group \cup Rest(items, k)
                        /\ Fits(amount, target, G)) => NF(visit[k][group][b], G)
           K == {k \in 0..n : Kept(k) /\ Reached2(k)}
<1>8. 0 \in K
  <2>1. \A group, b \in groups : visit[0][group][b] = b
    BY <1>2 DEF Visits
  <2>2. Rest(items, 0) = {}
    BY <1>1 DEF Rest
  <2> HIDE DEF NF
  <2>3. Kept(0)
    BY <1>5, <2>1
  <2>4. Reached2(0)
    BY <2>2
  <2> HIDE DEF Kept, Reached2
  <2> QED
    BY <1>1, <2>3, <2>4
<1>9. ASSUME NEW k \in 1..n, k - 1 \in K
      PROVE  k \in K
  <2> DEFINE x == items[n + 1 - k]
             f == visit[k - 1]
             longer(group) == group \cup {x}
             met(group, b) == Met(amount, target, longer(group), b)
             next(group, b) == IF Ends3(amount, target, longer(group)) THEN met(group, b)
                               ELSE f[longer(group)][met(group, b)]
  <2>1. x \in A
    BY <1>1 DEF ItemSet
  <2>2. f \in [groups -> [groups -> groups]]
    <3>1. k - 1 \in 0..n
      BY <1>1
    <3> QED
      BY <1>2, <3>1 DEF Visits
  <2>3. Rest(items, k) = Rest(items, k - 1) \cup {x}
    <3>1. (n + 1 - k)..n = ((n + 1 - (k - 1))..n) \cup {n + 1 - k}
      BY SMTT(30), <1>1
    <3> HIDE DEF n
    <3>2. Rest(items, k) = {items[i] : i \in (n + 1 - k)..n}
          /\ Rest(items, k - 1) = {items[i] : i \in (n + 1 - (k - 1))..n}
      BY DEF Rest, n
    <3> QED
      BY <3>1, <3>2
  <2>4. \A group, b \in groups : visit[k][group][b] = f[group][next(group, b)]
    BY <1>2 DEF Visits, Turn
  <2> HIDE DEF f, x, NF
  <2>5. Kept(k - 1) /\ Reached2(k - 1)
    BY <1>9
  <2>6. \A group, b \in groups : b # {} => NF(f[group][b], b)
    BY <2>5 DEF f
  <2>7. \A group, b, G \in groups :
          (/\ group \subseteq G /\ G # group /\ G \subseteq group \cup Rest(items, k - 1)
           /\ Fits(amount, target, G)) => NF(f[group][b], G)
    BY <2>5 DEF f
  <2>8. \A group, b \in groups : longer(group) \in groups /\ met(group, b) \in groups
    <3> TAKE group, b \in groups
    <3>1. longer(group) \in groups
      BY <2>1
    <3> QED
      BY <3>1 DEF Met
  <2>9. \A group, b \in groups : next(group, b) \in groups
    <3> TAKE group, b \in groups
    <3>1. longer(group) \in groups /\ met(group, b) \in groups
      BY <2>8
    <3> HIDE DEF longer, met, groups
    <3>2. f[longer(group)][met(group, b)] \in groups
      BY <2>2, <3>1
    <3> QED
      BY <3>1, <3>2
  <2>10. \A group, b \in groups : f[group][next(group, b)] \in groups
    <3> TAKE group, b \in groups
    <3> HIDE DEF next, groups
    <3> QED
      BY <2>2, <2>9
  <2>11. \A group, b \in groups : met(group, b) # {} => NF(next(group, b), met(group, b))
    <3> HIDE DEF met, longer
    <3> QED
      BY <1>5, <2>6, <2>8
  <2>12. \A b, G \in groups : NF(b, G) => b # {}
    BY DEF NF, NoFurther
  <2>13. Kept(k)
    <3> SUFFICES ASSUME NEW group \in groups, NEW b \in groups, b # {}
                 PROVE  NF(f[group][next(group, b)], b)
      BY <2>4
    <3>1. NF(met(group, b), b)
      BY <1>6, <2>8
    <3>2. NF(next(group, b), met(group, b))
      BY <2>8, <2>11, <2>12, <3>1
    <3>3. NF(next(group, b), b)
      BY <1>4, <2>8, <2>9, <3>1, <3>2
    <3>4. NF(f[group][next(group, b)], next(group, b))
      BY <2>6, <2>9, <2>12, <3>3
    <3> HIDE DEF next
    <3> QED
      BY <1>4, <2>9, <2>10, <3>3, <3>4
  <2>14. Reached2(k)
    <3> SUFFICES ASSUME NEW group \in groups, NEW b \in groups, NEW G \in groups,
                        group \subseteq G, G # group, G \subseteq group \cup Rest(items, k),
                        Fits(amount, target, G)
                 PROVE  NF(visit[k][group][b], G)
      OBVIOUS
    <3> SUFFICES NF(f[group][next(group, b)], G)
      BY <2>4
    <3>1. CASE x \notin G
      <4>1. G \subseteq group \cup Rest(items, k - 1)
        BY <2>3, <3>1
      <4> HIDE DEF next
      <4> QED
        BY <2>7, <2>9, <4>1
    <3>2. CASE x \in G
      <4>1. longer(group) \subseteq G /\ G \subseteq longer(group) \cup Rest(items, k - 1)
        BY <2>3, <3>2
      <4>2. NF(next(group, b), G)
        <5>1. CASE longer(group) = G
          <6>1. NF(met(group, b), G)
            BY <1>7, <5>1
          <6>2. NF(next(group, b), met(group, b))
            BY <2>8, <2>11, <2>12, <6>1
          <6> QED
            BY <1>4, <2>8, <2>9, <6>1, <6>2
        <5>2. CASE longer(group) # G /\ Ends3(amount, target, longer(group))
          <6>1. Fits(amount, target, longer(group)) /\ NF(longer(group), G)
            <7>1. longer(group) \in SUBSET (1..m) /\ G \in SUBSET (1..m)
              BY <1>1, <2>8
            <7> HIDE DEF longer
            <7> QED
              BY <4>1, <5>2, <7>1, EndsSound DEF NF
          <6>2. NF(met(group, b), longer(group))
            BY <1>7, <2>8, <6>1
          <6>3. next(group, b) = met(group, b)
            BY <5>2
          <6> HIDE DEF next, met, longer
          <6> QED
            BY <1>4, <2>8, <6>1, <6>2, <6>3
        <5>3. CASE longer(group) # G /\ ~Ends3(amount, target, longer(group))
          <6>1. next(group, b) = f[longer(group)][met(group, b)]
            BY <5>3
          <6>2. longer(group) \in groups /\ met(group, b) \in groups
            BY <2>8
          <6> HIDE DEF next, met, longer, groups
          <6> QED
            BY <2>7, <4>1, <5>3, <6>1, <6>2
        <5> QED
          BY <5>1, <5>2, <5>3
      <4>3. NF(f[group][next(group, b)], next(group, b))
        BY <2>6, <2>9, <2>12, <4>2
      <4> HIDE DEF next
      <4> QED
        BY <1>4, <2>9, <2>10, <4>2, <4>3
    <3> QED
      BY <3>1, <3>2
  <2> HIDE DEF Kept, Reached2
  <2> QED
    BY <1>1, <2>13, <2>14
<1>10. \A k \in 0..n : k \in K
  <2> HIDE DEF K
  <2> QED
    BY <1>1, <1>8, <1>9, Upwards
<1>11. T # {}
  <2> SUFFICES ASSUME T = {}
               PROVE  FALSE
    OBVIOUS
  <2>1. Cardinality(T) = 0
    BY FS_EmptySet
  <2> QED
    BY <2>1 DEF Fits
<1>12. Rest(items, n) = A
  BY <1>1 DEF Rest, ItemSet
<1>13. Reached2(n)
  <2> HIDE DEF Reached2, Kept
  <2>1. n \in 0..n
    BY <1>1
  <2> QED
    BY <1>10, <2>1
<1>14. NF(visit[n][{}][{}], T)
  <2> HIDE DEF NF
  <2>1. {} \in groups /\ {} \subseteq T /\ T \subseteq {} \cup Rest(items, n) /\ T \in groups
    BY <1>12
  <2> HIDE DEF groups
  <2> QED
    BY <1>11, <1>13, <2>1
<1> QED
  BY <1>2, <1>14

-----------------------------------------------------------------------------
(* The groups of the many-to-many search *)

LongerList(G, groups) == IF Cardinality(G) >= 2 THEN Append(groups, G) ELSE groups
Full(G) == Cardinality(G) >= MaxGroupSize \/ Cardinality(G) >= 6

\* One turn of the loop of buildGroups: f is what the rest of the loop does.
Gather(x, f, group, groups) ==
  IF Len(groups) >= MaxGroups THEN groups
  ELSE LET longer == group \cup {x}
           more == LongerList(longer, groups)
       IN f[group][IF Full(longer) THEN more ELSE f[longer][more]]

Walks(walk, items) ==
  LET n == Len(items)
      groups == SUBSET ItemSet(items)
  IN /\ walk \in [0..n -> [groups -> [Seq(groups) -> Seq(groups)]]]
     /\ \A G \in groups, list \in Seq(groups) : walk[0][G][list] = list
     /\ \A k \in 1..n : \A G \in groups, list \in Seq(groups) :
          walk[k][G][list] = Gather(items[n + 1 - k], walk[k - 1], G, list)

\* One item of the walk makes lists of lists.
LEMMA GatherType ==
  ASSUME NEW A, NEW groups, groups = SUBSET A, NEW f \in [groups -> [Seq(groups) -> Seq(groups)]],
         NEW x \in A, NEW group \in groups, NEW list \in Seq(groups)
  PROVE  Gather(x, f, group, list) \in Seq(groups)
<1> DEFINE longer == group \cup {x}
           more == LongerList(longer, list)
           next == IF Full(longer) THEN more ELSE f[longer][more]
<1>1. longer \in groups
  OBVIOUS
<1>2. more \in Seq(groups)
  BY <1>1 DEF LongerList
<1> HIDE DEF longer, more
<1>3. f[longer][more] \in Seq(groups)
  BY <1>1, <1>2
<1>4. next \in Seq(groups)
  BY <1>2, <1>3
<1> HIDE DEF next
<1>5. f[group][next] \in Seq(groups)
  BY <1>4
<1> QED
  BY <1>5 DEF Gather, next, more, longer

\* BuildGroups is the last of its walks.
LEMMA BuildWalks ==
  ASSUME NEW A, NEW items \in Seq(A)
  PROVE  \E walk : Walks(walk, items) /\ BuildGroups(items) = walk[Len(items)][{}][<< >>]
<1> DEFINE n == Len(items)
           groups == SUBSET ItemSet(items)
           lists == Seq(groups)
           X == [groups -> [lists -> lists]]
           zero == [group \in groups |-> [list \in lists |-> list]]
           turn(k, f) == [group \in groups |-> [list \in lists |->
                            Gather(items[n + 1 - k], f, group, list)]]
           step == [k \in 1..n |-> [f \in X |-> turn(k, f)]]
           F(f) == [k \in 0..n |-> [group \in groups |-> [list \in lists |->
                      IF k = 0 \/ Len(list) >= MaxGroups THEN list
                      ELSE LET longer == group \cup {items[n + 1 - k]}
                               more == LongerList(longer, list)
                           IN f[k - 1][group][IF Full(longer) THEN more ELSE f[k - 1][longer][more]]]]]
           walk == CHOOSE f : f = F(f)
<1>1. n \in Nat
  OBVIOUS
<1>2. BuildGroups(items) = walk[n][{}][<< >>]
  BY DEF BuildGroups, LongerList, Full, ItemSet
<1>3. zero \in X
  OBVIOUS
<1>4. ASSUME NEW k \in 1..n, NEW f \in X
      PROVE  turn(k, f) \in X
  <2>1. items[n + 1 - k] \in ItemSet(items)
    BY <1>1 DEF ItemSet
  <2>2. \A group \in groups, list \in lists : Gather(items[n + 1 - k], f, group, list) \in lists
    BY <2>1, GatherType
  <2> HIDE DEF lists
  <2> QED
    BY <2>2
<1>5. \A k \in 1..n : \A f : F(f)[k] = turn(k, f[k - 1])
  <2> TAKE k \in 1..n
  <2> TAKE f
  <2>1. k \in 0..n /\ k # 0
    BY <1>1
  <2>2. F(f)[k] = [group \in groups |-> [list \in lists |->
                      IF Len(list) >= MaxGroups THEN list
                      ELSE LET longer == group \cup {items[n + 1 - k]}
                               more == LongerList(longer, list)
                           IN f[k - 1][group][IF Full(longer) THEN more ELSE f[k - 1][longer][more]]]]
    BY <2>1
  <2> QED
    BY <2>2 DEF Gather
<1>6. \A f : F(f)[0] = zero
  <2> TAKE f
  <2>1. 0 \in 0..n
    BY <1>1
  <2> QED
    BY <2>1
<1>7. \A f : F(f) = [k \in 0..n |-> F(f)[k]]
  OBVIOUS
<1> HIDE DEF turn, F, zero
<1>8. step \in [1..n -> [X -> X]]
  <2> HIDE DEF X
  <2> QED
    BY <1>4
<1>9. PICK g \in [0..n -> X] : Runs(g, zero, step, n)
  <2> HIDE DEF X, step
  <2> QED
    BY <1>1, <1>3, <1>8, RecursionExists
<1>10. g[0] = zero
  BY <1>9 DEF Runs
<1>11. ASSUME NEW k \in 1..n
       PROVE  g[k - 1] \in X /\ g[k] = turn(k, g[k - 1])
  <2>1. k - 1 \in 0..n
    BY <1>1
  <2>2. g[k - 1] \in X
    BY <2>1
  <2> HIDE DEF X
  <2>3. step[k][g[k - 1]] = turn(k, g[k - 1])
    BY <2>2
  <2> HIDE DEF step
  <2>4. g[k] = step[k][g[k - 1]]
    BY <1>9 DEF Runs
  <2> QED
    BY <2>2, <2>3, <2>4
<1> HIDE DEF step
<1>12. g = F(g)
  <2>1. ASSUME NEW k \in 0..n
        PROVE  g[k] = F(g)[k]
    <3>1. CASE k = 0
      BY <1>6, <1>10, <3>1
    <3>2. CASE k # 0
      <4>1. k \in 1..n
        BY <1>1, <3>2
      <4> QED
        BY <1>5, <1>11, <4>1
    <3> QED
      BY <3>1, <3>2
  <2>2. DOMAIN g = 0..n /\ g = [k \in 0..n |-> g[k]]
    OBVIOUS
  <2>3. F(g) = [k \in 0..n |-> F(g)[k]]
    BY <1>7
  <2>4. [k \in 0..n |-> F(g)[k]] = [k \in 0..n |-> g[k]]
    BY <2>1
  <2> QED
    BY <2>2, <2>3, <2>4
<1>13. walk = F(walk)
  BY <1>12
<1> HIDE DEF walk
<1>14. walk[0] = zero /\ \A k \in 1..n : walk[k] = turn(k, walk[k - 1])
  BY <1>5, <1>6, <1>13
<1>15. DOMAIN walk = 0..n
  <2>1. walk = [k \in 0..n |-> F(walk)[k]]
    BY <1>7, <1>13
  <2> QED
    BY <2>1
<1> DEFINE G == {k \in 0..n : walk[k] \in X}
<1>16. \A k \in 0..n : k \in G
  <2>1. 0 \in G
    <3> HIDE DEF X
    <3> QED
      BY <1>1, <1>3, <1>14
  <2>2. ASSUME NEW k \in 1..n, k - 1 \in G
        PROVE  k \in G
    <3> HIDE DEF X
    <3> QED
      BY <1>4, <1>14, <2>2
  <2> HIDE DEF G
  <2> QED
    BY <1>1, <2>1, <2>2, Upwards
<1>17. walk \in [0..n -> X]
  <2>1. walk = [k \in 0..n |-> F(walk)[k]]
    BY <1>7, <1>13
  <2>2. \A k \in 0..n : walk[k] \in X
    BY <1>16
  <2>3. walk = [k \in 0..n |-> walk[k]]
    BY <1>13, <2>1
  <2> HIDE DEF X
  <2> QED
    BY <2>2, <2>3
<1>18. \A group \in groups, list \in lists : walk[0][group][list] = list
  BY <1>14 DEF zero
<1>19. \A k \in 1..n : \A group \in groups, list \in lists :
         walk[k][group][list] = Gather(items[n + 1 - k], walk[k - 1], group, list)
  <2> TAKE k \in 1..n
  <2> TAKE group \in groups, list \in lists
  <2> HIDE DEF lists, groups
  <2>1. walk[k] = turn(k, walk[k - 1])
    BY <1>14
  <2> QED
    BY <2>1 DEF turn
<1>20. Walks(walk, items)
  BY <1>17, <1>18, <1>19 DEF Walks
<1> QED
  BY <1>2, <1>20

\* The groups are of two or more items.
LEMMA BuiltGroups ==
  ASSUME NEW A, NEW items \in Seq(A)
  PROVE  BuildGroups(items) \in Seq({T \in SUBSET A : Cardinality(T) >= 2})
<1> DEFINE n == Len(items)
           groups == SUBSET ItemSet(items)
           lists == Seq(groups)
           ok(list) == \A i \in DOMAIN list : Cardinality(list[i]) >= 2
<1>1. n \in Nat /\ ItemSet(items) \subseteq A
  BY ItemsFinite
<1>2. PICK walk : Walks(walk, items) /\ BuildGroups(items) = walk[n][{}][<< >>]
  BY BuildWalks
<1>3. walk \in [0..n -> [groups -> [lists -> lists]]]
  BY <1>2 DEF Walks
<1> DEFINE G == {k \in 0..n : \A group \in groups, list \in lists :
                    ok(list) => ok(walk[k][group][list])}
<1>4. 0 \in G
  <2>1. \A group \in groups, list \in lists : walk[0][group][list] = list
    BY <1>2 DEF Walks
  <2> HIDE DEF lists, ok
  <2> QED
    BY <1>1, <2>1
<1>5. ASSUME NEW k \in 1..n, k - 1 \in G
      PROVE  k \in G
  <2> SUFFICES ASSUME NEW group \in groups, NEW list \in lists, ok(list)
               PROVE  ok(walk[k][group][list])
    OBVIOUS
  <2> DEFINE x == items[n + 1 - k]
             f == walk[k - 1]
             longer == group \cup {x}
             more == LongerList(longer, list)
             next == IF Full(longer) THEN more ELSE f[longer][more]
  <2>1. walk[k][group][list] = IF Len(list) >= MaxGroups THEN list ELSE f[group][next]
    <3>1. walk[k][group][list] = Gather(x, f, group, list)
      BY <1>2 DEF Walks
    <3> QED
      BY <3>1 DEF Gather
  <2>2. x \in ItemSet(items) /\ longer \in groups
    BY <1>1 DEF ItemSet
  <2>3. f \in [groups -> [lists -> lists]]
    <3>1. k - 1 \in 0..n
      BY <1>1
    <3> QED
      BY <1>3, <3>1
  <2> HIDE DEF x, f
  <2>4. more \in lists /\ ok(more)
    <3>1. CASE Cardinality(longer) >= 2
      <4>1. more = Append(list, longer)
        BY <3>1 DEF LongerList
      <4> HIDE DEF longer, more
      <4>2. Append(list, longer) \in lists /\ ok(Append(list, longer))
        BY <2>2, <3>1
      <4> QED
        BY <4>1, <4>2
    <3>2. CASE ~(Cardinality(longer) >= 2)
      BY <3>2 DEF LongerList
    <3> QED
      BY <3>1, <3>2
  <2> HIDE DEF more, longer, ok
  <2>5. \A g \in groups, c \in lists : ok(c) => ok(f[g][c])
    BY <1>5 DEF f
  <2> HIDE DEF lists, groups
  <2>6. next \in lists /\ ok(next)
    BY <2>2, <2>3, <2>4, <2>5
  <2> HIDE DEF next
  <2> QED
    BY <2>1, <2>5, <2>6
<1>6. \A k \in 0..n : k \in G
  <2> HIDE DEF G
  <2> QED
    BY <1>1, <1>4, <1>5, Upwards
<1>7. {} \in groups /\ << >> \in lists /\ ok(<< >>)
  OBVIOUS
<1>8. walk[n][{}][<< >>] \in lists /\ ok(walk[n][{}][<< >>])
  <2>1. n \in 0..n
    BY <1>1
  <2>2. ok(walk[n][{}][<< >>])
    <3> HIDE DEF ok, lists, groups
    <3> QED
      BY <1>6, <1>7, <2>1
  <2>3. walk[n] \in [groups -> [lists -> lists]]
    BY <1>3, <2>1
  <2> HIDE DEF lists, groups, ok
  <2> QED
    BY <1>7, <2>2, <2>3
<1> HIDE DEF G
<1> QED
  BY <1>1, <1>2, <1>8

-----------------------------------------------------------------------------
(* Batches and listings *)

\* The parts of a batch.
LEMMA BatchTypes ==
  ASSUME batch \in BatchRecord
  PROVE  /\ Len(batch.payments) \in Nat /\ Payments = 1..Len(batch.payments)
         /\ Len(batch.settlements) \in Nat /\ SettlementIds = 1..Len(batch.settlements)
         /\ Len(batch.bank) \in Nat /\ DOMAIN batch.bank = 1..Len(batch.bank)
         /\ Credits \subseteq 1..Len(batch.bank)
         /\ SettlementAmount \in [1..Len(batch.settlements) -> Int]
         /\ BankAmount \in [1..Len(batch.bank) -> Int]
         /\ NetAmount \in [1..Len(batch.payments) -> Int]
         /\ \A p \in Payments : batch.payments[p] \in PaymentRecord
         /\ \A s \in SettlementIds : batch.settlements[s] \in SettlementRecord
         /\ \A b \in DOMAIN batch.bank : batch.bank[b] \in BankRecord
<1>1. /\ batch.payments \in Seq(PaymentRecord) /\ batch.settlements \in Seq(SettlementRecord)
      /\ batch.bank \in Seq(BankRecord)
  BY DEF BatchRecord
<1>2. /\ Len(batch.payments) \in Nat /\ Payments = 1..Len(batch.payments)
      /\ \A p \in Payments : batch.payments[p] \in PaymentRecord
  BY <1>1 DEF Payments
<1>3. /\ Len(batch.settlements) \in Nat /\ SettlementIds = 1..Len(batch.settlements)
      /\ \A s \in SettlementIds : batch.settlements[s] \in SettlementRecord
  BY <1>1 DEF SettlementIds
<1>4. /\ Len(batch.bank) \in Nat /\ DOMAIN batch.bank = 1..Len(batch.bank)
      /\ \A b \in DOMAIN batch.bank : batch.bank[b] \in BankRecord
  BY <1>1
<1>5. Credits \subseteq 1..Len(batch.bank)
  BY <1>4 DEF Credits
<1>6. SettlementAmount \in [1..Len(batch.settlements) -> Int]
  BY <1>3 DEF SettlementAmount, SettlementRecord
<1>7. BankAmount \in [1..Len(batch.bank) -> Int]
  BY <1>4 DEF BankAmount, BankRecord
<1>8. NetAmount \in [1..Len(batch.payments) -> Int]
  BY <1>2 DEF NetAmount, PaymentRecord
<1> QED
  BY <1>2, <1>3, <1>4, <1>5, <1>6, <1>7, <1>8

\* Refunds and chargebacks add up to integers.
LEMMA AdjustmentTypes ==
  ASSUME NEW adjustments \in Seq(AdjustmentRecord)
  PROVE  /\ Len(adjustments) \in Nat /\ DOMAIN adjustments = 1..Len(adjustments)
         /\ AmountsOf(adjustments) \in [1..Len(adjustments) -> Int]
         /\ \A p : AdjustmentOf(adjustments, p) \in Int
<1>1. Len(adjustments) \in Nat /\ DOMAIN adjustments = 1..Len(adjustments)
  OBVIOUS
<1>2. AmountsOf(adjustments) \in [1..Len(adjustments) -> Int]
  <2>1. \A a \in 1..Len(adjustments) : adjustments[a] \in AdjustmentRecord
    BY <1>1
  <2>2. \A a \in 1..Len(adjustments) : adjustments[a].amount \in Int
    BY <2>1 DEF AdjustmentRecord
  <2> QED
    BY <1>1, <2>2 DEF AmountsOf
<1>3. \A p : AdjustmentOf(adjustments, p) \in Int
  BY <1>1, <1>2, TotalType DEF AdjustmentOf
<1> QED
  BY <1>1, <1>2, <1>3

\* So do settlements, credits and what a payment should bring.
LEMMA Money ==
  ASSUME batch \in BatchRecord
  PROVE  /\ \A S : Total(SettlementAmount, S) \in Int /\ Total(BankAmount, S) \in Int
         /\ \A p : RefundOf(p) \in Int /\ ChargebackOf(p) \in Int
         /\ \A p \in Payments : ExpectedNet(p) \in Int
<1>1. \A S : Total(SettlementAmount, S) \in Int /\ Total(BankAmount, S) \in Int
  BY BatchTypes, TotalType
<1>2. \A p : RefundOf(p) \in Int /\ ChargebackOf(p) \in Int
  <2>1. batch.refunds \in Seq(AdjustmentRecord) /\ batch.chargebacks \in Seq(AdjustmentRecord)
    BY DEF BatchRecord
  <2> QED
    BY <2>1, AdjustmentTypes DEF RefundOf, ChargebackOf
<1>3. \A p \in Payments : ExpectedNet(p) \in Int
  <2>1. \A p \in Payments : batch.payments[p].net \in Int
    BY BatchTypes DEF PaymentRecord
  <2> QED
    BY <1>2, <2>1 DEF ExpectedNet
<1> QED
  BY <1>1, <1>2, <1>3

\* A listing of a set without repetition, cut to the limit on candidates.
LEMMA FirstOfFacts ==
  ASSUME scale \in BOOLEAN, NEW S, IsFiniteSet(S), NEW seq \in [1..Cardinality(S) -> S],
         \A j, k \in 1..Cardinality(S) : j < k => seq[j] # seq[k]
  PROVE  /\ FirstOf(seq) \in Seq(S)
         /\ Cardinality(S) <= CandidateLimit => ItemSet(FirstOf(seq)) = S
<1> DEFINE n == Cardinality(S)
           m == IF n < CandidateLimit THEN n ELSE CandidateLimit
<1>1. n \in Nat
  BY FS_CardinalityType
<1>2. CandidateLimit \in Nat
  BY MatchingAssumption DEF CandidateLimit, Larger
<1>3. seq \in Seq(S) /\ Len(seq) = n
  BY <1>1, FunctionLength
<1>4. m \in 0..n
  BY <1>1, <1>2
<1>5. FirstOf(seq) = SubSeq(seq, 1, m)
  BY <1>3 DEF FirstOf
<1> HIDE DEF m, n
<1>6. FirstOf(seq) \in Seq(S) /\ Len(FirstOf(seq)) = m /\ \A i \in 1..m : FirstOf(seq)[i] = seq[i]
  <2>1. \A i \in 1..m : seq[i] \in S
    BY <1>1, <1>4 DEF n
  <2>2. 1 \in Int /\ m \in Int
    BY <1>4
  <2>3. /\ SubSeq(seq, 1, m) \in Seq(S)
        /\ Len(SubSeq(seq, 1, m)) = IF 1 <= m THEN m - 1 + 1 ELSE 0
        /\ \A i \in 1..(m - 1 + 1) : SubSeq(seq, 1, m)[i] = seq[1 + i - 1]
    BY <2>1, <2>2, SubSeqProperties
  <2> QED
    BY <1>4, <1>5, <2>3
<1>7. ASSUME n <= CandidateLimit
      PROVE  ItemSet(FirstOf(seq)) = S
  <2>1. m = n
    BY <1>1, <1>2, <1>7 DEF m
  <2>2. \A a \in S : \E k \in 1..n : seq[k] = a
    BY ListsAll DEF n
  <2>3. \A i \in 1..n : seq[i] \in S
    BY DEF n
  <2> QED
    BY <1>6, <2>1, <2>2, <2>3 DEF ItemSet
<1> QED
  BY <1>6, <1>7 DEF n

\* A set can be listed by identifier.
LEMMA ByIdFacts ==
  ASSUME scale \in BOOLEAN, NEW S \in SUBSET Nat, IsFiniteSet(S)
  PROVE  ById(S) \in Seq(S)
<1> DEFINE n == Cardinality(S)
           R == {x \in S \X S : x[1] < x[2]}
           Listing(s) == \A j, k \in DOMAIN s : j < k => s[j] < s[k]
           seq == CHOOSE s \in [1..n -> S] : Listing(s)
<1>1. \A a, b \in S : <<a, b>> \in R <=> a < b
  OBVIOUS
<1>2. Orders(R, S)
  <2> HIDE DEF R
  <2>1. \A a \in S : a \in Nat
    OBVIOUS
  <2> QED
    BY <1>1, <2>1 DEF Orders
<1> HIDE DEF R
<1>3. \E s \in [1..n -> S] : Listing(s)
  <2>1. PICK s \in [1..n -> S] : \A j, k \in 1..n : j < k => <<s[j], s[k]>> \in R
    BY <1>2, OrderedListing
  <2>2. Listing(s)
    BY <1>1, <2>1
  <2> HIDE DEF Listing
  <2> QED
    BY <2>2
<1>4. seq \in [1..n -> S] /\ Listing(seq)
  <2> HIDE DEF Listing
  <2> QED
    BY <1>3
<1>5. ById(S) = FirstOf(seq)
  BY DEF ById
<1> HIDE DEF seq
<1>6. ASSUME NEW j \in 1..n, NEW k \in 1..n, j < k
      PROVE  seq[j] # seq[k]
  <2>1. seq[j] < seq[k] /\ seq[j] \in Nat /\ seq[k] \in Nat
    BY <1>4, <1>6
  <2> QED
    BY <2>1
<1> HIDE DEF Listing
<1> QED
  BY <1>4, <1>5, <1>6, FirstOfFacts

\* And by distance from a target, then by identifier, without loss unless it is cut.
LEMMA ByDistanceFacts ==
  ASSUME scale \in BOOLEAN, NEW m \in Nat, NEW amount \in [1..m -> Int], NEW target \in Int,
         NEW S \in SUBSET (1..m)
  PROVE  /\ ByDistance(S, amount, target) \in Seq(S)
         /\ Cardinality(S) <= CandidateLimit => ItemSet(ByDistance(S, amount, target)) = S
<1> DEFINE n == Cardinality(S)
           before(a, b) == \/ Distance(amount[a], target) < Distance(amount[b], target)
                           \/ /\ Distance(amount[a], target) = Distance(amount[b], target)
                              /\ a < b
           R == {x \in S \X S : before(x[1], x[2])}
           Listing(s) == \A j, k \in DOMAIN s : j < k => before(s[j], s[k])
           seq == CHOOSE s \in [1..n -> S] : Listing(s)
<1>0. IsFiniteSet(S)
  <2>1. IsFiniteSet(1..m)
    BY FS_Interval
  <2> QED
    BY <2>1, FS_Subset
<1>1. \A a, b \in S : <<a, b>> \in R <=> before(a, b)
  OBVIOUS
<1>2. \A a \in S : a \in Nat /\ Distance(amount[a], target) \in Int
  BY DEF Distance
<1>3. Orders(R, S)
  <2> HIDE DEF R
  <2>1. \A a, b \in S : before(a, b) \/ before(b, a) \/ a = b
    BY <1>2
  <2>2. \A a \in S : ~before(a, a)
    BY <1>2
  <2>3. \A a, b, c \in S : before(a, b) /\ before(b, c) => before(a, c)
    BY <1>2
  <2> HIDE DEF before
  <2> QED
    BY <1>1, <2>1, <2>2, <2>3 DEF Orders
<1> HIDE DEF R
<1>4. \E s \in [1..n -> S] : Listing(s)
  <2>1. PICK s \in [1..n -> S] : \A j, k \in 1..n : j < k => <<s[j], s[k]>> \in R
    BY <1>0, <1>3, OrderedListing
  <2>2. Listing(s)
    <3> HIDE DEF before
    <3> QED
      BY <1>1, <2>1
  <2> HIDE DEF Listing
  <2> QED
    BY <2>2
<1>5. seq \in [1..n -> S] /\ Listing(seq)
  <2> HIDE DEF Listing
  <2> QED
    BY <1>4
<1>6. ByDistance(S, amount, target) = FirstOf(seq)
  BY DEF ByDistance
<1> HIDE DEF seq
<1>7. ASSUME NEW j \in 1..n, NEW k \in 1..n, j < k
      PROVE  seq[j] # seq[k]
  <2>1. before(seq[j], seq[k])
    BY <1>5, <1>7
  <2>2. seq[j] \in Nat /\ Distance(amount[seq[j]], target) \in Int
    BY <1>2, <1>5
  <2> QED
    BY <2>1, <2>2
<1> HIDE DEF Listing
<1> QED
  BY <1>0, <1>5, <1>6, <1>7, FirstOfFacts

\* The group found is one of S that fits, and no other is better if no candidate was cut.
LEMMA GroupFits ==
  ASSUME scale \in BOOLEAN, NEW m \in Nat, NEW amount \in [1..m -> Int], NEW target \in Int,
         NEW S \in SUBSET (1..m)
  PROVE  /\ BestGroup(S, amount, target) \subseteq S
         /\ \/ BestGroup(S, amount, target) = {}
            \/ Fits(amount, target, BestGroup(S, amount, target))
<1> DEFINE items == ByDistance(S, amount, target)
<1>1. items \in Seq(S)
  BY ByDistanceFacts
<1>2. MaxGroupSize \in Nat \ {0}
  BY MatchingAssumption
<1> QED
  BY <1>1, <1>2, SearchFits DEF BestGroup

\* The group found is the best there is, if nothing was cut and no amount is negative.
LEMMA GroupIsBest ==
  ASSUME scale \in BOOLEAN, NEW m \in Nat, NEW amount \in [1..m -> Nat], NEW target \in Int,
         NEW S \in SUBSET (1..m), Cardinality(S) <= CandidateLimit
  PROVE  IsBestGroup(BestGroup(S, amount, target), S, amount, target)
<1> DEFINE items == ByDistance(S, amount, target)
           group == BestGroup(S, amount, target)
           groups == {G \in SUBSET S : Fits(amount, target, G)}
<1>0. amount \in [1..m -> Int]
  OBVIOUS
<1>1. items \in Seq(S) /\ ItemSet(items) = S
  BY <1>0, ByDistanceFacts
<1>2. items \in Seq(1..m)
  <2> HIDE DEF items
  <2>1. Seq(S) \subseteq Seq(1..m)
    BY SeqMonotonic
  <2> QED
    BY <1>1, <2>1
<1>3. MaxGroupSize \in Nat \ {0}
  BY MatchingAssumption
<1>4. \A T \in groups : NoFurther(amount, target, group, T)
  BY <1>1, <1>2, <1>3, SearchLosesNone DEF BestGroup
<1>5. group \subseteq S /\ (group = {} \/ Fits(amount, target, group))
  BY <1>0, GroupFits
<1> HIDE DEF group
<1>6. groups = {G \in SUBSET S : /\ Cardinality(G) \in 2..MaxGroupSize
                                 /\ Distance(Total(amount, G), target) <= TolerancePaise}
  BY DEF Fits, Apart
<1> HIDE DEF groups
<1>7. groups # {} => group # {}
  BY <1>4 DEF NoFurther
<1>8. group # {} => group \in groups
  BY <1>5 DEF groups
<1> QED
  BY <1>4, <1>6, <1>7, <1>8 DEF IsBestGroup, NoFurther, Apart, group

-----------------------------------------------------------------------------
(* The relationships the searches return *)

\* The sum over one place.
LEMMA TotalOne ==
  ASSUME NEW n \in Nat, NEW amount \in [1..n -> Int], NEW i \in 1..n
  PROVE  Total(amount, {i}) = amount[i]
<1>1. PICK g \in [0..n -> Int] : Partial(g, amount, {i}, n) /\ Total(amount, {i}) = g[n]
  BY TotalIsLast
<1> DEFINE G == {k \in 0..n : g[k] = IF k < i THEN 0 ELSE amount[i]}
<1>2. 0 \in G
  BY <1>1 DEF Partial
<1>3. ASSUME NEW k \in 1..n, k - 1 \in G
      PROVE  k \in G
  <2>1. g[k] = g[k - 1] + Part(amount, {i}, k)
    BY <1>1 DEF Partial
  <2>2. g[k - 1] = IF k - 1 < i THEN 0 ELSE amount[i]
    BY <1>3
  <2>3. Part(amount, {i}, k) = IF k = i THEN amount[i] ELSE 0
    BY DEF Part
  <2>4. amount[i] \in Int
    OBVIOUS
  <2> QED
    BY <2>1, <2>2, <2>3, <2>4
<1>4. \A k \in 0..n : k \in G
  <2> HIDE DEF G
  <2> QED
    BY <1>2, <1>3, Upwards
<1> QED
  BY <1>1, <1>4

\* A set of naturals has a least member.
LEMMA LowestExists ==
  ASSUME NEW S \in SUBSET Nat, S # {}
  PROVE  \E b \in S : \A m \in S : b <= m
<1>1. PICK b \in S : \A m \in S : ~(<<m, b>> \in OpToRel(<, Nat))
  BY NatLessThanWellFounded, WFMin
<1>2. ASSUME NEW m \in S PROVE b <= m
  <2>1. ~(<<m, b>> \in OpToRel(<, Nat)) /\ m \in Nat /\ b \in Nat
    BY <1>1
  <2> QED
    BY <2>1 DEF OpToRel
<1> QED
  BY <1>2

\* So Min picks it,
LEMMA MinFacts ==
  ASSUME NEW S \in SUBSET Nat, S # {}
  PROVE  Min(S) \in S /\ \A m \in S : Min(S) <= m
BY LowestExists DEF Min

\* and Max the greatest of a bounded set.
LEMMA MaxFacts ==
  ASSUME NEW n \in Nat, NEW S \in SUBSET (0..n), S # {}
  PROVE  Max(S) \in S /\ \A m \in S : m <= Max(S)
<1> DEFINE T == {n - m : m \in S}
<1>1. T \in SUBSET Nat /\ T # {}
  <2>1. \A m \in S : m \in Int /\ m <= n
    OBVIOUS
  <2>2. \A m \in S : n - m \in Nat
    BY <2>1
  <2> QED
    BY <2>2
<1>2. PICK b \in T : \A m \in T : b <= m
  BY <1>1, LowestExists
<1>3. PICK h \in S : b = n - h
  OBVIOUS
<1>4. \A m \in S : h >= m
  BY <1>2, <1>3
<1> HIDE DEF T
<1> QED
  BY <1>4 DEF Max

\* Something is smallest by a bounded measure.
LEMMA LeastExists ==
  ASSUME NEW S, S # {}, NEW f, NEW low \in Int, \A p \in S : f[p] \in Int /\ low <= f[p]
  PROVE  Least(f, S) # {} /\ Least(f, S) \subseteq S
<1> DEFINE T == {f[p] - low : p \in S}
<1>1. T \in SUBSET Nat /\ T # {}
  OBVIOUS
<1>2. PICK b \in T : \A m \in T : b <= m
  BY <1>1, LowestExists
<1>3. PICK p \in S : b = f[p] - low
  OBVIOUS
<1>4. \A q \in S : f[p] <= f[q]
  <2>1. ASSUME NEW q \in S PROVE f[p] <= f[q]
    <3>1. f[q] - low \in T
      OBVIOUS
    <3>2. b <= f[q] - low
      BY <1>2, <3>1
    <3> QED
      BY <1>3, <3>2
  <2> QED
    BY <2>1
<1> QED
  BY <1>4 DEF Least

Kinds == {"1:1", "N:1", "1:N", "N:M"}
RelRecord == [type : Kinds, settlements : SUBSET SettlementIds, banks : SUBSET Credits,
              score : 0..100]

\* A relationship of settlements of S with credits of B of about the same sum.
Relates(rel, S, B) ==
  /\ rel \in RelRecord
  /\ rel.settlements \subseteq S /\ rel.settlements # {}
  /\ rel.banks \subseteq B /\ rel.banks # {}
  /\ Distance(Total(SettlementAmount, rel.settlements), Total(BankAmount, rel.banks))
       <= TolerancePaise
  /\ rel.type = "1:1" => \A s \in rel.settlements, b \in rel.banks :
                            /\ batch.settlements[s].utr = batch.bank[b].utr
                            /\ batch.bank[b].utr # 0

RelatesFound(found, S, B) == found = {} \/ \E rel : found = {rel} /\ Relates(rel, S, B)

\* Two groups within the tolerance of each other make a relationship.
LEMMA ScoredRelates ==
  ASSUME batch \in BatchRecord, NEW S \in SUBSET SettlementIds, NEW B \in SUBSET Credits,
         NEW type \in Kinds \ {"1:1"}, NEW G \in SUBSET S, G # {}, NEW H \in SUBSET B, H # {},
         Distance(Total(SettlementAmount, G), Total(BankAmount, H)) <= TolerancePaise,
         NEW x \in 0..100, NEW y \in 0..100
  PROVE  Relates(Scored(type, G, H, x, y), S, B)
<1> DEFINE z == IF Total(SettlementAmount, G) = Total(BankAmount, H) THEN x ELSE y
           rel == [type |-> type, settlements |-> G, banks |-> H, score |-> z]
<1>1. Scored(type, G, H, x, y) = rel
  BY DEF Scored, Relationship
<1>2. z \in 0..100
  OBVIOUS
<1>3. type \in Kinds /\ type # "1:1"
  OBVIOUS
<1> HIDE DEF z
<1>4. rel \in RelRecord
  <2>1. G \in SUBSET SettlementIds /\ H \in SUBSET Credits
    OBVIOUS
  <2> QED
    BY <1>2, <1>3, <2>1 DEF RelRecord
<1>5. rel.type = type /\ rel.settlements = G /\ rel.banks = H
  OBVIOUS
<1> HIDE DEF rel
<1> QED
  BY <1>1, <1>3, <1>4, <1>5 DEF Relates

\* findSettlementGroupForBank returns nothing or a relationship of its arguments,
LEMMA NToOneRelates ==
  ASSUME batch \in BatchRecord, scale \in BOOLEAN, NEW S \in SUBSET SettlementIds,
         NEW B \in SUBSET Credits, NEW b \in B
  PROVE  RelatesFound(NToOne(S, b), S, B)
<1> DEFINE near == SettlementsNear(S, b)
           group == BestGroup(near, SettlementAmount, BankAmount[b])
           m == Len(batch.settlements)
<1>1. /\ m \in Nat /\ SettlementAmount \in [1..m -> Int] /\ near \in SUBSET (1..m)
      /\ near \subseteq S /\ BankAmount[b] \in Int
  BY BatchTypes DEF SettlementsNear
<1>2. group \subseteq near /\ (group = {} \/ Fits(SettlementAmount, BankAmount[b], group))
  <2> HIDE DEF near, m
  <2> QED
    BY <1>1, GroupFits
<1>3. Total(BankAmount, {b}) = BankAmount[b]
  BY BatchTypes, TotalOne
<1>4. NToOne(S, b) = IF group = {} THEN {} ELSE {Scored("N:1", group, {b}, 96, 90)}
  BY DEF NToOne
<1> HIDE DEF group, near
<1>5. ASSUME group # {}
      PROVE  Relates(Scored("N:1", group, {b}, 96, 90), S, B)
  <2>1. Distance(Total(SettlementAmount, group), Total(BankAmount, {b})) <= TolerancePaise
    BY <1>2, <1>3, <1>5 DEF Fits, Apart
  <2>2. group \in SUBSET S /\ {b} \in SUBSET B /\ 96 \in 0..100 /\ 90 \in 0..100
    BY <1>1, <1>2
  <2>3. "N:1" \in Kinds \ {"1:1"}
    BY DEF Kinds
  <2> QED
    BY <1>5, <2>1, <2>2, <2>3, ScoredRelates
<1> QED
  BY <1>4, <1>5 DEF RelatesFound

\* findBankGroupForSettlement too,
LEMMA OneToNRelates ==
  ASSUME batch \in BatchRecord, scale \in BOOLEAN, NEW S \in SUBSET SettlementIds,
         NEW B \in SUBSET Credits, NEW s \in S
  PROVE  RelatesFound(OneToN(s, B), S, B)
<1> DEFINE near == CreditsNear(B, s)
           group == BestGroup(near, BankAmount, SettlementAmount[s])
           m == Len(batch.bank)
<1>1. /\ m \in Nat /\ BankAmount \in [1..m -> Int] /\ near \in SUBSET (1..m)
      /\ near \subseteq B /\ SettlementAmount[s] \in Int
  BY BatchTypes DEF CreditsNear
<1>2. group \subseteq near /\ (group = {} \/ Fits(BankAmount, SettlementAmount[s], group))
  <2> HIDE DEF near, m
  <2> QED
    BY <1>1, GroupFits
<1>3. Total(SettlementAmount, {s}) = SettlementAmount[s]
  BY BatchTypes, TotalOne
<1>4. OneToN(s, B) = IF group = {} THEN {} ELSE {Scored("1:N", {s}, group, 96, 90)}
  BY DEF OneToN
<1> HIDE DEF group, near
<1>5. ASSUME group # {}
      PROVE  Relates(Scored("1:N", {s}, group, 96, 90), S, B)
  <2>1. Distance(Total(SettlementAmount, {s}), Total(BankAmount, group)) <= TolerancePaise
    <3>1. Distance(Total(BankAmount, group), SettlementAmount[s]) <= TolerancePaise
      BY <1>2, <1>5 DEF Fits, Apart
    <3>2. Total(BankAmount, group) \in Int
      BY Money
    <3> QED
      BY <1>1, <1>3, <3>1, <3>2 DEF Distance
  <2>2. group \in SUBSET B /\ {s} \in SUBSET S /\ 96 \in 0..100 /\ 90 \in 0..100
    BY <1>1, <1>2
  <2>3. "1:N" \in Kinds \ {"1:1"}
    BY DEF Kinds
  <2> QED
    BY <1>5, <2>1, <2>2, <2>3, ScoredRelates
<1> QED
  BY <1>4, <1>5 DEF RelatesFound

\* Settlements and credits are finitely many.
LEMMA IdsFinite ==
  ASSUME batch \in BatchRecord, NEW S \in SUBSET SettlementIds, NEW B \in SUBSET Credits
  PROVE  IsFiniteSet(S) /\ IsFiniteSet(B) /\ S \in SUBSET Nat /\ B \in SUBSET Nat
<1> DEFINE m == Len(batch.settlements)
           n == Len(batch.bank)
<1>1. S \subseteq 1..m /\ B \subseteq 1..n /\ m \in Nat /\ n \in Nat
  BY BatchTypes
<1> HIDE DEF m, n
<1>2. IsFiniteSet(1..m) /\ IsFiniteSet(1..n)
  <2>1. 1 \in Int /\ m \in Int /\ n \in Int
    BY <1>1
  <2> QED
    BY <2>1, FS_Interval
<1>3. IsFiniteSet(S) /\ IsFiniteSet(B)
  BY <1>1, <1>2, FS_Subset
<1> QED
  BY <1>1, <1>3

\* findManyToManyMatch too,
LEMMA ManyRelates ==
  ASSUME batch \in BatchRecord, scale \in BOOLEAN, NEW S \in SUBSET SettlementIds,
         NEW B \in SUBSET Credits
  PROVE  RelatesFound(NToM(S, B), S, B)
<1> DEFINE G == BuildGroups(ById(S))
           H == BuildGroups(ById(B))
           sumG == [i \in DOMAIN G |-> Total(SettlementAmount, G[i])]
           sumH == [j \in DOMAIN H |-> Total(BankAmount, H[j])]
           apart(p) == Distance(sumG[p[1]], sumH[p[2]])
           pairs == {p \in (DOMAIN G) \X (DOMAIN H) : apart(p) <= TolerancePaise}
           f1 == [p \in pairs |-> apart(p)]
           closest == Least(f1, pairs)
           f2 == [p \in pairs |-> Cardinality(G[p[1]]) + Cardinality(H[p[2]])]
           smallest == Least(f2, closest)
           f3 == [p \in pairs |-> p[1]]
           ordered == Least(f3, smallest)
           f4 == [p \in pairs |-> sumH[p[2]]]
           first == Least(f4, ordered)
           f5 == [p \in pairs |-> p[2]]
           nearest == CHOOSE p \in Least(f5, first) : TRUE
           scored == Scored("N:M", G[nearest[1]], H[nearest[2]], 94, 88)
<1>1. NToM(S, B) = IF pairs = {} THEN {} ELSE {scored}
  BY DEF NToM
<1>2. IsFiniteSet(S) /\ IsFiniteSet(B) /\ S \in SUBSET Nat /\ B \in SUBSET Nat
  BY IdsFinite
<1>3. /\ G \in Seq({T \in SUBSET S : Cardinality(T) >= 2})
      /\ H \in Seq({T \in SUBSET B : Cardinality(T) >= 2})
  BY <1>2, ByIdFacts, BuiltGroups
<1> HIDE DEF G, H
<1>4. /\ \A i \in DOMAIN G : i \in Nat /\ G[i] \in SUBSET S /\ Cardinality(G[i]) >= 2
      /\ \A j \in DOMAIN H : j \in Nat /\ H[j] \in SUBSET B /\ Cardinality(H[j]) >= 2
  BY <1>3
<1>5. /\ \A i \in DOMAIN G : sumG[i] \in Int /\ Cardinality(G[i]) \in Nat
      /\ \A j \in DOMAIN H : sumH[j] \in Int /\ Cardinality(H[j]) \in Nat
  <2>1. ASSUME NEW i \in DOMAIN G PROVE sumG[i] \in Int /\ Cardinality(G[i]) \in Nat
    <3>1. IsFiniteSet(G[i])
      BY <1>2, <1>4, FS_Subset
    <3> QED
      BY <3>1, Money, FS_CardinalityType
  <2>2. ASSUME NEW j \in DOMAIN H PROVE sumH[j] \in Int /\ Cardinality(H[j]) \in Nat
    <3>1. IsFiniteSet(H[j])
      BY <1>2, <1>4, FS_Subset
    <3> QED
      BY <3>1, Money, FS_CardinalityType
  <2> QED
    BY <2>1, <2>2
<1>6. ASSUME NEW p \in pairs
      PROVE  /\ p[1] \in DOMAIN G /\ p[2] \in DOMAIN H /\ p[1] \in Nat /\ p[2] \in Nat
             /\ sumG[p[1]] \in Int /\ sumH[p[2]] \in Int
             /\ Cardinality(G[p[1]]) + Cardinality(H[p[2]]) \in Nat
             /\ apart(p) \in Nat /\ apart(p) <= TolerancePaise
  <2>1. p[1] \in DOMAIN G /\ p[2] \in DOMAIN H /\ apart(p) <= TolerancePaise
    OBVIOUS
  <2> HIDE DEF pairs, sumG, sumH
  <2>2. p[1] \in Nat /\ p[2] \in Nat /\ sumG[p[1]] \in Int /\ sumH[p[2]] \in Int
        /\ Cardinality(G[p[1]]) \in Nat /\ Cardinality(H[p[2]]) \in Nat
    BY <1>4, <1>5, <2>1
  <2>3. apart(p) \in Nat
    BY <2>2 DEF Distance
  <2> QED
    BY <2>1, <2>2, <2>3
<1>7. ASSUME pairs # {}
      PROVE  nearest \in pairs
  <2>1. closest # {} /\ closest \subseteq pairs
    <3>1. ASSUME NEW p \in pairs
          PROVE  f1[p] \in Int /\ 0 <= f1[p]
      <4>1. p \in pairs
        OBVIOUS
      <4>2. f1[p] = apart(p)
        BY <4>1
      <4>3. apart(p) \in Nat
        BY <1>6, <4>1
      <4> QED
        BY <4>2, <4>3
    <3> HIDE DEF f1, pairs
    <3> QED
      BY <1>7, <3>1, LeastExists, 0 \in Int
  <2>2. smallest # {} /\ smallest \subseteq closest
    <3>1. ASSUME NEW p \in closest
          PROVE  f2[p] \in Int /\ 0 <= f2[p]
      <4>1. p \in pairs
        BY <2>1
      <4>2. f2[p] = Cardinality(G[p[1]]) + Cardinality(H[p[2]])
        BY <4>1
      <4>3. Cardinality(G[p[1]]) + Cardinality(H[p[2]]) \in Nat
        BY <1>6, <4>1
      <4> QED
        BY <4>2, <4>3
    <3> HIDE DEF f2, closest
    <3> QED
      BY <2>1, <3>1, LeastExists, 0 \in Int
  <2>3. ordered # {} /\ ordered \subseteq smallest
    <3>1. ASSUME NEW p \in smallest
          PROVE  f3[p] \in Int /\ 0 <= f3[p]
      <4>1. p \in pairs
        BY <2>1, <2>2
      <4>2. f3[p] = p[1]
        BY <4>1
      <4>3. p[1] \in Nat
        BY <1>6, <4>1
      <4> QED
        BY <4>2, <4>3
    <3> HIDE DEF f3, smallest
    <3> QED
      BY <2>2, <3>1, LeastExists, 0 \in Int
  <2>4. ordered \subseteq pairs
    BY <2>1, <2>2, <2>3
  <2>5. first # {} /\ first \subseteq ordered
    <3>1. PICK o \in ordered : TRUE
      BY <2>3
    <3>2. \A p \in ordered : p[1] = o[1]
      <4>1. ASSUME NEW p \in ordered PROVE p[1] = o[1]
        <5>1. f3[p] <= f3[o] /\ f3[o] <= f3[p]
          <6> HIDE DEF f3, smallest
          <6> QED
            BY <2>3, <3>1 DEF Least
        <5>2. f3[p] = p[1] /\ f3[o] = o[1] /\ p[1] \in Nat /\ o[1] \in Nat
          <6>1. p \in pairs /\ o \in pairs
            BY <2>4
          <6> QED
            BY <1>6, <6>1
        <5> QED
          BY <5>1, <5>2
      <4> QED
        BY <4>1
    <3>3. \A p \in ordered : f4[p] \in Int /\ sumG[o[1]] - TolerancePaise <= f4[p]
      <4>1. ASSUME NEW p \in ordered
            PROVE  f4[p] \in Int /\ sumG[o[1]] - TolerancePaise <= f4[p]
        <5>1. p \in pairs
          BY <2>4
        <5>2. f4[p] = sumH[p[2]]
          BY <5>1
        <5>3. sumH[p[2]] \in Int /\ sumG[p[1]] \in Int /\ apart(p) <= TolerancePaise
          BY <1>6, <5>1
        <5>4. sumG[p[1]] = sumG[o[1]]
          BY <3>2
        <5> HIDE DEF sumG, sumH, f4
        <5> QED
          BY <5>2, <5>3, <5>4 DEF Distance, TolerancePaise
      <4> QED
        BY <4>1
    <3>4. sumG[o[1]] - TolerancePaise \in Int
      <4>1. sumG[o[1]] \in Int
        BY <1>6, <2>4
      <4> HIDE DEF sumG
      <4> QED
        BY <4>1 DEF TolerancePaise
    <3> HIDE DEF f4, ordered, sumG
    <3> QED
      BY <2>3, <3>3, <3>4, LeastExists
  <2>6. Least(f5, first) # {} /\ Least(f5, first) \subseteq first
    <3>1. ASSUME NEW p \in first
          PROVE  f5[p] \in Int /\ 0 <= f5[p]
      <4>1. p \in pairs
        BY <2>4, <2>5
      <4>2. f5[p] = p[2]
        BY <4>1
      <4>3. p[2] \in Nat
        BY <1>6, <4>1
      <4> QED
        BY <4>2, <4>3
    <3> HIDE DEF f5, first
    <3> QED
      BY <2>5, <3>1, LeastExists, 0 \in Int
  <2> HIDE DEF first, ordered, pairs, f5
  <2> QED
    BY <2>4, <2>5, <2>6
<1>8. ASSUME pairs # {}
      PROVE  Relates(scored, S, B)
  <2>1. nearest \in pairs
    BY <1>7, <1>8
  <2> HIDE DEF nearest
  <2>2. /\ nearest[1] \in DOMAIN G /\ nearest[2] \in DOMAIN H /\ apart(nearest) <= TolerancePaise
    BY <2>1
  <2>3. Distance(Total(SettlementAmount, G[nearest[1]]), Total(BankAmount, H[nearest[2]]))
          <= TolerancePaise
    BY <2>2
  <2>4. /\ G[nearest[1]] \in SUBSET S /\ Cardinality(G[nearest[1]]) >= 2
        /\ H[nearest[2]] \in SUBSET B /\ Cardinality(H[nearest[2]]) >= 2
    BY <1>4, <2>2
  <2>5. G[nearest[1]] # {} /\ H[nearest[2]] # {}
    BY <2>4, FS_EmptySet
  <2>6. 94 \in 0..100 /\ 88 \in 0..100
    OBVIOUS
  <2>7. "N:M" \in Kinds \ {"1:1"}
    BY DEF Kinds
  <2> QED
    BY <2>3, <2>4, <2>5, <2>6, <2>7, ScoredRelates
<1> HIDE DEF scored, pairs
<1> QED
  BY <1>1, <1>8 DEF RelatesFound

\* so does the bounded search of a small bucket,
LEMMA BoundedRelates ==
  ASSUME batch \in BatchRecord, scale \in BOOLEAN, NEW S \in SUBSET SettlementIds,
         NEW B \in SUBSET Credits
  PROVE  RelatesFound(Bounded(S, B), S, B)
<1> DEFINE credits == ById(B)
           settlements == ById(S)
           hitsB == {i \in DOMAIN credits : NToOne(S, credits[i]) # {}}
           hitsS == {i \in DOMAIN settlements : OneToN(settlements[i], B) # {}}
           aggregate == IF hitsB = {} THEN {} ELSE NToOne(S, credits[Min(hitsB)])
           split == IF hitsS = {} THEN {} ELSE OneToN(settlements[Min(hitsS)], B)
<1>1. Bounded(S, B) = IF aggregate # {} THEN aggregate
                      ELSE IF split # {} THEN split ELSE NToM(S, B)
  BY DEF Bounded, FirstMatch
<1>2. credits \in Seq(B) /\ settlements \in Seq(S)
  BY IdsFinite, ByIdFacts
<1> HIDE DEF credits, settlements
<1>3. ASSUME hitsB # {}
      PROVE  RelatesFound(NToOne(S, credits[Min(hitsB)]), S, B)
  <2>1. hitsB \in SUBSET Nat
    BY <1>2
  <2>2. Min(hitsB) \in DOMAIN credits
    <3>1. hitsB \subseteq DOMAIN credits
      OBVIOUS
    <3> HIDE DEF hitsB
    <3> QED
      BY <1>3, <2>1, <3>1, MinFacts
  <2>3. credits[Min(hitsB)] \in B
    BY <1>2, <2>2
  <2> QED
    BY <2>3, NToOneRelates
<1>4. ASSUME hitsS # {}
      PROVE  RelatesFound(OneToN(settlements[Min(hitsS)], B), S, B)
  <2>1. hitsS \in SUBSET Nat
    BY <1>2
  <2>2. Min(hitsS) \in DOMAIN settlements
    <3>1. hitsS \subseteq DOMAIN settlements
      OBVIOUS
    <3> HIDE DEF hitsS
    <3> QED
      BY <1>4, <2>1, <3>1, MinFacts
  <2>3. settlements[Min(hitsS)] \in S
    BY <1>2, <2>2
  <2> QED
    BY <2>3, OneToNRelates
<1>5. RelatesFound({}, S, B) /\ RelatesFound(NToM(S, B), S, B)
  BY ManyRelates DEF RelatesFound
<1> HIDE DEF hitsB, hitsS
<1>6. RelatesFound(aggregate, S, B) /\ RelatesFound(split, S, B)
  BY <1>3, <1>4, <1>5
<1> HIDE DEF aggregate, split
<1> QED
  BY <1>1, <1>5, <1>6

\* and resolvePartition.
LEMMA ResolvedRelates ==
  ASSUME batch \in BatchRecord, scale \in BOOLEAN, NEW S \in SUBSET SettlementIds,
         NEW B \in SUBSET Credits
  PROVE  RelatesFound(Resolved(S, B), S, B)
<1> DEFINE near == Distance(Total(SettlementAmount, S), Total(BankAmount, B)) <= TolerancePaise
           sharedUtr == \A s \in S, b \in B : /\ batch.settlements[s].utr = batch.bank[b].utr
                                              /\ batch.bank[b].utr # 0
           whole == Cardinality(B) = 1 /\ Cardinality(S) >= 2 /\ near
           pair == Cardinality(B) = 1 /\ Cardinality(S) = 1 /\ near /\ sharedUtr
           searched == IF Cardinality(S) + Cardinality(B) <= ClusterMaxItems
                       THEN Bounded(S, B) ELSE {}
<1>1. CASE whole
  <2>1. S # {} /\ B # {}
    BY <1>1, FS_EmptySet
  <2>2. 96 \in 0..100 /\ 90 \in 0..100 /\ "N:1" \in Kinds \ {"1:1"}
    BY DEF Kinds
  <2>3. Relates(Scored("N:1", S, B, 96, 90), S, B)
    BY <1>1, <2>1, <2>2, ScoredRelates
  <2>4. ~pair
    <3>1. IsFiniteSet(S)
      BY IdsFinite
    <3> QED
      BY <1>1, <3>1, FS_CardinalityType
  <2>5. Resolved(S, B) = {Scored("N:1", S, B, 96, 90)}
    BY <1>1, <2>4 DEF Resolved
  <2> QED
    BY <2>3, <2>5 DEF RelatesFound
<1>2. CASE pair /\ ~whole
  <2>1. S # {} /\ B # {}
    BY <1>2, FS_EmptySet
  <2> DEFINE rel == [type |-> "1:1", settlements |-> S, banks |-> B, score |-> 98]
  <2>2. rel \in RelRecord
    BY DEF RelRecord, Kinds
  <2>3. rel.settlements = S /\ rel.banks = B
    OBVIOUS
  <2>4. Resolved(S, B) = {rel}
    BY <1>2 DEF Resolved, Relationship
  <2> HIDE DEF rel
  <2>5. Relates(rel, S, B)
    BY <1>2, <2>1, <2>2, <2>3 DEF Relates
  <2> QED
    BY <2>4, <2>5 DEF RelatesFound
<1>3. CASE ~whole /\ ~pair
  <2>1. RelatesFound({}, S, B) /\ RelatesFound(Bounded(S, B), S, B)
    BY BoundedRelates DEF RelatesFound
  <2>2. Resolved(S, B) = searched
    BY <1>3 DEF Resolved
  <2> QED
    BY <2>1, <2>2
<1> QED
  BY <1>1, <1>2, <1>3

-----------------------------------------------------------------------------
(* The rows of the matcher *)

Statuses == {"PENDING_SETTLEMENT", "MISSING_BANK_CREDIT", "DUPLICATE_SETTLEMENT", "AUTO_MATCHED",
             "REFUND_MISMATCH", "CHARGEBACK_ADJUSTMENT", "AMOUNT_MISMATCH",
             "DELAYED_BANK_CREDIT", "NEEDS_MANUAL_REVIEW", "ORPHAN_BANK_CREDIT"}
RowRecord == [payment : Nat, settlements : SUBSET Nat, banks : SUBSET Credits, credited : Int,
              status : Statuses, score : 0..100, net : Int, type : Kinds]

\* What MatchedIsBacked says of a row.
Backed(row) ==
  row.status = "AUTO_MATCHED" =>
    \E s \in SettlementIds, b \in Credits :
      LET settlement == batch.settlements[s] IN
      /\ row.settlements = {s} /\ row.banks = {b}
      /\ Distance(row.net, settlement.amount) <= TolerancePaise
      /\ Distance(batch.bank[b].amount, settlement.amount) <= FuzzyTolerance(settlement.amount)
      /\ settlement.time # NoTime => batch.bank[b].time - settlement.time <= ExpectedHours

NamesByUtr(settlements, b) ==
  \E s \in settlements : batch.settlements[s].utr = batch.bank[b].utr /\ batch.bank[b].utr # 0

\* A score is a percentage.
LEMMA ConfidenceType ==
  ASSUME NEW signals, NEW delta
  PROVE  ComputeConfidence(signals, delta) \in 0..100
<1> DEFINE points(signal, weight) == IF signal \in signals THEN weight ELSE 0
           plus == points("utr", 40) + points("id", 25) + points("amount", 15)
                   + points("date", 10) + points("narration", 10) + points("single", 5)
           minus == points("multiple", -30) + points("noBank", -20) + points("noSettlement", -15)
                    + points("refund", -3) + points("chargeback", -8)
           score == points("utr", 40) + points("id", 25) + points("amount", 15)
                   + points("date", 10) + points("narration", 10) + points("single", 5)
                   + points("multiple", -30) + points("noBank", -20) + points("noSettlement", -15)
                    + points("refund", -3) + points("chargeback", -8) - DeltaPenalty(delta)
<1>1. DeltaPenalty(delta) \in Int
  BY DEF DeltaPenalty
<1>2. \A signal : \A weight \in Int : points(signal, weight) \in Int
  OBVIOUS
<1>3. score \in Int
  <2> HIDE DEF points
  <2> QED
    BY <1>1, <1>2
<1>4. ComputeConfidence(signals, delta) = Larger(0, IF score > 100 THEN 100 ELSE score)
  BY DEF ComputeConfidence
<1> HIDE DEF score
<1> QED
  BY <1>3, <1>4 DEF Larger

\* Without a credit the score stays below the threshold of a match.
LEMMA UnbackedScore ==
  ASSUME NEW signals, NEW delta, "utr" \notin signals, "date" \notin signals,
         "narration" \notin signals, "noBank" \in signals
  PROVE  ComputeConfidence(signals, delta) < 50
<1> DEFINE points(signal, weight) == IF signal \in signals THEN weight ELSE 0
           score == points("utr", 40) + points("id", 25) + points("amount", 15)
                   + points("date", 10) + points("narration", 10) + points("single", 5)
                   + points("multiple", -30) + points("noBank", -20) + points("noSettlement", -15)
                    + points("refund", -3) + points("chargeback", -8) - DeltaPenalty(delta)
<1>1. DeltaPenalty(delta) \in Nat
  BY DEF DeltaPenalty
<1>2. /\ points("utr", 40) = 0 /\ points("date", 10) = 0 /\ points("narration", 10) = 0
      /\ points("noBank", -20) = -20
  OBVIOUS
<1>3. /\ points("id", 25) \in 0..25 /\ points("amount", 15) \in 0..15
      /\ points("single", 5) \in 0..5 /\ points("multiple", -30) \in -30..0
      /\ points("noSettlement", -15) \in -15..0 /\ points("refund", -3) \in -3..0
      /\ points("chargeback", -8) \in -8..0
  OBVIOUS
<1>4. score \in Int /\ score < 50
  <2> HIDE DEF points
  <2> QED
    BY SMTT(30), <1>1, <1>2, <1>3
<1>5. ComputeConfidence(signals, delta) = Larger(0, IF score > 100 THEN 100 ELSE score)
  BY DEF ComputeConfidence
<1> HIDE DEF score
<1> QED
  BY <1>4, <1>5 DEF Larger

\* The credit of a settlement is that of its UTR or one nobody has claimed.
LEMMA CreditFound ==
  ASSUME batch \in BatchRecord, NEW s \in SettlementIds, BankOf(s) # 0
  PROVE  LET b == BankOf(s) IN
         /\ b \in Credits
         /\ \/ b = BankByUtr(batch.settlements[s].utr) /\ NamesByUtr({s}, b)
            \/ b # BankByUtr(batch.settlements[s].utr) /\ b \in FuzzyCandidates(s)
<1> DEFINE u == batch.settlements[s].utr
           same == {b \in Credits : u # 0 /\ batch.bank[b].utr = u}
           fuzzy == FuzzyCandidates(s)
           n == Len(batch.bank)
<1>1. n \in Nat /\ Credits \subseteq 0..n /\ 0 \notin Credits
  BY BatchTypes
<1>2. BankByUtr(u) = IF same = {} THEN 0 ELSE Max(same)
  BY DEF BankByUtr
<1>3. same \subseteq 0..n
  BY <1>1
<1>4. ASSUME BankByUtr(u) # 0
      PROVE  BankByUtr(u) \in Credits /\ NamesByUtr({s}, BankByUtr(u))
  <2>1. BankByUtr(u) \in same
    <3> HIDE DEF same, n
    <3> QED
      BY <1>1, <1>2, <1>3, <1>4, MaxFacts
  <2> QED
    BY <2>1 DEF NamesByUtr
<1>5. fuzzy \subseteq Credits
  BY DEF FuzzyCandidates, Unclaimed
<1>6. ASSUME BankByUtr(u) = 0, Cardinality(fuzzy) = 1
      PROVE  Max(fuzzy) \in fuzzy
  <2>1. fuzzy # {}
    BY <1>6, FS_EmptySet
  <2>2. fuzzy \subseteq 0..n
    BY <1>1, <1>5
  <2> HIDE DEF fuzzy, n
  <2> QED
    BY <1>1, <2>1, <2>2, MaxFacts
<1>7. BankOf(s) = IF BankByUtr(u) # 0 THEN BankByUtr(u)
                  ELSE IF Cardinality(fuzzy) = 1 THEN Max(fuzzy) ELSE 0
  BY DEF BankOf
<1> HIDE DEF fuzzy, u
<1>8. CASE BankByUtr(u) # 0
  BY <1>4, <1>7, <1>8 DEF u
<1>9. CASE BankByUtr(u) = 0 /\ Cardinality(fuzzy) = 1
  <2>1. BankOf(s) = Max(fuzzy) /\ Max(fuzzy) \in fuzzy
    BY <1>6, <1>7, <1>9
  <2>2. Max(fuzzy) # 0
    BY <1>1, <1>5, <2>1
  <2> QED
    BY <1>5, <1>9, <2>1, <2>2 DEF u, fuzzy
<1> QED
  BY <1>7, <1>8, <1>9

\* The statuses, and what AUTO_MATCHED requires of amounts, credits and delays.
LEMMA StatusTypes ==
  ASSUME NEW s, NEW p, NEW amount, NEW score
  PROVE  /\ AmountStatus(p, amount) \in Statuses
         /\ \A status \in Statuses : BankStatus(s, status) \in Statuses
         /\ \A status \in Statuses : ClassifyByConfidence(score, status) \in Statuses
         /\ Distance(ExpectedNet(p), amount) <= TolerancePaise
              \/ AmountStatus(p, amount) # "AUTO_MATCHED"
         /\ \A status \in Statuses : BankStatus(s, status) = "AUTO_MATCHED" =>
              /\ status = "AUTO_MATCHED"
              /\ LET settlement == batch.settlements[s]
                     b == BankOf(s)
                 IN /\ (b # 0 /\ b = BankByUtr(settlement.utr)) =>
                          ~(Distance(batch.bank[b].amount, settlement.amount) > TolerancePaise)
                    /\ (b # 0 /\ settlement.time # NoTime) =>
                          ~(batch.bank[b].time - settlement.time > ExpectedHours)
<1>1. /\ AmountStatus(p, amount) \in Statuses
      /\ \/ Distance(ExpectedNet(p), amount) <= TolerancePaise
         \/ AmountStatus(p, amount) # "AUTO_MATCHED"
  BY DEF AmountStatus, Statuses
<1>2. \A status \in Statuses : ClassifyByConfidence(score, status) \in Statuses
  BY DEF ClassifyByConfidence, Statuses
<1>3. ASSUME NEW status \in Statuses
      PROVE  BankStatus(s, status) \in Statuses
  BY DEF BankStatus, Statuses
<1>4. ASSUME NEW status \in Statuses, BankStatus(s, status) = "AUTO_MATCHED"
      PROVE  /\ status = "AUTO_MATCHED"
             /\ LET settlement == batch.settlements[s]
                    b == BankOf(s)
                IN /\ (b # 0 /\ b = BankByUtr(settlement.utr)) =>
                         ~(Distance(batch.bank[b].amount, settlement.amount) > TolerancePaise)
                   /\ (b # 0 /\ settlement.time # NoTime) =>
                         ~(batch.bank[b].time - settlement.time > ExpectedHours)
  BY <1>4 DEF BankStatus
<1> QED
  BY <1>1, <1>2, <1>3, <1>4

\* A row of the matcher, and what it is made from.
FreshRow(row, p, settlements, banks, status, net) ==
  /\ row \in RowRecord
  /\ row.payment = p /\ row.settlements = settlements /\ row.banks = banks
  /\ row.status = status /\ row.net = net /\ row.type = "1:1"

\* A row made by the matcher.
LEMMA RowType ==
  ASSUME NEW p \in Nat, NEW settlements \in SUBSET Nat, NEW banks \in SUBSET Credits,
         NEW credited \in Int, NEW status \in Statuses, NEW score \in 0..100, NEW net \in Int
  PROVE  FreshRow(Row(p, settlements, banks, credited, status, score, net),
                  p, settlements, banks, status, net)
<1>1. "1:1" \in Kinds
  BY DEF Kinds
<1> QED
  BY <1>1 DEF Row, RowRecord, FreshRow

\* The row of a payment over its settlements S.
MatchRow(row, p, S) ==
  /\ row \in RowRecord /\ Backed(row)
  /\ row.payment = p /\ row.settlements = S /\ row.net = ExpectedNet(p) /\ row.type = "1:1"
  /\ \A b \in row.banks : NamesByUtr(S, b) \/ b \notin matched

\* Times are integers.
LEMMA HoursAreNumbers ==
  Hours \subseteq Int /\ NoTime \in Int
BY DEF Hours, NoTime

\* The row of a payment settled once, if matched, is backed.
LEMMA SettledOnceIsBacked ==
  ASSUME batch \in BatchRecord, NEW p \in Payments, SettlementsOf(p) # {}
  PROVE  /\ Max(SettlementsOf(p)) \in SettlementsOf(p)
         /\ MatchRow(SettledOnce(p), p, {Max(SettlementsOf(p))})
<1> DEFINE s == Max(SettlementsOf(p))
           settlement == batch.settlements[s]
           b == BankOf(s)
           delta == Distance(ExpectedNet(p), settlement.amount)
           near == /\ b # 0 /\ settlement.time # NoTime
                   /\ Distance(batch.bank[b].time, settlement.time) < ExpectedHours
           signals == {"id", "single"}
                 \cup Flag("utr", b # 0 /\ b = BankByUtr(settlement.utr))
                 \cup Flag("amount", delta <= TolerancePaise)
                 \cup Flag("date", near)
                 \cup Flag("narration", b # 0 /\ batch.bank[b].namesSettlement = s)
                 \cup Flag("multiple", Ambiguous(s)) \cup Flag("noBank", b = 0)
                 \cup Adjustments(p)
           score == ComputeConfidence(signals, delta)
           before == AmountStatus(p, settlement.amount)
           after == BankStatus(s, before)
           status == ClassifyByConfidence(score, after)
           credited == IF b = 0 THEN 0 ELSE batch.bank[b].amount
           row == Row(p, {s}, {b} \ {0}, credited, status, score, ExpectedNet(p))
<1>1. SettledOnce(p) = row
  BY DEF SettledOnce
<1>2. s \in SettlementsOf(p)
  <2>1. Len(batch.settlements) \in Nat /\ SettlementsOf(p) \subseteq 0..Len(batch.settlements)
    BY BatchTypes DEF SettlementsOf
  <2> QED
    BY <2>1, MaxFacts
<1>3. s \in SettlementIds /\ s \in Nat /\ settlement \in SettlementRecord /\ settlement.amount \in Int
  <2>1. s \in SettlementIds
    BY <1>2 DEF SettlementsOf
  <2> HIDE DEF s
  <2> QED
    BY <2>1, BatchTypes DEF SettlementRecord
<1>4. ASSUME b # 0
      PROVE  /\ b \in Credits /\ batch.bank[b].amount \in Int /\ batch.bank[b].time \in Int
             /\ \/ b = BankByUtr(settlement.utr) /\ NamesByUtr({s}, b)
                \/ b # BankByUtr(settlement.utr) /\ b \in FuzzyCandidates(s)
  <2>1. /\ b \in Credits
        /\ \/ b = BankByUtr(settlement.utr) /\ NamesByUtr({s}, b)
           \/ b # BankByUtr(settlement.utr) /\ b \in FuzzyCandidates(s)
    BY <1>3, <1>4, CreditFound
  <2> HIDE DEF b
  <2>2. batch.bank[b] \in BankRecord
    BY <2>1, BatchTypes DEF Credits
  <2> QED
    <3>1. batch.bank[b].amount \in Int /\ batch.bank[b].time \in Hours
      BY <2>2 DEF BankRecord
    <3> QED
      BY <2>1, <3>1, HoursAreNumbers
<1>5. score \in 0..100
  BY ConfidenceType
<1>6. /\ before \in Statuses /\ after \in Statuses /\ status \in Statuses
  <2> HIDE DEF s, score
  <2> QED
    BY StatusTypes
<1>7. p \in Nat /\ ExpectedNet(p) \in Int
  BY BatchTypes, Money
<1>8. {b} \ {0} \in SUBSET Credits /\ credited \in Int
  <2> HIDE DEF b
  <2> QED
    BY <1>4
<1>9. FreshRow(row, p, {s}, {b} \ {0}, status, ExpectedNet(p))
  <2>1. {s} \in SUBSET Nat
    BY <1>3
  <2> HIDE DEF s, b, score, status, credited
  <2> QED
    BY <1>5, <1>6, <1>7, <1>8, <2>1, RowType
<1>10. ASSUME status = "AUTO_MATCHED"
       PROVE  /\ b # 0 /\ delta <= TolerancePaise
              /\ Distance(batch.bank[b].amount, settlement.amount)
                   <= FuzzyTolerance(settlement.amount)
              /\ settlement.time # NoTime => batch.bank[b].time - settlement.time <= ExpectedHours
  <2>1. after = "AUTO_MATCHED" /\ ~(score < 50)
    <3> HIDE DEF after, score
    <3> QED
      BY <1>10 DEF ClassifyByConfidence
  <2>2. /\ before = "AUTO_MATCHED"
        /\ (b # 0 /\ b = BankByUtr(settlement.utr)) =>
              ~(Distance(batch.bank[b].amount, settlement.amount) > TolerancePaise)
        /\ (b # 0 /\ settlement.time # NoTime) =>
              ~(batch.bank[b].time - settlement.time > ExpectedHours)
    <3> HIDE DEF s, before
    <3> QED
      BY <1>6, <2>1, StatusTypes
  <2>3. delta <= TolerancePaise
    <3> HIDE DEF s
    <3> QED
      BY <2>2, StatusTypes
  <2>4. b # 0
    <3> SUFFICES ASSUME b = 0 PROVE FALSE
      OBVIOUS
    <3>1. /\ "utr" \notin signals /\ "date" \notin signals /\ "narration" \notin signals
          /\ "noBank" \in signals
      <4> HIDE DEF b, s, delta
      <4> QED
        BY DEF Flag, Adjustments
    <3>2. score < 50
      <4> HIDE DEF signals, delta
      <4> QED
        BY <3>1, UnbackedScore
    <3> QED
      BY <2>1, <3>2
  <2>5. FuzzyTolerance(settlement.amount) \in Int
        /\ TolerancePaise <= FuzzyTolerance(settlement.amount)
    <3> HIDE DEF settlement
    <3> QED
      BY <1>3 DEF FuzzyTolerance, Larger, TolerancePaise
  <2>6. Distance(batch.bank[b].amount, settlement.amount) <= FuzzyTolerance(settlement.amount)
    <3>1. CASE b = BankByUtr(settlement.utr)
      <4>1. ~(Distance(batch.bank[b].amount, settlement.amount) > TolerancePaise)
        BY <2>2, <2>4, <3>1
      <4>2. batch.bank[b].amount \in Int
        BY <1>4, <2>4
      <4> HIDE DEF settlement, b
      <4> QED
        BY <1>3, <2>5, <4>1, <4>2 DEF Distance, TolerancePaise
    <3>2. CASE b # BankByUtr(settlement.utr)
      BY <1>4, <2>4, <3>2 DEF FuzzyCandidates
    <3> QED
      BY <3>1, <3>2
  <2>7. settlement.time # NoTime => batch.bank[b].time - settlement.time <= ExpectedHours
    <3>1. settlement.time \in Int /\ batch.bank[b].time \in Int
      <4>1. settlement.time \in Hours \cup {NoTime}
        BY <1>3 DEF SettlementRecord
      <4> QED
        BY <1>4, <2>4, <4>1, HoursAreNumbers
    <3>2. settlement.time # NoTime => ~(batch.bank[b].time - settlement.time > ExpectedHours)
      BY <2>2, <2>4
    <3> HIDE DEF settlement, b
    <3> QED
      BY <3>1, <3>2 DEF ExpectedHours
  <2> QED
    BY <2>3, <2>4, <2>6, <2>7
<1>11. ASSUME b # 0
       PROVE  NamesByUtr({s}, b) \/ b \notin matched
  BY <1>4, <1>11 DEF FuzzyCandidates, Unclaimed
<1> HIDE DEF row, status, delta, credited, s, b
<1>12. /\ row \in RowRecord /\ row.payment = p /\ row.settlements = {s}
       /\ row.banks = {b} \ {0} /\ row.status = status /\ row.net = ExpectedNet(p)
       /\ row.type = "1:1"
  BY <1>9 DEF FreshRow
<1>13. Backed(row)
  <2> SUFFICES ASSUME row.status = "AUTO_MATCHED"
               PROVE  \E x \in SettlementIds, y \in Credits :
                        LET z == batch.settlements[x] IN
                        /\ row.settlements = {x} /\ row.banks = {y}
                        /\ Distance(row.net, z.amount) <= TolerancePaise
                        /\ Distance(batch.bank[y].amount, z.amount) <= FuzzyTolerance(z.amount)
                        /\ z.time # NoTime => batch.bank[y].time - z.time <= ExpectedHours
    BY DEF Backed
  <2>1. b # 0 /\ b \in Credits /\ row.banks = {b}
    BY <1>4, <1>10, <1>12
  <2>2. Distance(row.net, settlement.amount) <= TolerancePaise
    BY <1>10, <1>12 DEF delta
  <2> QED
    BY <1>3, <1>10, <1>12, <2>1, <2>2
<1>14. \A y \in row.banks : NamesByUtr({s}, y) \/ y \notin matched
  BY <1>11, <1>12
<1> QED
  BY <1>1, <1>2, <1>12, <1>13, <1>14 DEF s, MatchRow

\* The row of a payment, whatever its settlements.
LEMMA MatchOfFacts ==
  ASSUME batch \in BatchRecord, NEW p \in Payments
  PROVE  MatchRow(MatchOf(p), p, SettlementsOf(p))
<1> DEFINE S == SettlementsOf(p)
<1>1. p \in Nat /\ ExpectedNet(p) \in Int /\ IsFiniteSet(S) /\ S \in SUBSET Nat
  <2>1. S \in SUBSET SettlementIds /\ {} \in SUBSET Credits
    BY DEF SettlementsOf
  <2>2. p \in Nat /\ ExpectedNet(p) \in Int
    BY BatchTypes, Money
  <2> QED
    BY <2>1, <2>2, IdsFinite
<1> HIDE DEF S
<1>2. CASE Cardinality(S) = 0
  <2> DEFINE pending == \/ batch.payments[p].captured = NoTime
                        \/ MaxCaptured - batch.payments[p].captured < DelayHours + 24
             status == IF pending THEN "PENDING_SETTLEMENT" ELSE "MISSING_BANK_CREDIT"
             score == ComputeConfidence({"id", "single", "noBank", "noSettlement"}
                           \cup Flag("date", pending) \cup Adjustments(p), 0)
             row == Row(p, {}, {}, 0, status, score, ExpectedNet(p))
  <2>1. S = {}
    BY <1>1, <1>2, FS_EmptySet
  <2>2. MatchOf(p) = row
    BY <1>2 DEF MatchOf, Unsettled, S
  <2>3. status \in Statuses \ {"AUTO_MATCHED"}
    BY DEF Statuses
  <2>4. score \in 0..100
    BY ConfidenceType
  <2>5. {} \in SUBSET Nat /\ {} \in SUBSET Credits /\ 0 \in Int
    OBVIOUS
  <2> HIDE DEF status, score
  <2>6. FreshRow(row, p, {}, {}, status, ExpectedNet(p))
    BY <1>1, <2>3, <2>4, <2>5, RowType
  <2> HIDE DEF row
  <2> QED
    BY <2>1, <2>2, <2>3, <2>6 DEF Backed, FreshRow, MatchRow, S
<1>3. CASE Cardinality(S) > 1
  <2> DEFINE total == Total(SettlementAmount, SettlementsOf(p))
             score == ComputeConfidence({"id", "multiple"} \cup Adjustments(p),
                                        Distance(ExpectedNet(p), total))
             row == Row(p, S, {}, 0, "DUPLICATE_SETTLEMENT", score, ExpectedNet(p))
  <2>1. MatchOf(p) = row
    BY <1>1, <1>3, FS_CardinalityType DEF MatchOf, SettledTwice, S
  <2>2. "DUPLICATE_SETTLEMENT" \in Statuses /\ {} \in SUBSET Credits /\ 0 \in Int
    BY DEF Statuses
  <2>3. score \in 0..100
    BY ConfidenceType
  <2> HIDE DEF score
  <2>4. FreshRow(row, p, S, {}, "DUPLICATE_SETTLEMENT", ExpectedNet(p))
    BY <1>1, <2>2, <2>3, RowType
  <2> HIDE DEF row
  <2> QED
    BY <2>1, <2>4 DEF Backed, FreshRow, MatchRow, S
<1>4. CASE Cardinality(S) = 1
  <2>1. S # {}
    BY <1>4, FS_EmptySet
  <2>2. MatchOf(p) = SettledOnce(p)
    BY <1>4 DEF MatchOf, S
  <2>3. S = {Max(S)}
    <3>1. Max(S) \in S
      BY <2>1, SettledOnceIsBacked DEF S
    <3>2. \E x : S = {x}
      BY <1>1, <1>4, FS_Singleton
    <3> QED
      BY <3>1, <3>2
  <2> QED
    BY <2>1, <2>2, <2>3, SettledOnceIsBacked DEF S
<1> QED
  BY <1>1, <1>2, <1>3, <1>4, FS_CardinalityType

-----------------------------------------------------------------------------
(* Rows taken over by relationships *)

\* The settlements of rel whose row is the i-th.
Hits(rel, i) == {s \in rel.settlements : RowOf(batch.settlements[s].payment) = i}

TakenOver(row, rel, i) ==
  /\ Hits(rel, i) # {} /\ Hits(rel, i) \subseteq row.settlements
  /\ row.banks = rel.banks /\ row.type = rel.type

\* after: the rows once rels have been applied.
Rewritten(rows, after, rels) ==
  /\ after \in Seq(RowRecord) /\ Len(after) = Len(rows)
  /\ \A i \in DOMAIN rows :
       /\ after[i].payment = rows[i].payment /\ after[i].status = rows[i].status
       /\ after[i].net = rows[i].net /\ rows[i].settlements \subseteq after[i].settlements
       /\ IF \E rel \in rels : Hits(rel, i) # {} THEN \E rel \in rels : TakenOver(after[i], rel, i)
          ELSE after[i] = rows[i]

\* Applying one relationship rewrites the rows,
LEMMA AppliedFacts ==
  ASSUME batch \in BatchRecord, NEW rows \in Seq(RowRecord), NEW rel \in RelRecord
  PROVE  Rewritten(rows, Applied(rows, rel), {rel})
<1> DEFINE n == Len(rows)
           after == Applied(rows, rel)
           taken(i) == [rows[i] EXCEPT !.settlements = @ \cup Hits(rel, i), !.banks = rel.banks,
                                       !.credited = Total(BankAmount, rel.banks),
                                       !.type = rel.type, !.score = Larger(@, rel.score)]
<1>1. n \in Nat /\ DOMAIN rows = 1..n /\ \A i \in 1..n : rows[i] \in RowRecord
  OBVIOUS
<1>2. after = [i \in 1..n |-> IF Hits(rel, i) = {} THEN rows[i] ELSE taken(i)]
  BY <1>1 DEF Applied, Hits
<1>3. ASSUME NEW i \in 1..n
      PROVE  /\ taken(i) \in RowRecord
             /\ taken(i).payment = rows[i].payment /\ taken(i).status = rows[i].status
             /\ taken(i).net = rows[i].net /\ taken(i).banks = rel.banks
             /\ taken(i).settlements = rows[i].settlements \cup Hits(rel, i)
             /\ taken(i).type = rel.type
  <2>1. /\ rel.settlements \subseteq SettlementIds /\ rel.banks \subseteq Credits
        /\ rel.type \in Kinds /\ rel.score \in 0..100
    BY DEF RelRecord
  <2>2. Hits(rel, i) \in SUBSET Nat
    BY <2>1, BatchTypes DEF Hits
  <2>3. Total(BankAmount, rel.banks) \in Int
    BY Money
  <2> DEFINE row == rows[i]
             H == Hits(rel, i)
             c == Total(BankAmount, rel.banks)
             z == Larger(row.score, rel.score)
  <2>4. row \in RowRecord
    BY <1>1
  <2>5. z \in 0..100
    <3>1. row.score \in 0..100
      BY <2>4 DEF RowRecord
    <3> HIDE DEF row
    <3> QED
      BY <2>1, <3>1 DEF Larger
  <2>6. taken(i) = [row EXCEPT !.settlements = @ \cup H, !.banks = rel.banks, !.credited = c,
                               !.type = rel.type, !.score = z]
    <3> HIDE DEF H, c
    <3> QED
      BY <2>4 DEF RowRecord, H, c
  <2> HIDE DEF taken, row, H, c, z
  <2>7. taken(i) \in RowRecord
    BY <2>1, <2>2, <2>3, <2>4, <2>5, <2>6 DEF RowRecord, H, c
  <2>8. /\ taken(i).payment = row.payment /\ taken(i).status = row.status
        /\ taken(i).net = row.net /\ taken(i).banks = rel.banks
        /\ taken(i).settlements = row.settlements \cup H /\ taken(i).type = rel.type
    BY <2>4, <2>6 DEF RowRecord
  <2> QED
    BY <2>7, <2>8 DEF row, H
<1> HIDE DEF taken, after
<1>4. after \in [1..n -> RowRecord]
  BY <1>1, <1>2, <1>3
<1>5. after \in Seq(RowRecord) /\ Len(after) = n
  BY <1>1, <1>4, FunctionLength
<1>6. ASSUME NEW i \in 1..n
      PROVE  /\ after[i].payment = rows[i].payment /\ after[i].status = rows[i].status
             /\ after[i].net = rows[i].net /\ rows[i].settlements \subseteq after[i].settlements
             /\ IF Hits(rel, i) # {} THEN TakenOver(after[i], rel, i) ELSE after[i] = rows[i]
  BY <1>2, <1>3 DEF TakenOver
<1> QED
  BY <1>1, <1>5, <1>6 DEF Rewritten, after

\* and so does applying one after another.
LEMMA RewrittenTwice ==
  ASSUME NEW a, NEW b, NEW c, NEW R, NEW rel, a \in Seq(RowRecord),
         Rewritten(a, b, R), Rewritten(b, c, {rel})
  PROVE  Rewritten(a, c, R \cup {rel})
<1>1. /\ b \in Seq(RowRecord) /\ Len(b) = Len(a) /\ c \in Seq(RowRecord) /\ Len(c) = Len(b)
  BY DEF Rewritten
<1>2. DOMAIN a = DOMAIN b
  BY <1>1
<1>3. ASSUME NEW i \in DOMAIN a
      PROVE  /\ c[i].payment = a[i].payment /\ c[i].status = a[i].status
             /\ c[i].net = a[i].net /\ a[i].settlements \subseteq c[i].settlements
             /\ IF \E x \in R \cup {rel} : Hits(x, i) # {}
                THEN \E x \in R \cup {rel} : TakenOver(c[i], x, i)
                ELSE c[i] = a[i]
  <2>1. /\ b[i].payment = a[i].payment /\ b[i].status = a[i].status
        /\ b[i].net = a[i].net /\ a[i].settlements \subseteq b[i].settlements
        /\ IF \E x \in R : Hits(x, i) # {} THEN \E x \in R : TakenOver(b[i], x, i)
           ELSE b[i] = a[i]
    BY DEF Rewritten
  <2>2. /\ c[i].payment = b[i].payment /\ c[i].status = b[i].status
        /\ c[i].net = b[i].net /\ b[i].settlements \subseteq c[i].settlements
        /\ IF \E x \in {rel} : Hits(x, i) # {} THEN \E x \in {rel} : TakenOver(c[i], x, i)
           ELSE c[i] = b[i]
    BY <1>2 DEF Rewritten
  <2> QED
    BY <2>1, <2>2
<1> QED
  BY <1>1, <1>3 DEF Rewritten

\* What ApplyRelationships does to the rows.
LEMMA AppliedInTurn ==
  ASSUME batch \in BatchRecord, results \in Seq(RowRecord), relationships \in Seq(RelRecord),
         ApplyRelationships
  PROVE  Rewritten(results, results', {relationships[i] : i \in DOMAIN relationships})
<1> DEFINE n == Len(relationships)
           X == Seq(RowRecord)
           step == [k \in 1..n |-> [rows \in X |-> Applied(rows, relationships[k])]]
           applied[k \in 0..n] == IF k = 0 THEN results
                                  ELSE Applied(applied[k - 1], relationships[k])
           upTo(k) == {relationships[i] : i \in 1..k}
<1>1. n \in Nat /\ DOMAIN relationships = 1..n /\ \A k \in 1..n : relationships[k] \in RelRecord
  OBVIOUS
<1>2. results' = applied[n]
  BY DEF ApplyRelationships
<1>3. \A k \in 1..n, rows \in X : Applied(rows, relationships[k]) \in X
  BY <1>1, AppliedFacts DEF Rewritten
<1> HIDE DEF n, X
<1>4. step \in [1..n -> [X -> X]]
  BY <1>3
<1>5. PICK g \in [0..n -> X] : Runs(g, results, step, n)
  <2>1. results \in X
    BY DEF X
  <2> HIDE DEF step
  <2> QED
    BY <1>1, <1>4, <2>1, RecursionExists
<1>6. g[0] = results /\ \A k \in 1..n : g[k] = Applied(g[k - 1], relationships[k])
  <2>1. ASSUME NEW k \in 1..n PROVE g[k] = Applied(g[k - 1], relationships[k])
    <3>1. k - 1 \in 0..n
      BY <1>1
    <3>2. g[k - 1] \in X
      BY <1>5, <3>1
    <3>3. g[k] = step[k][g[k - 1]]
      BY <1>5 DEF Runs
    <3> QED
      BY <3>2, <3>3
  <2> QED
    BY <1>5, <2>1 DEF Runs
<1>7. g = [k \in 0..n |-> IF k = 0 THEN results ELSE Applied(g[k - 1], relationships[k])]
  <2>1. \A k \in 0..n : k = 0 \/ k \in 1..n
    BY <1>1
  <2> QED
    BY <1>6, <2>1
<1>8. applied = [k \in 0..n |-> IF k = 0 THEN results ELSE Applied(applied[k - 1], relationships[k])]
  BY <1>7
<1> HIDE DEF applied
<1>9. applied[0] = results /\ \A k \in 1..n : applied[k] = Applied(applied[k - 1], relationships[k])
  BY <1>1, <1>8
<1> DEFINE G == {k \in 0..n : applied[k] \in X /\ Rewritten(results, applied[k], upTo(k))}
<1>10. 0 \in G
  <2>1. upTo(0) = {}
    OBVIOUS
  <2>2. Rewritten(results, results, {})
    BY DEF Rewritten
  <2>3. results \in X /\ applied[0] = results /\ 0 \in 0..n
    BY <1>1, <1>9 DEF X
  <2> HIDE DEF upTo, X
  <2>4. Rewritten(results, applied[0], upTo(0))
    BY <2>1, <2>2, <2>3
  <2> QED
    BY <2>3, <2>4
<1>11. ASSUME NEW k \in 1..n, k - 1 \in G
       PROVE  k \in G
  <2>1. applied[k - 1] \in X /\ Rewritten(results, applied[k - 1], upTo(k - 1))
    BY <1>11
  <2>2. Rewritten(applied[k - 1], applied[k], {relationships[k]})
    <3>1. relationships[k] \in RelRecord /\ applied[k] = Applied(applied[k - 1], relationships[k])
      BY <1>1, <1>9
    <3> QED
      BY <2>1, <3>1, AppliedFacts DEF X
  <2>3. upTo(k) = upTo(k - 1) \cup {relationships[k]}
    <3>1. \A i \in 1..k : i = k \/ i \in 1..(k - 1)
      BY <1>1
    <3>2. \A i \in 1..(k - 1) : i \in 1..k
      BY <1>1
    <3>3. k \in 1..k
      BY <1>1
    <3> QED
      BY <3>1, <3>2, <3>3
  <2> HIDE DEF upTo
  <2>4. Rewritten(results, applied[k], upTo(k))
    <3>1. Rewritten(results, applied[k], upTo(k - 1) \cup {relationships[k]})
      BY <2>1, <2>2, RewrittenTwice
    <3> QED
      BY <2>3, <3>1
  <2>5. applied[k] \in X
    BY <2>4 DEF Rewritten, X
  <2>6. k \in 0..n
    BY <1>1
  <2> QED
    BY <2>4, <2>5, <2>6
<1>12. \A k \in 0..n : k \in G
  <2> HIDE DEF G
  <2> QED
    BY <1>1, <1>10, <1>11, Upwards
<1>13. n \in 0..n
  BY <1>1
<1>14. upTo(n) = {relationships[i] : i \in DOMAIN relationships}
  BY <1>1
<1> HIDE DEF upTo
<1>15. Rewritten(results, applied[n], upTo(n))
  BY <1>12, <1>13
<1> QED
  BY <1>2, <1>14, <1>15

-----------------------------------------------------------------------------
(* The variables *)

Stages == {"match", "orphans", "bulk", "split", "many", "partitions", "gate", "done"}

MatchTyped ==
  /\ batch \in BatchRecord /\ scale \in BOOLEAN /\ cursor \in Nat
  /\ stage \in Stages /\ gate \in {"none", "pass", "fail"}
  /\ matched \subseteq Credits
  /\ results \in Seq(RowRecord)
  /\ relationships \in Seq(RelRecord)

\* Which stages the two paths go through, and when there are relationships.
Phased ==
  /\ stage = "partitions" => scale
  /\ stage \in {"bulk", "split", "many"} => ~scale
  /\ stage \in {"match", "orphans"} => relationships = << >> /\ cursor # 0

\* The row that stands for a payment is one of the payment's.
LEMMA RowOfFacts ==
  ASSUME NEW X, results \in Seq(X), NEW p
  PROVE  /\ RowOf(p) \in Nat
         /\ \/ RowOf(p) = 0
            \/ RowOf(p) \in DOMAIN results /\ results[RowOf(p)].payment = p /\ p # 0
         /\ (\E i \in DOMAIN results : results[i].payment = p /\ p # 0) => RowOf(p) # 0
<1> DEFINE rows == {i \in DOMAIN results : results[i].payment = p /\ p # 0}
           n == Len(results)
<1>1. n \in Nat /\ DOMAIN results = 1..n
  OBVIOUS
<1>2. RowOf(p) = Max({0} \cup rows)
  BY DEF RowOf
<1>3. {0} \cup rows \in SUBSET (0..n)
  BY <1>1
<1>4. RowOf(p) \in {0} \cup rows /\ \A m \in {0} \cup rows : m <= RowOf(p)
  <2> DEFINE T == {0} \cup rows
  <2>1. T # {} /\ T \in SUBSET (0..n)
    BY <1>3
  <2> HIDE DEF T, n
  <2>2. Max(T) \in T /\ \A m \in T : m <= Max(T)
    BY <1>1, <2>1, MaxFacts
  <2> QED
    BY <1>2, <2>2 DEF T
<1>5. ASSUME NEW i \in rows PROVE RowOf(p) # 0
  <2>1. i <= RowOf(p) /\ i \in 1..n
    BY <1>1, <1>4
  <2> HIDE DEF n
  <2> QED
    BY <1>1, <2>1
<1> HIDE DEF n
<1> QED
  BY <1>1, <1>3, <1>4, <1>5

\* It stays as long as the payments of the rows do.
LEMMA RowOfStays ==
  ASSUME NEW X, results \in Seq(X), NEW Y, results' \in Seq(Y), Len(results') = Len(results),
         \A i \in DOMAIN results : results'[i].payment = results[i].payment
  PROVE  \A p : RowOf(p)' = RowOf(p)
<1>1. DOMAIN results' = DOMAIN results
  OBVIOUS
<1>2. ASSUME NEW p
      PROVE  RowOf(p)' = RowOf(p)
  <2>1. {i \in DOMAIN results' : results'[i].payment = p /\ p # 0}
        = {i \in DOMAIN results : results[i].payment = p /\ p # 0}
    BY <1>1
  <2> QED
    BY <2>1 DEF RowOf
<1> QED
  BY <1>2

\* What relates records of a set relates records of a larger one.
LEMMA RelatesWider ==
  ASSUME NEW found, NEW S, NEW B, NEW C, B \subseteq C, RelatesFound(found, S, B)
  PROVE  RelatesFound(found, S, C)
BY DEF RelatesFound, Relates

\* A pass that records rel.
Grouped(rel) ==
  /\ Relates(rel, OpenSettlements, Credits \ matched)
  /\ relationships' = Append(relationships, rel)
  /\ matched' = matched \cup rel.banks
  /\ Rewritten(results, results', {rel})

\* Recording what was found changes nothing or groups.
LEMMA RecordsFacts ==
  ASSUME MatchTyped, NEW found, RelatesFound(found, OpenSettlements, Credits \ matched), Records(found)
  PROVE  \/ found = {} /\ UNCHANGED <<results, matched, relationships>>
         \/ \E rel : found = {rel} /\ Grouped(rel)
<1>1. CASE found = {}
  BY <1>1 DEF Records
<1>2. CASE found # {}
  <2>1. PICK rel : found = {rel} /\ Relates(rel, OpenSettlements, Credits \ matched)
    BY <1>2 DEF RelatesFound
  <2>2. (CHOOSE r \in found : TRUE) = rel
    BY <2>1
  <2>3. /\ relationships' = Append(relationships, rel) /\ matched' = matched \cup rel.banks
        /\ results' = Applied(results, rel)
    BY <1>2, <2>2 DEF Records
  <2>4. rel \in RelRecord
    BY <2>1 DEF Relates
  <2>5. Rewritten(results, results', {rel})
    BY <2>3, <2>4, AppliedFacts DEF MatchTyped
  <2> QED
    BY <2>1, <2>3, <2>5 DEF Grouped
<1> QED
  BY <1>1, <1>2

\* A step of a pass over a small batch.
Pass == BulkCredit \/ SplitSettlement \/ ManyToMany

\* What a step of a pass changes.
LEMMA PassFacts ==
  ASSUME MatchTyped, Pass
  PROVE  /\ UNCHANGED <<batch, scale, gate>> /\ cursor' \in Nat
         /\ stage \in {"bulk", "split", "many"}
         /\ stage' = IF stage = "many" THEN "gate" ELSE stage
         /\ \/ UNCHANGED <<results, matched, relationships>>
            \/ \E rel : Grouped(rel)
<1> DEFINE S == OpenSettlements
           B == Credits \ matched
<1>1. S \in SUBSET SettlementIds /\ B \in SUBSET Credits /\ Bulk \ matched \subseteq B
      /\ batch \in BatchRecord /\ scale \in BOOLEAN /\ cursor \in Nat
  BY DEF OpenSettlements, Bulk, MatchTyped
<1>2. RelatesFound({}, S, B)
  BY DEF RelatesFound
<1> HIDE DEF S, B
<1>3. CASE BulkCredit
  <2>1. RelatesFound(BulkFound(cursor), S, B)
    <3>1. ASSUME cursor \in B PROVE RelatesFound(NToOne(S, cursor), S, B)
      BY <1>1, <3>1, NToOneRelates
    <3> QED
      BY <1>1, <1>2, <3>1 DEF BulkFound, S
  <2>2. Records(BulkFound(cursor))
    BY <1>3 DEF BulkCredit
  <2>3. \/ UNCHANGED <<results, matched, relationships>>
        \/ \E rel : Grouped(rel)
    BY <2>1, <2>2, RecordsFacts DEF S, B
  <2> QED
    BY <1>1, <1>3, <2>3 DEF BulkCredit
<1>4. CASE SplitSettlement
  <2>1. RelatesFound(SplitFound(cursor), S, B)
    <3>1. ASSUME cursor \in S PROVE RelatesFound(OneToN(cursor, B), S, B)
      BY <1>1, <3>1, OneToNRelates
    <3> QED
      BY <1>2, <3>1 DEF SplitFound, S, B
  <2>2. Records(SplitFound(cursor))
    BY <1>4 DEF SplitSettlement
  <2>3. \/ UNCHANGED <<results, matched, relationships>>
        \/ \E rel : Grouped(rel)
    BY <2>1, <2>2, RecordsFacts DEF S, B
  <2> QED
    BY <1>1, <1>4, <2>3 DEF SplitSettlement
<1>5. CASE ManyToMany
  <2>1. RelatesFound(ManyFound, S, B)
    <3>1. RelatesFound(NToM(S, Bulk \ matched), S, Bulk \ matched)
      <4>1. Bulk \ matched \in SUBSET Credits
        BY DEF Bulk
      <4> QED
        BY <1>1, <4>1, ManyRelates
    <3>2. RelatesFound(NToM(S, Bulk \ matched), S, B)
      BY <1>1, <3>1, RelatesWider
    <3> QED
      BY <1>2, <3>2 DEF ManyFound, S
  <2>2. Records(ManyFound)
    BY <1>5 DEF ManyToMany
  <2>3. \/ UNCHANGED <<results, matched, relationships>>
        \/ \E rel : Grouped(rel)
    BY <2>1, <2>2, RecordsFacts DEF S, B
  <2> QED
    BY <1>1, <1>5, <2>3 DEF ManyToMany
<1> QED
  BY <1>3, <1>4, <1>5 DEF Pass

\* The number of a bucket is a natural.
LEMMA WholeBuckets ==
  ASSUME NEW time \in Nat
  PROVE  time \div 96 \in Nat
OBVIOUS

\* The last of the modelled hours is a number.
LEMMA LastHour ==
  96 * 1000 - 1 \in Int
OBVIOUS

\* Every record has a bucket.
LEMMA BucketType ==
  ASSUME batch \in BatchRecord
  PROVE  /\ \A s \in SettlementIds : DateBucket(batch.settlements[s].time) \in Nat
         /\ \A b \in Credits : DateBucket(batch.bank[b].time) \in Nat
<1>1. ASSUME NEW time \in Hours PROVE DateBucket(time) \in Nat
  <2>1. time \in Nat
    <3> DEFINE top == 96 * 1000 - 1
    <3>1. top \in Int
      BY LastHour
    <3>2. time \in 0..top
      BY ZenonT(30) DEF Hours
    <3> HIDE DEF top
    <3> QED
      BY <3>1, <3>2
  <2>2. DateBucket(time) = IF time = NoTime THEN 1000 ELSE time \div 96
    BY DEF DateBucket, GroupHours
  <2>3. time \div 96 \in Nat
    BY <2>1, WholeBuckets
  <2> QED
    BY <2>2, <2>3
<1>2. DateBucket(NoTime) \in Nat
  BY DEF DateBucket
<1>3. /\ \A s \in SettlementIds : batch.settlements[s].time \in Hours \cup {NoTime}
      /\ \A b \in Credits : batch.bank[b].time \in Hours
  BY BatchTypes DEF Credits, SettlementRecord, BankRecord
<1> QED
  BY <1>1, <1>2, <1>3

\* A step over a date bucket k: nothing found, or one more relationship within it.
LEMMA PartitionFacts ==
  ASSUME MatchTyped, ResolvePartition
  PROVE  /\ UNCHANGED <<batch, scale, stage, results, matched, gate>>
         /\ stage = "partitions"
         /\ \E k \in Nat :
              /\ cursor <= k /\ cursor' = k + 1
              /\ \/ relationships' = relationships
                 \/ \E rel : /\ Relates(rel, SettlementsIn(k), CreditsIn(k))
                             /\ relationships' = Append(relationships, rel)
<1> DEFINE later == {b \in Buckets : b >= cursor}
           k == Min(later)
           found == Resolved(SettlementsIn(k), CreditsIn(k))
<1>1. /\ UNCHANGED <<batch, scale, stage, results, matched, gate>>
      /\ stage = "partitions" /\ later # {} /\ cursor' = k + 1
      /\ relationships' = IF found = {} THEN relationships
                          ELSE Append(relationships, CHOOSE rel \in found : TRUE)
  BY DEF ResolvePartition
<1>2. batch \in BatchRecord /\ scale \in BOOLEAN /\ cursor \in Nat
  BY DEF MatchTyped
<1>3. \A b \in Buckets : b \in Nat
  <2>1. \A s \in OpenSettlements : s \in SettlementIds
    BY DEF OpenSettlements
  <2>2. \A b \in Bulk \ matched : b \in Credits
    BY DEF Bulk
  <2> QED
    BY <1>2, <2>1, <2>2, BucketType DEF Buckets
<1>4. k \in later
  <2>1. later \in SUBSET Nat
    BY <1>3
  <2> HIDE DEF later
  <2> QED
    BY <1>1, <2>1, MinFacts
<1>5. k \in Nat /\ cursor <= k
  <2>1. \A b \in later : b \in Nat /\ b >= cursor
    BY <1>3
  <2> HIDE DEF later
  <2>2. k \in Nat /\ k >= cursor
    BY <1>4, <2>1
  <2> HIDE DEF k
  <2> QED
    BY <1>2, <2>2
<1> HIDE DEF k
<1>6. RelatesFound(found, SettlementsIn(k), CreditsIn(k))
  <2>1. SettlementsIn(k) \in SUBSET SettlementIds /\ CreditsIn(k) \in SUBSET Credits
    BY DEF SettlementsIn, CreditsIn, OpenSettlements, Bulk
  <2> QED
    BY <1>2, <2>1, ResolvedRelates
<1> HIDE DEF found
<1>7. ASSUME found # {}
      PROVE  \E rel : /\ Relates(rel, SettlementsIn(k), CreditsIn(k))
                      /\ relationships' = Append(relationships, rel)
  <2>1. PICK rel : found = {rel} /\ Relates(rel, SettlementsIn(k), CreditsIn(k))
    BY <1>6, <1>7 DEF RelatesFound
  <2>2. (CHOOSE r \in found : TRUE) = rel
    BY <2>1
  <2> QED
    BY <1>1, <1>7, <2>1, <2>2
<1>8. \E j \in Nat : /\ cursor <= j /\ cursor' = j + 1
              /\ \/ relationships' = relationships
                 \/ \E rel : /\ Relates(rel, SettlementsIn(j), CreditsIn(j))
                             /\ relationships' = Append(relationships, rel)
  BY <1>1, <1>5, <1>7
<1> QED
  BY <1>1, <1>8

\* The same batch has the same parts.
LEMMA SameBatch ==
  ASSUME batch' = batch
  PROVE  /\ Credits' = Credits /\ SettlementIds' = SettlementIds /\ RowRecord' = RowRecord
         /\ RelRecord' = RelRecord
BY DEF Credits, SettlementIds, RowRecord, RelRecord

\* The variables start well typed.
LEMMA MatchTypedInit ==
  MatchingInit => MatchTyped /\ Phased
<1> SUFFICES ASSUME MatchingInit PROVE MatchTyped /\ Phased
  OBVIOUS
<1>1. batch \in BatchRecord /\ scale \in BOOLEAN
  BY MatchingAssumption DEF MatchingInit
<1>2. cursor = 1 /\ stage = "match" /\ gate = "none" /\ matched = {} /\ relationships = << >>
      /\ results = << >>
  BY DEF MatchingInit, MatchingStart
<1> QED
  BY <1>1, <1>2 DEF MatchTyped, Phased, Stages

\* The rows show credits only.
LEMMA AttributedCredits ==
  ASSUME results \in Seq(RowRecord)
  PROVE  Attributed \subseteq Credits
<1>1. \A i \in DOMAIN results : results[i] \in RowRecord
  OBVIOUS
<1> QED
  BY <1>1 DEF Attributed, RowRecord

\* The row of an orphan credit.
LEMMA OrphanRowType ==
  ASSUME batch \in BatchRecord, NEW b \in Credits
  PROVE  FreshRow(OrphanRow(b), batch.bank[b].namesPayment,
                  {batch.bank[b].namesSettlement} \ {0}, {b}, "ORPHAN_BANK_CREDIT", 0)
<1>1. batch.bank[b] \in BankRecord
  BY BatchTypes DEF Credits
<1>2. /\ batch.bank[b].namesPayment \in Nat /\ batch.bank[b].namesSettlement \in Nat
      /\ batch.bank[b].amount \in Int
  BY <1>1 DEF BankRecord
<1>3. "ORPHAN_BANK_CREDIT" \in Statuses
  BY DEF Statuses
<1>4. {batch.bank[b].namesSettlement} \ {0} \in SUBSET Nat /\ {b} \in SUBSET Credits
      /\ 25 \in 0..100 /\ 0 \in Int
  BY <1>2
<1> QED
  BY <1>2, <1>3, <1>4, RowType DEF OrphanRow

\* Every step keeps the variables well typed.
LEMMA MatchTypedNext ==
  MatchTyped /\ Phased /\ [MatchingNext]_matchVars => MatchTyped' /\ Phased'
<1> SUFFICES ASSUME MatchTyped, Phased, [MatchingNext]_matchVars
             PROVE  MatchTyped' /\ Phased'
  OBVIOUS
<1>0. /\ batch \in BatchRecord /\ scale \in BOOLEAN /\ cursor \in Nat /\ stage \in Stages
      /\ gate \in {"none", "pass", "fail"} /\ matched \subseteq Credits
      /\ results \in Seq(RowRecord) /\ relationships \in Seq(RelRecord)
  BY DEF MatchTyped
<1>1. CASE MatchPayment
  <2>1. /\ UNCHANGED <<batch, scale, stage, relationships, gate>> /\ cursor' = cursor + 1
        /\ stage = "match"
    BY <1>1 DEF MatchPayment
  <2>2. results' \in Seq(RowRecord) /\ matched' \subseteq Credits
    <3>1. CASE batch.payments[cursor].status = "captured"
      <4>1. results' = Append(results, MatchOf(cursor)) /\ matched' = matched \cup MatchOf(cursor).banks
        BY <1>1, <3>1 DEF MatchPayment
      <4>2. cursor \in Payments
        <5>1. cursor # 0 /\ cursor <= Len(batch.payments)
          BY <1>1, <2>1 DEF MatchPayment, Phased
        <5>2. Payments = 1..Len(batch.payments) /\ Len(batch.payments) \in Nat
          BY <1>0, BatchTypes
        <5> QED
          BY <1>0, <5>1, <5>2
      <4>3. MatchOf(cursor) \in RowRecord
        BY <1>0, <4>2, MatchOfFacts DEF MatchRow
      <4> QED
        BY <1>0, <4>1, <4>3 DEF RowRecord
    <3> QED
      BY <1>0, <1>1, <3>1 DEF MatchPayment
  <2> QED
    BY <1>0, <2>1, <2>2, SameBatch DEF MatchTyped, Phased
<1>2. CASE DetectOrphan
  <2>1. /\ UNCHANGED <<batch, scale, stage, matched, relationships, gate>> /\ cursor' = cursor + 1
        /\ results' = IF IsOrphan(cursor) THEN Append(results, OrphanRow(cursor)) ELSE results
        /\ stage = "orphans"
    BY <1>2 DEF DetectOrphan
  <2>2. results' \in Seq(RowRecord)
    <3>1. CASE IsOrphan(cursor)
      <4>1. OrphanRow(cursor) \in RowRecord
        BY <1>0, <3>1, OrphanRowType DEF IsOrphan, FreshRow
      <4> QED
        BY <1>0, <2>1, <3>1, <4>1
    <3> QED
      BY <1>0, <2>1, <3>1
  <2> QED
    BY <1>0, <2>1, <2>2, SameBatch DEF MatchTyped, Phased
<1>3. CASE NextStage
  <2>1. /\ UNCHANGED <<batch, scale, results, relationships, gate>>
        /\ stage \in {"match", "orphans", "bulk", "split"}
        /\ stage' = CASE stage = "match" -> "orphans"
                [] stage = "orphans" -> IF scale THEN "partitions" ELSE "bulk"
                [] stage = "bulk" -> "split"
                [] stage = "split" -> "many"
        /\ matched' = IF stage = "orphans" THEN Attributed ELSE matched
        /\ cursor' = IF stage' = "partitions" THEN 0 ELSE 1
    BY <1>3 DEF NextStage
  <2>2. /\ stage = "match" => stage' = "orphans"
        /\ stage = "orphans" => stage' = IF scale THEN "partitions" ELSE "bulk"
        /\ stage = "bulk" => stage' = "split"
        /\ stage = "split" => stage' = "many"
    BY <2>1
  <2>3. matched' \subseteq Credits
    BY <1>0, <2>1, AttributedCredits
  <2>4. stage' \in Stages /\ cursor' \in Nat
    BY <2>1, <2>2 DEF Stages
  <2>5. Phased'
    BY <1>0, <2>1, <2>2 DEF Phased
  <2> QED
    BY <1>0, <2>1, <2>3, <2>4, <2>5, SameBatch DEF MatchTyped
<1>4. CASE Pass
  <2>1. /\ UNCHANGED <<batch, scale, gate>> /\ cursor' \in Nat
        /\ stage \in {"bulk", "split", "many"}
        /\ stage' = IF stage = "many" THEN "gate" ELSE stage
        /\ \/ UNCHANGED <<results, matched, relationships>>
           \/ \E rel : Grouped(rel)
    BY <1>4, PassFacts
  <2>2. /\ results' \in Seq(RowRecord) /\ matched' \subseteq Credits
        /\ relationships' \in Seq(RelRecord)
    <3>1. CASE UNCHANGED <<results, matched, relationships>>
      BY <1>0, <3>1
    <3>2. ASSUME NEW rel, Grouped(rel)
          PROVE  /\ results' \in Seq(RowRecord) /\ matched' \subseteq Credits
                 /\ relationships' \in Seq(RelRecord)
      <4>1. rel \in RelRecord /\ rel.banks \subseteq Credits
        BY <3>2 DEF Grouped, Relates
      <4> QED
        BY <1>0, <3>2, <4>1 DEF Grouped, Rewritten
    <3> QED
      BY <2>1, <3>1, <3>2
  <2>3. stage' \in Stages
    BY <2>1 DEF Stages
  <2>4. Phased'
    BY <2>1 DEF Phased
  <2> QED
    BY <1>0, <2>1, <2>2, <2>3, <2>4, SameBatch DEF MatchTyped
<1>5. CASE ResolvePartition
  <2>1. /\ UNCHANGED <<batch, scale, stage, results, matched, gate>> /\ stage = "partitions"
    BY <1>5, PartitionFacts
  <2>2. PICK k \in Nat :
          /\ cursor <= k /\ cursor' = k + 1
          /\ \/ relationships' = relationships
             \/ \E rel : /\ Relates(rel, SettlementsIn(k), CreditsIn(k))
                         /\ relationships' = Append(relationships, rel)
    BY <1>5, PartitionFacts
  <2>3. relationships' \in Seq(RelRecord)
    BY SMTT(30), <1>0, <2>2 DEF Relates
  <2>4. cursor' \in Nat
    BY <2>2
  <2> QED
    BY <1>0, <2>1, <2>3, <2>4, SameBatch DEF MatchTyped, Phased
<1>6. CASE ApplyRelationships
  <2>1. /\ UNCHANGED <<batch, scale, cursor, relationships, gate>> /\ stage' = "gate"
        /\ matched' = matched \cup UNION {relationships[i].banks : i \in DOMAIN relationships}
    BY <1>6 DEF ApplyRelationships
  <2>2. results' \in Seq(RowRecord)
    BY <1>0, <1>6, AppliedInTurn DEF Rewritten
  <2>3. matched' \subseteq Credits
    <3>1. \A i \in DOMAIN relationships : relationships[i] \in RelRecord
      BY <1>0
    <3> QED
      BY <1>0, <2>1, <3>1 DEF RelRecord
  <2> QED
    BY <1>0, <2>1, <2>2, <2>3, SameBatch DEF MatchTyped, Phased, Stages
<1>7. CASE EvaluateInvariants
  <2>1. /\ UNCHANGED <<batch, scale, cursor, results, matched, relationships>>
        /\ stage' = "done" /\ gate' \in {"none", "pass", "fail"}
    BY <1>7 DEF EvaluateInvariants
  <2> QED
    BY <1>0, <2>1, SameBatch DEF MatchTyped, Phased, Stages
<1>8. CASE UNCHANGED matchVars
  <2>1. UNCHANGED <<batch, scale, stage, cursor, results, matched, relationships, gate>>
    BY <1>8 DEF matchVars
  <2> QED
    BY <1>0, <2>1, SameBatch DEF MatchTyped, Phased
<1> QED
  BY <1>1, <1>2, <1>3, <1>4, <1>5, <1>6, <1>7, <1>8 DEF MatchingNext, Pass

\* They are then as MatchingTypeOK says.
LEMMA TypedIsTypeOK ==
  MatchTyped => MatchingTypeOK
<1> SUFFICES ASSUME MatchTyped PROVE MatchingTypeOK
  OBVIOUS
<1>1. \A i \in DOMAIN results : results[i] \in RowRecord
  BY DEF MatchTyped
<1>2. \A i \in DOMAIN results : results[i].score \in 0..100 /\ results[i].banks \subseteq Credits
  BY <1>1 DEF RowRecord
<1> QED
  BY <1>2 DEF MatchTyped, MatchingTypeOK, Stages

\* In every state.
LEMMA Typed ==
  MatchingSpec => [](MatchTyped /\ Phased)
BY MatchTypedInit, MatchTypedNext, PTL DEF MatchingSpec

\* The variables of the matcher, its scores and its rows are well typed for any batches.
THEOREM MatchingTyped ==
  MatchingSpec => []MatchingTypeOK
BY Typed, TypedIsTypeOK, PTL

-----------------------------------------------------------------------------
(* Who holds which credit *)

\* Two rows of a credit each: one of them names it by its UTR.
SharesFairly(row, other) ==
  \A b \in row.banks \cap other.banks :
    (row.type = "1:1" /\ other.type = "1:1") =>
      NamesByUtr(row.settlements \cup other.settlements, b)

RowsHold ==
  /\ \A i \in DOMAIN results : Backed(results[i])
  /\ \A i, j \in DOMAIN results : i # j => SharesFairly(results[i], results[j])

\* Relationships not yet applied: of open settlements, free bulk credits, and buckets passed.
Waits(rel, c) ==
  /\ rel.settlements \subseteq OpenSettlements /\ rel.banks \subseteq Bulk \ matched
  /\ \A s \in rel.settlements : DateBucket(batch.settlements[s].time) < c
  /\ \A b \in rel.banks : DateBucket(batch.bank[b].time) < c

Waiting ==
  /\ \A i \in DOMAIN relationships : Relates(relationships[i], SettlementIds, Credits)
  /\ stage = "partitions" => \A i \in DOMAIN relationships : Waits(relationships[i], cursor)

\* The credits the rows show are those in use; once the orphans are found, a credit no
\* row shows shares the UTR of a settlement.
Claims ==
  /\ stage = "match" => Attributed = matched
  /\ stage = "orphans" => /\ matched \subseteq Attributed
                          /\ \A b \in Attributed : b \in matched \/ b < cursor
                          /\ \A b \in Credits : b < cursor => b \in Attributed \/ SharesUtr(b)
  /\ (stage \in {"bulk", "split", "many", "partitions"} \/ (~scale /\ stage \in {"gate", "done"}))
       => Attributed \subseteq matched
  /\ stage \in {"bulk", "split", "many", "partitions", "gate", "done"}
       => \A b \in Credits : b \in Attributed \/ SharesUtr(b)

\* The same batch says the same of rows and relationships.
LEMMA SameRows ==
  ASSUME batch' = batch
  PROVE  /\ \A row : Backed(row)' = Backed(row)
         /\ \A S, b : NamesByUtr(S, b)' = NamesByUtr(S, b)
         /\ \A row, other : SharesFairly(row, other)' = SharesFairly(row, other)
         /\ \A b : SharesUtr(b)' = SharesUtr(b)
         /\ \A rel, S, B : Relates(rel, S, B)' = Relates(rel, S, B)
<1>1. Credits' = Credits /\ SettlementIds' = SettlementIds /\ RelRecord' = RelRecord
      /\ SettlementAmount' = SettlementAmount /\ BankAmount' = BankAmount
  BY SameBatch DEF SettlementAmount, BankAmount, SettlementIds
<1>2. \A row : Backed(row)' = Backed(row)
  BY <1>1 DEF Backed
<1>3. \A S, b : NamesByUtr(S, b)' = NamesByUtr(S, b)
  BY DEF NamesByUtr
<1>4. \A row, other : SharesFairly(row, other)' = SharesFairly(row, other)
  BY <1>3 DEF SharesFairly
<1>5. \A b : SharesUtr(b)' = SharesUtr(b)
  BY <1>1 DEF SharesUtr
<1>6. \A rel, S, B : Relates(rel, S, B)' = Relates(rel, S, B)
  BY <1>1 DEF Relates
<1> QED
  BY <1>2, <1>3, <1>4, <1>5, <1>6

\* What it takes for the next rows to hold.
LEMMA RowsHoldAfter ==
  ASSUME batch' = batch,
         \A i \in DOMAIN results' : Backed(results'[i]),
         \A i, j \in DOMAIN results' : i # j => SharesFairly(results'[i], results'[j])
  PROVE  RowsHold'
<1>1. Credits' = Credits /\ SettlementIds' = SettlementIds
  BY SameBatch
<1>2. ASSUME NEW i \in DOMAIN results'
      PROVE  Backed(results[i])'
  BY <1>1 DEF Backed
<1>3. ASSUME NEW i \in DOMAIN results', NEW j \in DOMAIN results', i # j
      PROVE  SharesFairly(results[i], results[j])'
  <2>1. SharesFairly(results'[i], results'[j])
    BY <1>3
  <2> QED
    BY <2>1 DEF SharesFairly, NamesByUtr
<1> QED
  BY <1>2, <1>3 DEF RowsHold

\* One more row, whose credits it names by UTR or no row has.
LEMMA RowAdded ==
  ASSUME batch' = batch, results \in Seq(RowRecord), RowsHold, NEW row \in RowRecord,
         results' = Append(results, row), Backed(row),
         \A b \in row.banks : NamesByUtr(row.settlements, b) \/ b \notin Attributed
  PROVE  RowsHold' /\ Attributed' = Attributed \cup row.banks
<1> DEFINE n == Len(results)
<1>1. /\ n \in Nat /\ DOMAIN results = 1..n /\ DOMAIN results' = 1..(n + 1)
      /\ \A i \in 1..n : results'[i] = results[i] /\ i # n + 1
      /\ results'[n + 1] = row /\ \A i \in 1..(n + 1) : i \in 1..n \/ i = n + 1
  OBVIOUS
<1> HIDE DEF n
<1>2. \A i \in DOMAIN results' : Backed(results'[i])
  BY <1>1 DEF RowsHold
<1>3. ASSUME NEW i \in 1..n
      PROVE  SharesFairly(results[i], row) /\ SharesFairly(row, results[i])
  <2>1. ASSUME NEW b \in row.banks, b \in results[i].banks
        PROVE  NamesByUtr(row.settlements, b)
    <3>1. b \in Attributed
      BY <1>1, <2>1 DEF Attributed
    <3> QED
      BY <3>1
  <2> QED
    BY <2>1 DEF SharesFairly, NamesByUtr
<1>4. \A i, j \in DOMAIN results' : i # j => SharesFairly(results'[i], results'[j])
  <2>1. ASSUME NEW i \in DOMAIN results', NEW j \in DOMAIN results', i # j
        PROVE  SharesFairly(results'[i], results'[j])
    <3>1. CASE i \in 1..n /\ j \in 1..n
      BY <1>1, <2>1, <3>1 DEF RowsHold
    <3>2. CASE i \in 1..n /\ j = n + 1
      BY <1>1, <1>3, <3>2
    <3>3. CASE i = n + 1 /\ j \in 1..n
      BY <1>1, <1>3, <3>3
    <3> QED
      BY <1>1, <2>1, <3>1, <3>2, <3>3
  <2> QED
    BY <2>1
<1>5. RowsHold'
  BY <1>2, <1>4, RowsHoldAfter
<1>6. Attributed' = Attributed \cup row.banks
  <2>1. \A b : b \in Attributed <=> \E i \in 1..n : b \in results[i].banks
    BY <1>1 DEF Attributed
  <2>2. \A b : b \in Attributed' <=> \E i \in 1..(n + 1) : b \in results'[i].banks
    BY <1>1 DEF Attributed
  <2>3. n + 1 \in 1..(n + 1) /\ \A i \in 1..n : i \in 1..(n + 1)
    BY <1>1
  <2>4. \A b : b \in Attributed' <=> b \in Attributed \/ b \in row.banks
    BY <1>1, <2>1, <2>2, <2>3
  <2> QED
    BY <2>4
<1> QED
  BY <1>5, <1>6

\* Rows taken over by relationships of open settlements.
LEMMA RewrittenHolds ==
  ASSUME batch \in BatchRecord, results \in Seq(RowRecord), batch' = batch, NEW R,
         Rewritten(results, results', R),
         \A rel \in R : Relates(rel, OpenSettlements, Credits)
  PROVE  /\ RowsHold => RowsHold'
         /\ Attributed \subseteq Attributed'
         /\ Attributed' \subseteq Attributed \cup UNION {rel.banks : rel \in R}
         /\ \A p : RowOf(p)' = RowOf(p)
<1>1. /\ results' \in Seq(RowRecord) /\ Len(results') = Len(results)
      /\ DOMAIN results' = DOMAIN results
  BY DEF Rewritten
<1>2. \A p : RowOf(p)' = RowOf(p)
  BY <1>1, RowOfStays DEF Rewritten
<1>3. ASSUME NEW rel \in R, NEW i \in DOMAIN results, Hits(rel, i) # {}
      PROVE  results[i].banks = {}
  <2>1. PICK s \in rel.settlements : RowOf(batch.settlements[s].payment) = i
    BY <1>3 DEF Hits
  <2>2. s \in OpenSettlements
    BY <2>1 DEF Relates
  <2> QED
    BY <2>1, <2>2 DEF OpenSettlements
<1>4. ASSUME NEW i \in DOMAIN results
      PROVE  /\ results'[i].status = results[i].status
             /\ \/ results'[i] = results[i]
                \/ results[i].banks = {} /\ \E rel \in R : TakenOver(results'[i], rel, i)
  <2>1. /\ results'[i].status = results[i].status
        /\ IF \E rel \in R : Hits(rel, i) # {} THEN \E rel \in R : TakenOver(results'[i], rel, i)
           ELSE results'[i] = results[i]
    BY DEF Rewritten
  <2> QED
    BY <1>3, <2>1
<1>5. ASSUME RowsHold
      PROVE  RowsHold'
  <2>1. ASSUME NEW i \in DOMAIN results
        PROVE  Backed(results'[i])
    <3>1. Backed(results[i])
      BY <1>5 DEF RowsHold
    <3>2. CASE results'[i] = results[i]
      BY <3>1, <3>2
    <3>3. CASE results[i].banks = {}
      <4>1. results[i].status # "AUTO_MATCHED"
        BY <3>1, <3>3 DEF Backed
      <4>2. results'[i].status # "AUTO_MATCHED"
        BY <1>4, <4>1
      <4> QED
        BY <4>2 DEF Backed
    <3> QED
      BY <1>4, <3>2, <3>3
  <2>2. ASSUME NEW i \in DOMAIN results, NEW rel \in R, TakenOver(results'[i], rel, i),
               results'[i].type = "1:1", NEW b \in results'[i].banks
        PROVE  \E s \in results'[i].settlements :
                 batch.settlements[s].utr = batch.bank[b].utr /\ batch.bank[b].utr # 0
    <3>1. PICK s \in Hits(rel, i) : s \in results'[i].settlements /\ s \in rel.settlements
      BY <2>2 DEF TakenOver, Hits
    <3>2. rel.type = "1:1" /\ b \in rel.banks
      BY <2>2 DEF TakenOver
    <3> QED
      BY <3>1, <3>2 DEF Relates
  <2>3. ASSUME NEW i \in DOMAIN results, NEW j \in DOMAIN results, i # j
        PROVE  SharesFairly(results'[i], results'[j])
    <3>1. CASE results'[i] = results[i] /\ results'[j] = results[j]
      BY <1>5, <2>3, <3>1 DEF RowsHold
    <3>2. CASE \E rel \in R : TakenOver(results'[i], rel, i)
      BY <2>2, <3>2 DEF SharesFairly, NamesByUtr
    <3>3. CASE \E rel \in R : TakenOver(results'[j], rel, j)
      BY <2>2, <3>3 DEF SharesFairly, NamesByUtr
    <3> QED
      BY <1>4, <3>1, <3>2, <3>3
  <2> QED
    BY <1>1, <2>1, <2>3, RowsHoldAfter
<1>6. Attributed \subseteq Attributed'
  <2>1. ASSUME NEW i \in DOMAIN results, NEW b \in results[i].banks
        PROVE  b \in results'[i].banks
    BY <1>4
  <2> QED
    BY <1>1, <2>1 DEF Attributed
<1>7. Attributed' \subseteq Attributed \cup UNION {rel.banks : rel \in R}
  <2>1. ASSUME NEW i \in DOMAIN results, NEW b \in results'[i].banks
        PROVE  b \in results[i].banks \/ \E rel \in R : b \in rel.banks
    BY <1>4 DEF TakenOver
  <2> QED
    BY <1>1, <2>1 DEF Attributed
<1> QED
  BY <1>2, <1>5, <1>6, <1>7

Held == RowsHold /\ Waiting /\ Claims

\* There are no rows at first.
LEMMA HeldInit ==
  MatchingInit => Held
<1> SUFFICES ASSUME MatchingInit PROVE Held
  OBVIOUS
<1>1. stage = "match" /\ results = << >> /\ relationships = << >> /\ matched = {}
  BY DEF MatchingInit, MatchingStart
<1>2. Attributed = {}
  BY <1>1 DEF Attributed
<1> QED
  BY <1>1, <1>2 DEF Held, RowsHold, Waiting, Claims

\* Every step keeps the rows backed, the waiting relationships disjoint from what is taken,
\* and the credits the rows show in use.
LEMMA HeldNext ==
  MatchTyped /\ Phased /\ Held /\ [MatchingNext]_matchVars => Held'
<1> SUFFICES ASSUME MatchTyped, Phased, Held, [MatchingNext]_matchVars
             PROVE  Held'
  OBVIOUS
<1>0. /\ batch \in BatchRecord /\ scale \in BOOLEAN /\ cursor \in Nat /\ stage \in Stages
      /\ matched \subseteq Credits
      /\ results \in Seq(RowRecord) /\ relationships \in Seq(RelRecord)
      /\ RowsHold /\ Waiting /\ Claims
      /\ \A b \in Credits : b \in 1..Len(batch.bank)
      /\ Attributed \subseteq Credits
  BY BatchTypes, AttributedCredits DEF MatchTyped, Held
<1>1. CASE MatchPayment
  <2>1. /\ UNCHANGED <<batch, scale, stage, relationships, gate>> /\ cursor' = cursor + 1
        /\ stage = "match" /\ relationships = << >> /\ Attributed = matched
    BY <1>0, <1>1 DEF MatchPayment, Phased, Claims
  <2>2. RowsHold' /\ Attributed' = matched'
    <3>1. CASE batch.payments[cursor].status = "captured"
      <4> DEFINE row == MatchOf(cursor)
      <4>1. results' = Append(results, row) /\ matched' = matched \cup row.banks
        BY <1>1, <3>1 DEF MatchPayment
      <4>2. cursor \in Payments
        <5>1. cursor # 0 /\ cursor <= Len(batch.payments)
          BY <1>1, <2>1 DEF MatchPayment, Phased
        <5>2. Payments = 1..Len(batch.payments) /\ Len(batch.payments) \in Nat
          BY <1>0, BatchTypes
        <5> QED
          BY <1>0, <5>1, <5>2
      <4>3. MatchRow(row, cursor, SettlementsOf(cursor))
        BY <1>0, <4>2, MatchOfFacts
      <4> HIDE DEF row
      <4>4. /\ row \in RowRecord /\ Backed(row)
            /\ \A b \in row.banks : NamesByUtr(row.settlements, b) \/ b \notin Attributed
        BY <2>1, <4>3 DEF MatchRow
      <4>5. RowsHold' /\ Attributed' = Attributed \cup row.banks
        BY <1>0, <2>1, <4>1, <4>4, RowAdded
      <4> QED
        BY <2>1, <4>1, <4>5
    <3>2. CASE batch.payments[cursor].status # "captured"
      <4>1. UNCHANGED <<results, matched>>
        BY <1>1, <3>2 DEF MatchPayment
      <4>2. Attributed' = Attributed
        BY <4>1 DEF Attributed
      <4>3. RowsHold'
        BY <1>0, <2>1, <4>1, RowsHoldAfter DEF RowsHold
      <4> QED
        BY <2>1, <4>1, <4>2, <4>3
    <3> QED
      BY <3>1, <3>2
  <2> QED
    BY <2>1, <2>2 DEF Held, Waiting, Claims
<1>2. CASE DetectOrphan
  <2>1. /\ UNCHANGED <<batch, scale, stage, matched, relationships, gate>> /\ cursor' = cursor + 1
        /\ results' = IF IsOrphan(cursor) THEN Append(results, OrphanRow(cursor)) ELSE results
        /\ stage = "orphans" /\ relationships = << >>
    BY <1>2 DEF DetectOrphan, Phased
  <2>2. /\ matched \subseteq Attributed
        /\ \A b \in Attributed : b \in matched \/ b < cursor
        /\ \A b \in Credits : b < cursor => b \in Attributed \/ SharesUtr(b)
    BY <1>0, <2>1 DEF Claims
  <2>3. RowsHold' /\ Attributed' = Attributed \cup (IF IsOrphan(cursor) THEN {cursor} ELSE {})
    <3>1. CASE IsOrphan(cursor)
      <4> DEFINE row == OrphanRow(cursor)
      <4>1. cursor \in Credits \ matched
        BY <3>1 DEF IsOrphan
      <4>2. /\ row \in RowRecord /\ row.banks = {cursor} /\ row.status = "ORPHAN_BANK_CREDIT"
        BY <1>0, <4>1, OrphanRowType DEF FreshRow
      <4> HIDE DEF row
      <4>3. Backed(row)
        BY <4>2 DEF Backed
      <4>4. cursor \notin Attributed
        BY <1>0, <2>2, <4>1
      <4>5. results' = Append(results, row)
        BY <2>1, <3>1 DEF row
      <4>6. RowsHold' /\ Attributed' = Attributed \cup row.banks
        BY <1>0, <2>1, <4>2, <4>3, <4>4, <4>5, RowAdded
      <4> QED
        BY <3>1, <4>2, <4>6
    <3>2. CASE ~IsOrphan(cursor)
      <4>1. results' = results
        BY <2>1, <3>2
      <4>2. Attributed' = Attributed
        BY <4>1 DEF Attributed
      <4>3. RowsHold'
        BY <1>0, <2>1, <4>1, RowsHoldAfter DEF RowsHold
      <4> QED
        BY <3>2, <4>2, <4>3
    <3> QED
      BY <3>1, <3>2
  <2>4. Credits' = Credits /\ \A b : SharesUtr(b)' = SharesUtr(b)
    BY <2>1, SameBatch, SameRows
  <2>5. \A b \in Attributed' : b \in matched' \/ b < cursor'
    <3>1. ASSUME NEW b \in Attributed' PROVE b \in matched' \/ b < cursor'
      <4>1. b \in Attributed \/ b = cursor
        BY <2>3
      <4>2. b \in Attributed => b \in matched \/ (b < cursor /\ b \in 1..Len(batch.bank))
        BY <1>0, <2>2
      <4> QED
        BY <1>0, <2>1, <4>1, <4>2
    <3> QED
      BY <3>1
  <2>6. ASSUME NEW b \in Credits, b < cursor'
        PROVE  b \in Attributed' \/ SharesUtr(b)
    <3>1. b < cursor \/ b = cursor
      BY <1>0, <2>1, <2>6
    <3>2. CASE b < cursor
      BY <2>2, <2>3, <3>2
    <3>3. CASE b = cursor
      BY <2>2, <2>3, <3>3 DEF IsOrphan
    <3> QED
      BY <3>1, <3>2, <3>3
  <2>7. Claims'
    BY <2>1, <2>2, <2>3, <2>4, <2>5, <2>6 DEF Claims
  <2> QED
    BY <2>1, <2>3, <2>7 DEF Held, Waiting
<1>3. CASE NextStage
  <2>1. /\ UNCHANGED <<batch, scale, results, relationships, gate>>
        /\ matched' = IF stage = "orphans" THEN Attributed ELSE matched
        /\ cursor' = IF stage' = "partitions" THEN 0 ELSE 1
        /\ \/ stage = "match" /\ stage' = "orphans"
           \/ /\ stage = "orphans" /\ cursor > Len(batch.bank)
              /\ stage' \in {"partitions", "bulk"}
           \/ stage = "bulk" /\ stage' = "split"
           \/ stage = "split" /\ stage' = "many"
    BY <1>3 DEF NextStage
  <2>2. /\ Attributed' = Attributed /\ Credits' = Credits
        /\ \A b : SharesUtr(b)' = SharesUtr(b)
    BY <2>1, SameBatch, SameRows DEF Attributed
  <2>3. RowsHold'
    BY <1>0, <2>1, RowsHoldAfter DEF RowsHold
  <2>4. CASE stage = "match"
    <3>1. \A b \in Credits : ~(b < 1)
      BY <1>0
    <3>2. Claims'
      BY <1>0, <2>1, <2>2, <2>4, <3>1 DEF Claims
    <3>3. Waiting'
      BY <2>1, <2>4 DEF Waiting, Phased
    <3> QED
      BY <2>3, <3>2, <3>3 DEF Held
  <2>5. CASE stage = "orphans"
    <3>1. \A b \in Credits : b < cursor
      BY <1>0, <2>1, <2>5, BatchTypes
    <3>2. \A b \in Credits : b \in Attributed \/ SharesUtr(b)
      BY <1>0, <2>5, <3>1 DEF Claims
    <3>3. Claims'
      BY <2>1, <2>2, <2>5, <3>2 DEF Claims
    <3>4. Waiting'
      BY <2>1, <2>5 DEF Waiting, Phased
    <3> QED
      BY <2>3, <3>3, <3>4 DEF Held
  <2>6. CASE stage \in {"bulk", "split"}
    <3>1. Claims'
      BY <1>0, <2>1, <2>2, <2>6 DEF Claims
    <3>2. Waiting'
      BY <1>0, <2>1, <2>2, <2>6, SameBatch, SameRows DEF Waiting
    <3> QED
      BY <2>3, <3>1, <3>2 DEF Held
  <2> QED
    BY <2>1, <2>4, <2>5, <2>6
<1>4. CASE Pass
  <2>1. /\ UNCHANGED <<batch, scale, gate>>
        /\ stage \in {"bulk", "split", "many"}
        /\ stage' = IF stage = "many" THEN "gate" ELSE stage
        /\ \/ UNCHANGED <<results, matched, relationships>>
           \/ \E rel : Grouped(rel)
    BY <1>4, PassFacts
  <2>2. Credits' = Credits /\ SettlementIds' = SettlementIds /\ \A b : SharesUtr(b)' = SharesUtr(b)
    BY <2>1, SameBatch, SameRows
  <2>3. /\ Attributed \subseteq matched /\ \A b \in Credits : b \in Attributed \/ SharesUtr(b)
    BY <1>0, <2>1 DEF Claims
  <2>4. CASE UNCHANGED <<results, matched, relationships>>
    <3>1. Attributed' = Attributed
      BY <2>4 DEF Attributed
    <3>2. RowsHold'
      BY <1>0, <2>1, <2>4, RowsHoldAfter DEF RowsHold
    <3>3. Claims'
      BY <2>1, <2>2, <2>3, <2>4, <3>1 DEF Claims
    <3>4. Waiting'
      BY <1>0, <2>1, <2>2, <2>4, SameRows DEF Waiting
    <3> QED
      BY <3>2, <3>3, <3>4 DEF Held
  <2>5. ASSUME NEW rel, Grouped(rel)
        PROVE  Held'
    <3>1. /\ Relates(rel, OpenSettlements, Credits \ matched)
          /\ relationships' = Append(relationships, rel)
          /\ matched' = matched \cup rel.banks
          /\ Rewritten(results, results', {rel})
      BY <2>5 DEF Grouped
    <3>2. Relates(rel, OpenSettlements, Credits) /\ Relates(rel, SettlementIds, Credits)
      BY <3>1 DEF Relates, RelRecord
    <3>3. RowsHold' /\ Attributed \subseteq Attributed' /\ Attributed' \subseteq Attributed \cup rel.banks
      <4>1. \A r \in {rel} : Relates(r, OpenSettlements, Credits)
        BY <3>2
      <4>2. UNION {r.banks : r \in {rel}} = rel.banks
        OBVIOUS
      <4> QED
        BY <1>0, <2>1, <3>1, <4>1, <4>2, RewrittenHolds
    <3>4. Claims'
      BY <2>1, <2>2, <2>3, <3>1, <3>3 DEF Claims
    <3>5. Waiting'
      <4>1. ASSUME NEW i \in DOMAIN relationships'
            PROVE  Relates(relationships'[i], SettlementIds, Credits)
        <5>1. \/ i \in DOMAIN relationships /\ relationships'[i] = relationships[i]
              \/ relationships'[i] = rel
          BY <1>0, <3>1
        <5> QED
          BY <1>0, <3>2, <5>1 DEF Waiting
      <4>2. stage' # "partitions"
        BY <2>1
      <4> QED
        BY <2>1, <2>2, <4>1, <4>2, SameRows DEF Waiting
    <3> QED
      BY <3>3, <3>4, <3>5 DEF Held
  <2> QED
    BY <2>1, <2>4, <2>5
<1>5. CASE ResolvePartition
  <2>1. /\ UNCHANGED <<batch, scale, stage, results, matched, gate>> /\ stage = "partitions"
    BY <1>5, PartitionFacts
  <2>2. PICK k \in Nat :
          /\ cursor <= k /\ cursor' = k + 1
          /\ \/ relationships' = relationships
             \/ \E rel : /\ Relates(rel, SettlementsIn(k), CreditsIn(k))
                         /\ relationships' = Append(relationships, rel)
    BY <1>5, PartitionFacts
  <2>3. /\ Attributed' = Attributed /\ Credits' = Credits /\ SettlementIds' = SettlementIds
        /\ OpenSettlements' = OpenSettlements /\ Bulk' = Bulk
        /\ \A b : SharesUtr(b)' = SharesUtr(b)
        /\ \A rel, S, B : Relates(rel, S, B)' = Relates(rel, S, B)
    BY <2>1, SameBatch, SameRows DEF Attributed, OpenSettlements, Bulk, RowOf, SettlementIds, Credits
  <2>4. RowsHold'
    BY <1>0, <2>1, RowsHoldAfter DEF RowsHold
  <2>5. Claims'
    BY <1>0, <2>1, <2>3 DEF Claims
  <2>6. ASSUME NEW rel, Relates(rel, SettlementIds, Credits), Waits(rel, cursor)
        PROVE  Waits(rel, cursor')
    <3>1. /\ \A s \in rel.settlements : DateBucket(batch.settlements[s].time) \in Nat
          /\ \A b \in rel.banks : DateBucket(batch.bank[b].time) \in Nat
      BY <1>0, <2>6, BucketType DEF Relates
    <3>2. /\ \A s \in rel.settlements : DateBucket(batch.settlements[s].time) < cursor'
          /\ \A b \in rel.banks : DateBucket(batch.bank[b].time) < cursor'
      BY <1>0, <2>2, <2>6, <3>1 DEF Waits
    <3> QED
      BY <2>6, <3>2 DEF Waits
  <2>7. ASSUME NEW rel, Relates(rel, SettlementsIn(k), CreditsIn(k))
        PROVE  Relates(rel, SettlementIds, Credits) /\ Waits(rel, cursor')
    <3>1. /\ rel.settlements \subseteq OpenSettlements /\ rel.banks \subseteq Bulk \ matched
          /\ \A s \in rel.settlements : DateBucket(batch.settlements[s].time) = k
          /\ \A b \in rel.banks : DateBucket(batch.bank[b].time) = k
      BY <2>7 DEF Relates, SettlementsIn, CreditsIn
    <3>2. Relates(rel, SettlementIds, Credits)
      BY <2>7 DEF Relates, RelRecord
    <3>3. k < cursor'
      BY <2>2
    <3> QED
      BY <3>1, <3>2, <3>3 DEF Waits
  <2>8. \A i \in DOMAIN relationships : Relates(relationships[i], SettlementIds, Credits)
                                        /\ Waits(relationships[i], cursor')
    BY <1>0, <2>1, <2>6 DEF Waiting
  <2>9. \A i \in DOMAIN relationships' : Relates(relationships'[i], SettlementIds, Credits)
                                         /\ Waits(relationships'[i], cursor')
    <3>1. CASE relationships' = relationships
      BY <2>8, <3>1
    <3>2. ASSUME NEW rel, Relates(rel, SettlementsIn(k), CreditsIn(k)),
                 relationships' = Append(relationships, rel), NEW i \in DOMAIN relationships'
          PROVE  Relates(relationships'[i], SettlementIds, Credits)
                 /\ Waits(relationships'[i], cursor')
      <4>1. \/ i \in DOMAIN relationships /\ relationships'[i] = relationships[i]
            \/ relationships'[i] = rel
        BY <1>0, <3>2
      <4> QED
        BY <2>7, <2>8, <3>2, <4>1
    <3> QED
      BY <2>2, <3>1, <3>2
  <2>10. \A rel : Waits(rel, cursor)' = Waits(rel, cursor')
    BY <2>1, <2>3 DEF Waits
  <2>11. Waiting'
    BY <2>3, <2>9, <2>10 DEF Waiting
  <2> QED
    BY <2>4, <2>5, <2>11 DEF Held
<1>6. CASE ApplyRelationships
  <2> DEFINE R == {relationships[i] : i \in DOMAIN relationships}
  <2>1. /\ UNCHANGED <<batch, scale, cursor, relationships, gate>>
        /\ stage = "partitions" /\ stage' = "gate" /\ scale
    BY <1>6 DEF ApplyRelationships, Phased
  <2>2. Rewritten(results, results', R)
    BY <1>0, <1>6, AppliedInTurn
  <2>3. \A rel \in R : Relates(rel, OpenSettlements, Credits)
    <3>1. \A rel \in R : Relates(rel, SettlementIds, Credits) /\ rel.settlements \subseteq OpenSettlements
      BY <1>0, <2>1 DEF Waiting, Waits
    <3> HIDE DEF R
    <3> QED
      BY <3>1 DEF Relates
  <2> HIDE DEF R
  <2>4. RowsHold' /\ Attributed \subseteq Attributed'
    BY <1>0, <2>1, <2>2, <2>3, RewrittenHolds
  <2>5. Credits' = Credits /\ SettlementIds' = SettlementIds /\ \A b : SharesUtr(b)' = SharesUtr(b)
    BY <2>1, SameBatch, SameRows
  <2>6. Claims'
    BY <1>0, <2>1, <2>4, <2>5 DEF Claims
  <2>7. Waiting'
    BY <1>0, <2>1, <2>5, SameRows DEF Waiting
  <2> QED
    BY <2>4, <2>6, <2>7 DEF Held
<1>7. CASE EvaluateInvariants \/ UNCHANGED matchVars
  <2>1. /\ UNCHANGED <<batch, scale, cursor, results, matched, relationships>>
        /\ stage' = stage \/ (stage = "gate" /\ stage' = "done")
    BY <1>7 DEF EvaluateInvariants, matchVars
  <2>2. /\ Credits' = Credits /\ SettlementIds' = SettlementIds /\ Attributed' = Attributed
        /\ OpenSettlements' = OpenSettlements /\ Bulk' = Bulk
        /\ \A b : SharesUtr(b)' = SharesUtr(b)
        /\ \A rel, S, B : Relates(rel, S, B)' = Relates(rel, S, B)
    BY <2>1, SameBatch, SameRows DEF Attributed, OpenSettlements, Bulk, RowOf, SettlementIds, Credits
  <2>3. RowsHold'
    BY <1>0, <2>1, RowsHoldAfter DEF RowsHold
  <2>4. Claims'
    BY <1>0, <2>1, <2>2 DEF Claims
  <2>5. \A rel : Waits(rel, cursor)' = Waits(rel, cursor)
    BY <2>1, <2>2 DEF Waits
  <2>6. Waiting'
    BY <1>0, <2>1, <2>2, <2>5 DEF Waiting
  <2> QED
    BY <2>3, <2>4, <2>6 DEF Held
<1> QED
  BY <1>1, <1>2, <1>3, <1>4, <1>5, <1>6, <1>7 DEF MatchingNext, Pass

\* In every state.
LEMMA HeldAlways ==
  MatchingSpec => [](MatchTyped /\ Phased /\ Held)
<1>1. MatchingInit => MatchTyped /\ Phased /\ Held
  BY MatchTypedInit, HeldInit
<1>2. (MatchTyped /\ Phased /\ Held) /\ [MatchingNext]_matchVars => (MatchTyped /\ Phased /\ Held)'
  BY MatchTypedNext, HeldNext
<1> QED
  BY <1>1, <1>2, PTL DEF MatchingSpec

\* Then the matches are sound.
LEMMA HeldIsSound ==
  MatchTyped /\ RowsHold => MatchesSound
<1> SUFFICES ASSUME MatchTyped, RowsHold PROVE MatchesSound
  OBVIOUS
<1>1. MatchedIsBacked
  BY DEF RowsHold, MatchedIsBacked, Backed
<1>2. SharedOnlyByUtr
  <2>1. ASSUME NEW i \in DOMAIN results, NEW j \in DOMAIN results,
               NEW b \in results[i].banks \cap results[j].banks,
               i < j, results[i].type = "1:1", results[j].type = "1:1"
        PROVE  NamesByUtr(results[i].settlements \cup results[j].settlements, b)
    <3>1. i # j
      <4>1. i \in Int /\ j \in Int
        BY DEF MatchTyped
      <4> QED
        BY <2>1, <4>1
    <3> QED
      BY <2>1, <3>1 DEF RowsHold, SharesFairly
  <2> QED
    BY <2>1 DEF SharedOnlyByUtr, NamesByUtr
<1> QED
  BY <1>1, <1>2 DEF MatchesSound

\* Whatever the batch: a payment is reported AUTO_MATCHED only with one settlement of the
\* expected amount and one credit of about that amount on time, and two payments share a
\* credit only if one of them names it by its UTR (matcher.ts 140-265, 382).
THEOREM MatchesStaySound ==
  MatchingSpec => []MatchesSound
<1>1. MatchTyped /\ Phased /\ Held => MatchesSound
  BY HeldIsSound DEF Held
<1> QED
  BY <1>1, HeldAlways, PTL

-----------------------------------------------------------------------------
(* Grouped once *)

\* On the path of small batches, the rows of the grouped settlements show their group.
Labelled ==
  ~scale =>
    \A i \in DOMAIN relationships :
      /\ relationships[i].banks \subseteq matched
      /\ \A s \in relationships[i].settlements :
           LET r == RowOf(batch.settlements[s].payment)
           IN r # 0 /\ results[r].banks = relationships[i].banks

OnceGrouped == GroupedOnce /\ Labelled

\* Without relationships nothing is grouped twice.
LEMMA NoneGrouped ==
  ASSUME relationships' = << >>
  PROVE  OnceGrouped'
BY DEF OnceGrouped, GroupedOnce, Labelled

\* Nor when rows and relationships stay.
LEMMA GroupedSame ==
  ASSUME OnceGrouped, UNCHANGED <<batch, scale, results, relationships>>, matched \subseteq matched'
  PROVE  OnceGrouped'
<1>1. \A p : RowOf(p)' = RowOf(p)
  BY DEF RowOf
<1>2. GroupedOnce'
  BY DEF OnceGrouped, GroupedOnce
<1>3. Labelled'
  BY <1>1 DEF OnceGrouped, Labelled
<1> QED
  BY <1>2, <1>3 DEF OnceGrouped

\* One more relationship, of settlements and credits no other has.
LEMMA GroupAdded ==
  ASSUME relationships \in Seq(RelRecord), GroupedOnce, NEW rel \in RelRecord,
         relationships' = Append(relationships, rel),
         \A i \in DOMAIN relationships :
            /\ relationships[i].settlements \cap rel.settlements = {}
            /\ relationships[i].banks \cap rel.banks = {}
  PROVE  /\ \A i \in DOMAIN relationships' :
              \/ i \in DOMAIN relationships /\ relationships'[i] = relationships[i]
              \/ relationships'[i] = rel
         /\ \A i, j \in DOMAIN relationships' : i # j =>
              /\ relationships'[i].settlements \cap relationships'[j].settlements = {}
              /\ relationships'[i].banks \cap relationships'[j].banks = {}
<1> DEFINE n == Len(relationships)
<1>1. /\ n \in Nat /\ DOMAIN relationships = 1..n /\ DOMAIN relationships' = 1..(n + 1)
      /\ \A i \in 1..n : relationships'[i] = relationships[i] /\ i # n + 1
      /\ relationships'[n + 1] = rel /\ \A i \in 1..(n + 1) : i \in 1..n \/ i = n + 1
  OBVIOUS
<1> HIDE DEF n
<1>2. ASSUME NEW i \in DOMAIN relationships', NEW j \in DOMAIN relationships', i # j
      PROVE  /\ relationships'[i].settlements \cap relationships'[j].settlements = {}
             /\ relationships'[i].banks \cap relationships'[j].banks = {}
  <2>1. CASE i \in 1..n /\ j \in 1..n
    BY <1>1, <1>2, <2>1 DEF GroupedOnce
  <2>2. CASE i \in 1..n /\ j = n + 1
    BY <1>1, <2>2
  <2>3. CASE i = n + 1 /\ j \in 1..n
    BY <1>1, <2>3
  <2> QED
    BY <1>1, <1>2, <2>1, <2>2, <2>3
<1> QED
  BY <1>1, <1>2

\* An open settlement has a row without credits.
LEMMA OpenRow ==
  ASSUME results \in Seq(RowRecord), NEW s \in OpenSettlements
  PROVE  LET r == RowOf(batch.settlements[s].payment)
         IN /\ r # 0 /\ r \in DOMAIN results /\ results[r].banks = {}
            /\ results[r].payment = batch.settlements[s].payment
BY RowOfFacts DEF OpenSettlements

\* A pass groups what no relationship has.
LEMMA PassGroupsOnce ==
  ASSUME MatchTyped, Held, OnceGrouped, ~scale, Attributed \subseteq matched,
         UNCHANGED <<batch, scale>>, NEW rel, Grouped(rel)
  PROVE  OnceGrouped'
<1>0. /\ batch \in BatchRecord /\ results \in Seq(RowRecord) /\ relationships \in Seq(RelRecord)
      /\ GroupedOnce /\ Labelled /\ Waiting
  BY DEF MatchTyped, Held, OnceGrouped
<1>1. /\ rel \in RelRecord /\ rel.settlements \subseteq OpenSettlements
      /\ rel.banks \cap matched = {} /\ rel.banks # {}
      /\ relationships' = Append(relationships, rel)
      /\ matched' = matched \cup rel.banks
      /\ Rewritten(results, results', {rel})
      /\ Relates(rel, OpenSettlements, Credits)
  BY DEF Grouped, Relates
<1>2. /\ DOMAIN results' = DOMAIN results /\ \A p : RowOf(p)' = RowOf(p)
  <2>1. DOMAIN results' = DOMAIN results
    BY <1>0, <1>1 DEF Rewritten
  <2>2. \A r \in {rel} : Relates(r, OpenSettlements, Credits)
    BY <1>1
  <2> QED
    BY <1>0, <1>1, <2>1, <2>2, RewrittenHolds
<1>3. ASSUME NEW r \in DOMAIN results
      PROVE  /\ results'[r].payment = results[r].payment
             /\ IF Hits(rel, r) # {} THEN results'[r].banks = rel.banks
                ELSE results'[r] = results[r]
  <2>1. /\ results'[r].payment = results[r].payment
        /\ IF \E x \in {rel} : Hits(x, r) # {} THEN \E x \in {rel} : TakenOver(results'[r], x, r)
           ELSE results'[r] = results[r]
    BY <1>1 DEF Rewritten
  <2> QED
    BY <2>1 DEF TakenOver
<1>4. ASSUME NEW r \in DOMAIN results, NEW s \in Hits(rel, r)
      PROVE  /\ s \in rel.settlements /\ results[r].banks = {}
             /\ results[r].payment = batch.settlements[s].payment
  <2>1. s \in rel.settlements /\ RowOf(batch.settlements[s].payment) = r
    BY DEF Hits
  <2>2. s \in OpenSettlements
    BY <1>1, <2>1
  <2> QED
    BY <1>0, <2>1, <2>2, OpenRow
<1>5. ASSUME NEW i \in DOMAIN relationships
      PROVE  /\ relationships[i].settlements \cap rel.settlements = {}
             /\ relationships[i].banks \cap rel.banks = {}
             /\ relationships[i].banks \subseteq matched
             /\ relationships[i].banks # {}
  <2>1. relationships[i].banks \subseteq matched /\ relationships[i].banks # {}
    BY <1>0 DEF Labelled, Waiting, Relates
  <2>2. ASSUME NEW s \in relationships[i].settlements, s \in rel.settlements
        PROVE  FALSE
    <3>1. results[RowOf(batch.settlements[s].payment)].banks = relationships[i].banks
      BY <1>0 DEF Labelled
    <3>2. results[RowOf(batch.settlements[s].payment)].banks = {}
      BY <1>0, <1>1, <2>2, OpenRow
    <3> QED
      BY <2>1, <3>1, <3>2
  <2> QED
    BY <1>1, <2>1, <2>2
<1>6. /\ \A i \in DOMAIN relationships' :
              \/ i \in DOMAIN relationships /\ relationships'[i] = relationships[i]
              \/ relationships'[i] = rel
      /\ \A i, j \in DOMAIN relationships' : i # j =>
              /\ relationships'[i].settlements \cap relationships'[j].settlements = {}
              /\ relationships'[i].banks \cap relationships'[j].banks = {}
  BY <1>0, <1>1, <1>5, GroupAdded
<1>7. ASSUME NEW r \in DOMAIN results, NEW i \in DOMAIN relationships',
             relationships'[i].banks \cap results'[r].banks # {}
      PROVE  \E s \in relationships'[i].settlements :
               batch.settlements[s].payment = results'[r].payment
  <2>1. results[r].banks \subseteq matched
    BY DEF Attributed
  <2>2. CASE i \in DOMAIN relationships /\ relationships'[i] = relationships[i]
    <3>1. Hits(rel, r) = {}
      BY <1>3, <1>5, <1>7, <2>2
    <3>2. results'[r] = results[r]
      BY <1>3, <3>1
    <3>3. relationships[i].banks \cap results[r].banks # {}
      BY <1>7, <2>2, <3>2
    <3>4. \E s \in relationships[i].settlements : batch.settlements[s].payment = results[r].payment
      BY <1>0, <2>2, <3>3 DEF GroupedOnce
    <3> QED
      BY <2>2, <3>2, <3>4
  <2>3. CASE relationships'[i] = rel
    <3>1. Hits(rel, r) # {}
      BY <1>1, <1>3, <1>7, <2>1, <2>3
    <3>2. PICK s \in Hits(rel, r) : TRUE
      BY <3>1
    <3>3. s \in rel.settlements /\ results[r].payment = batch.settlements[s].payment
      BY <1>4
    <3> QED
      BY <1>3, <2>3, <3>3
  <2> QED
    BY <1>6, <2>2, <2>3
<1>8. GroupedOnce'
  BY <1>2, <1>6, <1>7 DEF GroupedOnce
<1>9. ASSUME NEW i \in DOMAIN relationships'
      PROVE  /\ relationships'[i].banks \subseteq matched'
             /\ \A s \in relationships'[i].settlements :
                  LET r == RowOf(batch.settlements[s].payment)
                  IN r # 0 /\ results'[r].banks = relationships'[i].banks
  <2>1. CASE i \in DOMAIN relationships /\ relationships'[i] = relationships[i]
    <3>1. ASSUME NEW s \in relationships[i].settlements
          PROVE  LET r == RowOf(batch.settlements[s].payment)
                 IN r # 0 /\ results'[r].banks = relationships[i].banks
      <4> DEFINE r == RowOf(batch.settlements[s].payment)
      <4>1. r # 0 /\ results[r].banks = relationships[i].banks
        BY <1>0, <2>1 DEF Labelled
      <4>2. r \in DOMAIN results
        BY <1>0, <4>1, RowOfFacts
      <4> HIDE DEF r
      <4>3. Hits(rel, r) = {}
        BY <1>4, <1>5, <2>1, <4>1, <4>2
      <4>4. results'[r] = results[r]
        BY <1>3, <4>2, <4>3
      <4> QED
        BY <4>1, <4>4 DEF r
    <3> QED
      BY <1>1, <1>5, <2>1, <3>1
  <2>2. CASE relationships'[i] = rel
    <3>1. ASSUME NEW s \in rel.settlements
          PROVE  LET r == RowOf(batch.settlements[s].payment)
                 IN r # 0 /\ results'[r].banks = rel.banks
      <4> DEFINE r == RowOf(batch.settlements[s].payment)
      <4>1. r # 0 /\ r \in DOMAIN results
        BY <1>0, <1>1, OpenRow
      <4>2. s \in Hits(rel, r)
        BY DEF Hits
      <4> HIDE DEF r
      <4>3. results'[r].banks = rel.banks
        BY <1>3, <4>1, <4>2
      <4> QED
        BY <4>1, <4>3 DEF r
    <3> QED
      BY <1>1, <2>2, <3>1
  <2> QED
    BY <1>6, <2>1, <2>2
<1>10. Labelled'
  BY <1>2, <1>9 DEF Labelled
<1> QED
  BY <1>8, <1>10 DEF OnceGrouped

\* So does the resolution of a bucket.
LEMMA PartitionGroupsOnce ==
  ASSUME MatchTyped, Phased, Held, OnceGrouped, ResolvePartition
  PROVE  OnceGrouped'
<1>0. /\ batch \in BatchRecord /\ results \in Seq(RowRecord) /\ relationships \in Seq(RelRecord)
      /\ GroupedOnce /\ Waiting /\ Claims /\ cursor \in Nat
  BY DEF MatchTyped, Held, OnceGrouped
<1>1. /\ UNCHANGED <<batch, scale, stage, results, matched, gate>> /\ stage = "partitions" /\ scale
  BY PartitionFacts DEF Phased
<1>2. PICK k \in Nat :
        /\ cursor <= k /\ cursor' = k + 1
        /\ \/ relationships' = relationships
           \/ \E rel : /\ Relates(rel, SettlementsIn(k), CreditsIn(k))
                       /\ relationships' = Append(relationships, rel)
  BY PartitionFacts
<1>3. CASE relationships' = relationships
  BY <1>1, <1>3, GroupedSame
<1>4. ASSUME NEW rel, Relates(rel, SettlementsIn(k), CreditsIn(k)),
             relationships' = Append(relationships, rel)
      PROVE  OnceGrouped'
  <2>1. /\ rel \in RelRecord /\ rel.banks \cap matched = {}
        /\ \A s \in rel.settlements : DateBucket(batch.settlements[s].time) = k
        /\ \A b \in rel.banks : DateBucket(batch.bank[b].time) = k
    BY <1>4 DEF Relates, SettlementsIn, CreditsIn
  <2>2. ASSUME NEW i \in DOMAIN relationships
        PROVE  /\ relationships[i].settlements \cap rel.settlements = {}
               /\ relationships[i].banks \cap rel.banks = {}
    <3>1. /\ \A s \in relationships[i].settlements : DateBucket(batch.settlements[s].time) < cursor
          /\ \A b \in relationships[i].banks : DateBucket(batch.bank[b].time) < cursor
      BY <1>0, <1>1 DEF Waiting, Waits
    <3>2. ~(k < cursor)
      BY <1>0, <1>2
    <3> QED
      BY <2>1, <3>1, <3>2
  <2>3. /\ \A i \in DOMAIN relationships' :
              \/ i \in DOMAIN relationships /\ relationships'[i] = relationships[i]
              \/ relationships'[i] = rel
        /\ \A i, j \in DOMAIN relationships' : i # j =>
              /\ relationships'[i].settlements \cap relationships'[j].settlements = {}
              /\ relationships'[i].banks \cap relationships'[j].banks = {}
    BY <1>0, <1>4, <2>1, <2>2, GroupAdded
  <2>4. ASSUME NEW r \in DOMAIN results, NEW i \in DOMAIN relationships',
               relationships'[i].banks \cap results[r].banks # {}
        PROVE  \E s \in relationships'[i].settlements :
                 batch.settlements[s].payment = results[r].payment
    <3>1. results[r].banks \subseteq matched
      BY <1>0, <1>1 DEF Attributed, Claims
    <3>2. relationships'[i] # rel
      BY <2>1, <2>4, <3>1
    <3> QED
      BY <1>0, <2>3, <2>4, <3>2 DEF GroupedOnce
  <2>5. GroupedOnce'
    BY <1>1, <2>3, <2>4 DEF GroupedOnce
  <2>6. Labelled'
    BY <1>1 DEF Labelled
  <2> QED
    BY <2>5, <2>6 DEF OnceGrouped
<1> QED
  BY <1>2, <1>3, <1>4

\* Applying the relationships of the buckets gives credits to the rows of their own payments.
LEMMA ApplyGroupsOnce ==
  ASSUME MatchTyped, Phased, Held, OnceGrouped, ApplyRelationships
  PROVE  OnceGrouped'
<1> DEFINE R == {relationships[i] : i \in DOMAIN relationships}
<1>0. /\ batch \in BatchRecord /\ results \in Seq(RowRecord) /\ relationships \in Seq(RelRecord)
      /\ GroupedOnce /\ Waiting /\ Claims
  BY DEF MatchTyped, Held, OnceGrouped
<1>1. /\ UNCHANGED <<batch, scale, cursor, relationships, gate>> /\ stage = "partitions" /\ scale
  BY DEF ApplyRelationships, Phased
<1>2. Rewritten(results, results', R)
  BY <1>0, AppliedInTurn
<1>3. DOMAIN results' = DOMAIN results
  BY <1>0, <1>2 DEF Rewritten
<1>4. ASSUME NEW i \in DOMAIN relationships, NEW r \in DOMAIN results,
             relationships[i].banks \cap results'[r].banks # {}
      PROVE  \E s \in relationships[i].settlements :
               batch.settlements[s].payment = results'[r].payment
  <2>1. /\ results'[r].payment = results[r].payment
        /\ \/ results'[r] = results[r]
           \/ \E rel \in R : TakenOver(results'[r], rel, r)
    <3> HIDE DEF R
    <3> QED
      BY <1>2 DEF Rewritten
  <2>2. relationships[i].banks \cap results[r].banks = {}
    <3>1. results[r].banks \subseteq matched
      BY <1>0, <1>1 DEF Attributed, Claims
    <3>2. relationships[i].banks \cap matched = {}
      BY <1>0, <1>1 DEF Waiting, Waits
    <3> QED
      BY <3>1, <3>2
  <2>3. PICK j \in DOMAIN relationships : TakenOver(results'[r], relationships[j], r)
    BY <1>4, <2>1, <2>2
  <2>4. i = j
    BY <1>0, <1>4, <2>3 DEF TakenOver, GroupedOnce
  <2>5. PICK s \in relationships[j].settlements : RowOf(batch.settlements[s].payment) = r
    BY <2>3 DEF TakenOver, Hits
  <2>6. s \in OpenSettlements
    BY <1>0, <1>1, <2>5 DEF Waiting, Waits
  <2>7. results[r].payment = batch.settlements[s].payment
    BY <1>0, <2>5, <2>6, OpenRow
  <2> QED
    BY <2>1, <2>4, <2>5, <2>7
<1>5. GroupedOnce'
  BY <1>0, <1>1, <1>3, <1>4 DEF GroupedOnce
<1>6. Labelled'
  BY <1>1 DEF Labelled
<1> QED
  BY <1>5, <1>6 DEF OnceGrouped

\* Every step groups at most once.
LEMMA OnceGroupedNext ==
  MatchTyped /\ Phased /\ Held /\ OnceGrouped /\ [MatchingNext]_matchVars => OnceGrouped'
<1> SUFFICES ASSUME MatchTyped, Phased, Held, OnceGrouped, [MatchingNext]_matchVars
             PROVE  OnceGrouped'
  OBVIOUS
<1>1. CASE MatchPayment \/ DetectOrphan
  <2>1. relationships' = << >>
    BY <1>1 DEF MatchPayment, DetectOrphan, Phased
  <2> QED
    BY <2>1, NoneGrouped
<1>2. CASE NextStage
  <2>1. /\ UNCHANGED <<batch, scale, results, relationships>>
        /\ matched' = IF stage = "orphans" THEN Attributed ELSE matched
    BY <1>2 DEF NextStage
  <2>2. CASE stage = "orphans"
    BY <2>1, <2>2, NoneGrouped DEF Phased
  <2> QED
    BY <2>1, <2>2, GroupedSame
<1>3. CASE Pass
  <2>1. /\ UNCHANGED <<batch, scale, gate>>
        /\ stage \in {"bulk", "split", "many"}
        /\ \/ UNCHANGED <<results, matched, relationships>>
           \/ \E rel : Grouped(rel)
    BY <1>3, PassFacts
  <2>2. ~scale /\ Attributed \subseteq matched
    BY <2>1 DEF Phased, Held, Claims
  <2>3. CASE UNCHANGED <<results, matched, relationships>>
    BY <2>1, <2>3, GroupedSame
  <2> QED
    BY <2>1, <2>2, <2>3, PassGroupsOnce
<1>4. CASE ResolvePartition
  BY <1>4, PartitionGroupsOnce
<1>5. CASE ApplyRelationships
  BY <1>5, ApplyGroupsOnce
<1>6. CASE EvaluateInvariants \/ UNCHANGED matchVars
  <2>1. UNCHANGED <<batch, scale, results, matched, relationships>>
    BY <1>6 DEF EvaluateInvariants, matchVars
  <2> QED
    BY <2>1, GroupedSame
<1> QED
  BY <1>1, <1>2, <1>3, <1>4, <1>5, <1>6 DEF MatchingNext, Pass

\* Nothing is grouped at first.
LEMMA OnceGroupedInit ==
  MatchingInit => OnceGrouped
BY DEF MatchingInit, MatchingStart, OnceGrouped, GroupedOnce, Labelled

\* In every state.
LEMMA OnceGroupedAlways ==
  MatchingSpec => [](MatchTyped /\ Phased /\ Held /\ OnceGrouped)
<1>1. MatchingInit => MatchTyped /\ Phased /\ Held /\ OnceGrouped
  BY MatchTypedInit, HeldInit, OnceGroupedInit
<1>2. (MatchTyped /\ Phased /\ Held /\ OnceGrouped) /\ [MatchingNext]_matchVars
        => (MatchTyped /\ Phased /\ Held /\ OnceGrouped)'
  BY MatchTypedNext, HeldNext, OnceGroupedNext
<1> QED
  BY <1>1, <1>2, PTL DEF MatchingSpec

\* On both paths, however large the batch and wherever the searches are cut: a settlement or a
\* credit is in one relationship at most, and its credits stand in no row but those of the
\* relationship's payments (apply-cardinality.ts, strategy.ts).
THEOREM AlwaysGroupedOnce ==
  MatchingSpec => []GroupedOnce
<1>1. MatchTyped /\ Phased /\ Held /\ OnceGrouped => GroupedOnce
  BY DEF OnceGrouped
<1> QED
  BY <1>1, OnceGroupedAlways, PTL

-----------------------------------------------------------------------------
(* What the gate adds up *)

\* The captured payments the matcher has come to.
Done == {p \in Captured : stage = "match" => p < cursor}

Nets == [i \in DOMAIN results |-> results[i].net]
NetOf == [p \in Payments |-> ExpectedNet(p)]

\* They have a row with all their settlements, and the rows bring what they should.
Accounted ==
  /\ \A p \in Done : \E i \in DOMAIN results :
        results[i].payment = p /\ SettlementsOf(p) \subseteq results[i].settlements
  /\ Total(Nets, DOMAIN results) = Total(NetOf, Done)

\* The same batch has the same payments.
LEMMA SamePayments ==
  ASSUME batch' = batch
  PROVE  /\ Captured' = Captured /\ NetOf' = NetOf /\ \A p : SettlementsOf(p)' = SettlementsOf(p)
<1>1. \A p : ExpectedNet(p)' = ExpectedNet(p)
  BY DEF ExpectedNet, RefundOf, ChargebackOf
<1> QED
  BY <1>1 DEF Captured, NetOf, SettlementsOf, SettlementIds, Payments

\* What the sums of the gate run over.
LEMMA NetTypes ==
  ASSUME MatchTyped
  PROVE  /\ Len(results) \in Nat /\ DOMAIN results = 1..Len(results)
         /\ Nets \in [1..Len(results) -> Int]
         /\ Len(batch.payments) \in Nat /\ Payments = 1..Len(batch.payments)
         /\ NetOf \in [1..Len(batch.payments) -> Int]
<1>1. results \in Seq(RowRecord) /\ batch \in BatchRecord
  BY DEF MatchTyped
<1>2. /\ Len(results) \in Nat /\ DOMAIN results = 1..Len(results)
      /\ \A i \in 1..Len(results) : results[i] \in RowRecord
  BY <1>1
<1>3. Nets \in [1..Len(results) -> Int]
  BY <1>2 DEF Nets, RowRecord
<1>4. /\ Len(batch.payments) \in Nat /\ Payments = 1..Len(batch.payments)
      /\ NetOf \in [1..Len(batch.payments) -> Int]
  BY <1>1, BatchTypes, Money DEF NetOf
<1> QED
  BY <1>2, <1>3, <1>4

\* One more row: the sum grows by its net amount.
LEMMA NetAdded ==
  ASSUME MatchTyped, NEW row \in RowRecord, results' = Append(results, row)
  PROVE  /\ Total(Nets, DOMAIN results)' = Total(Nets, DOMAIN results) + row.net
         /\ \A i \in DOMAIN results : i \in DOMAIN results' /\ results'[i] = results[i]
         /\ \E i \in DOMAIN results' : results'[i] = row
<1> DEFINE n == Len(results)
<1>0. results \in Seq(RowRecord)
  BY DEF MatchTyped
<1>1. n \in Nat /\ DOMAIN results = 1..n /\ Nets \in [1..n -> Int]
  BY NetTypes
<1>2. /\ DOMAIN results' = 1..(n + 1) /\ results'[n + 1] = row
      /\ \A i \in 1..n : results'[i] = results[i] /\ i \in 1..(n + 1)
      /\ \A i \in 1..(n + 1) : i \in 1..n \/ i = n + 1
      /\ n + 1 \in 1..(n + 1)
  BY <1>0, <1>1
<1> DEFINE longer == [i \in 1..(n + 1) |-> results'[i].net]
<1>3. row.net \in Int /\ \A i \in 1..n : Nets[i] = results[i].net /\ results[i].net \in Int
  <2>1. \A i \in 1..n : results[i] \in RowRecord
    BY <1>0
  <2> HIDE DEF n
  <2> QED
    BY <1>1, <2>1 DEF Nets, RowRecord
<1> HIDE DEF n
<1>4. longer \in [1..(n + 1) -> Int]
  BY <1>2, <1>3
<1>5. \A k \in 1..n : longer[k] = Nets[k]
  BY <1>2, <1>3
<1>6. longer[n + 1] = row.net
  BY <1>2
<1>7. Nets' = longer
  BY <1>2 DEF Nets
<1> HIDE DEF longer
<1>8. Total(longer, 1..(n + 1)) = Total(Nets, 1..n) + longer[n + 1]
  BY <1>1, <1>4, <1>5, TotalLonger
<1>9. Total(Nets, DOMAIN results)' = Total(longer, 1..(n + 1))
  BY <1>2, <1>7
<1> QED
  BY <1>1, <1>2, <1>6, <1>8, <1>9

\* Rewriting rows keeps what they bring and whose they are.
LEMMA NetsKept ==
  ASSUME results \in Seq(RowRecord), NEW R, Rewritten(results, results', R)
  PROVE  /\ Total(Nets, DOMAIN results)' = Total(Nets, DOMAIN results)
         /\ \A i \in DOMAIN results :
              /\ i \in DOMAIN results' /\ results'[i].payment = results[i].payment
              /\ results[i].settlements \subseteq results'[i].settlements
<1>1. DOMAIN results' = DOMAIN results
  BY DEF Rewritten
<1>2. \A i \in DOMAIN results :
              /\ i \in DOMAIN results' /\ results'[i].payment = results[i].payment
              /\ results[i].settlements \subseteq results'[i].settlements
              /\ results'[i].net = results[i].net
  BY <1>1 DEF Rewritten
<1>3. Nets' = Nets
  BY <1>1, <1>2 DEF Nets
<1>4. Total(Nets, DOMAIN results)' = Total(Nets', DOMAIN results')
  OBVIOUS
<1> QED
  BY <1>1, <1>2, <1>3, <1>4

\* No payment is done at first.
LEMMA AccountedInit ==
  MatchTyped /\ MatchingInit => Accounted
<1> SUFFICES ASSUME MatchTyped, MatchingInit PROVE Accounted
  OBVIOUS
<1>1. stage = "match" /\ cursor = 1 /\ results = << >>
  BY DEF MatchingInit, MatchingStart
<1>2. /\ Nets \in [1..Len(results) -> Int] /\ Len(results) \in Nat /\ Len(batch.payments) \in Nat
      /\ NetOf \in [1..Len(batch.payments) -> Int] /\ DOMAIN results = {}
      /\ Payments = 1..Len(batch.payments)
  BY <1>1, NetTypes
<1>3. Done = {}
  <2>1. \A p \in Payments : ~(p < 1)
    BY <1>2
  <2> QED
    BY <1>1, <2>1 DEF Done, Captured
<1>4. Total(Nets, DOMAIN results) = 0
  BY <1>2, TotalEmpty
<1>5. Total(NetOf, Done) = 0
  BY <1>2, <1>3, TotalEmpty
<1> QED
  BY <1>3, <1>4, <1>5 DEF Accounted

\* Every payment the matcher passes gets its row; later steps lose none and add nothing.
LEMMA AccountedNext ==
  MatchTyped /\ Phased /\ Accounted /\ [MatchingNext]_matchVars => Accounted'
<1> SUFFICES ASSUME MatchTyped, Phased, Accounted, [MatchingNext]_matchVars
             PROVE  Accounted'
  OBVIOUS
<1>0. /\ batch \in BatchRecord /\ results \in Seq(RowRecord) /\ relationships \in Seq(RelRecord)
      /\ cursor \in Nat
  BY DEF MatchTyped
<1>b. batch' = batch
  <2>1. CASE Pass
    BY <2>1, PassFacts
  <2> QED
    BY <2>1 DEF MatchingNext, Pass, MatchPayment, DetectOrphan, NextStage, ResolvePartition,
                ApplyRelationships, EvaluateInvariants, matchVars
<1>c. /\ Captured' = Captured /\ NetOf' = NetOf /\ \A p : SettlementsOf(p)' = SettlementsOf(p)
  BY <1>b, SamePayments
<1>d. /\ Len(batch.payments) \in Nat /\ Payments = 1..Len(batch.payments)
      /\ NetOf \in [1..Len(batch.payments) -> Int] /\ \A p \in Captured : p \in Payments
  BY NetTypes DEF Captured
<1>1. CASE MatchPayment
  <2>1. /\ stage = "match" /\ stage' = "match" /\ cursor' = cursor + 1
        /\ cursor # 0 /\ cursor <= Len(batch.payments)
    BY <1>1 DEF MatchPayment, Phased
  <2>2. cursor \in Payments
    BY <1>0, <1>d, <2>1
  <2>3. \A p \in Captured : p < cursor' <=> p < cursor \/ p = cursor
    BY <1>0, <1>d, <2>1
  <2>4. CASE batch.payments[cursor].status = "captured"
    <3> DEFINE row == MatchOf(cursor)
    <3>1. results' = Append(results, row)
      BY <1>1, <2>4 DEF MatchPayment
    <3>2. /\ row \in RowRecord /\ row.payment = cursor /\ row.settlements = SettlementsOf(cursor)
          /\ row.net = ExpectedNet(cursor)
      BY <1>0, <2>2, MatchOfFacts DEF MatchRow
    <3> HIDE DEF row
    <3>3. cursor \in Captured
      BY <2>2, <2>4 DEF Captured
    <3>a. Done = {p \in Captured : p < cursor}
      BY <2>1 DEF Done
    <3>b. Done' = {p \in Captured : p < cursor'}
      BY <1>c, <2>1 DEF Done
    <3>c. Done' = Done \cup {cursor}
      BY <2>3, <3>3, <3>a, <3>b
    <3>d. ~(cursor < cursor)
      BY <1>0
    <3>e. Done \cap {cursor} = {}
      BY <3>a, <3>d
    <3>4. Done' = Done \cup {cursor} /\ Done \cap {cursor} = {}
      BY <3>c, <3>e
    <3>5. Total(Nets, DOMAIN results)' = Total(Nets, DOMAIN results) + row.net
      BY <3>1, <3>2, NetAdded
    <3>6. Total(NetOf, Done \cup {cursor}) = Total(NetOf, Done) + Total(NetOf, {cursor})
      BY <1>d, <3>4, TotalUnion
    <3>7. Total(NetOf, {cursor}) = row.net
      BY <1>d, <2>2, <3>2, TotalOne DEF NetOf
    <3>8. Total(NetOf, Done)' = Total(NetOf, Done \cup {cursor})
      BY <1>c, <3>4
    <3>9. ASSUME NEW p \in Done'
          PROVE  \E i \in DOMAIN results' :
                   results'[i].payment = p /\ SettlementsOf(p) \subseteq results'[i].settlements
      <4>1. CASE p \in Done
        <5>1. PICK i \in DOMAIN results :
                 results[i].payment = p /\ SettlementsOf(p) \subseteq results[i].settlements
          BY <4>1 DEF Accounted
        <5>2. i \in DOMAIN results' /\ results'[i] = results[i]
          BY <3>1, <3>2, NetAdded
        <5> QED
          BY <5>1, <5>2
      <4>2. CASE p = cursor
        <5>1. PICK i \in DOMAIN results' : results'[i] = row
          BY <3>1, <3>2, NetAdded
        <5> QED
          BY <3>2, <4>2, <5>1
      <4> QED
        BY <3>4, <4>1, <4>2
    <3>10. Total(Nets, DOMAIN results)' = Total(NetOf, Done)'
      BY <3>5, <3>6, <3>7, <3>8 DEF Accounted
    <3> QED
      BY <1>c, <3>9, <3>10 DEF Accounted
  <2>5. CASE batch.payments[cursor].status # "captured"
    <3>1. results' = results
      BY <1>1, <2>5 DEF MatchPayment
    <3>2. cursor \notin Captured
      BY <2>5 DEF Captured
    <3>3. Done' = Done
      BY <1>c, <2>1, <2>3, <3>2 DEF Done
    <3> QED
      BY <1>c, <3>1, <3>3 DEF Accounted, Nets
  <2> QED
    BY <2>4, <2>5
<1>2. CASE DetectOrphan
  <2>1. /\ stage = "orphans" /\ stage' = "orphans"
        /\ results' = IF IsOrphan(cursor) THEN Append(results, OrphanRow(cursor)) ELSE results
    BY <1>2 DEF DetectOrphan
  <2>2. Done' = Done
    BY <1>c, <2>1 DEF Done
  <2>3. CASE IsOrphan(cursor)
    <3> DEFINE row == OrphanRow(cursor)
    <3>1. row \in RowRecord /\ row.net = 0
      BY <1>0, <2>3, OrphanRowType DEF FreshRow, IsOrphan
    <3>2. results' = Append(results, row)
      BY <2>1, <2>3
    <3> HIDE DEF row
    <3>3. /\ Total(Nets, DOMAIN results)' = Total(Nets, DOMAIN results) + 0
          /\ \A i \in DOMAIN results : i \in DOMAIN results' /\ results'[i] = results[i]
      BY <3>1, <3>2, NetAdded
    <3>4. Total(Nets, DOMAIN results) \in Int
      BY NetTypes, TotalType
    <3>5. Total(Nets, DOMAIN results)' = Total(NetOf, Done)'
      BY <1>c, <2>2, <3>3, <3>4 DEF Accounted
    <3>6. ASSUME NEW p \in Done'
          PROVE  \E i \in DOMAIN results' :
                   results'[i].payment = p /\ SettlementsOf(p) \subseteq results'[i].settlements
      BY <2>2, <3>3 DEF Accounted
    <3> QED
      BY <1>c, <3>5, <3>6 DEF Accounted
  <2>4. CASE ~IsOrphan(cursor)
    BY <1>c, <2>1, <2>2, <2>4 DEF Accounted, Nets
  <2> QED
    BY <2>3, <2>4
<1>3. CASE NextStage
  <2>1. /\ results' = results /\ stage' # "match"
        /\ stage = "match" => cursor > Len(batch.payments)
    BY <1>3 DEF NextStage
  <2>2. Done' = Done
    <3>1. stage = "match" => \A p \in Captured : p < cursor
      BY <1>0, <1>d, <2>1
    <3> QED
      BY <1>c, <2>1, <3>1 DEF Done
  <2> QED
    BY <1>c, <2>1, <2>2 DEF Accounted, Nets
<1>4. ASSUME NEW R, Rewritten(results, results', R), stage # "match", stage' # "match"
      PROVE  Accounted'
  <2>1. Done' = Done
    BY <1>c, <1>4 DEF Done
  <2>2. /\ Total(Nets, DOMAIN results)' = Total(Nets, DOMAIN results)
        /\ \A i \in DOMAIN results :
             /\ i \in DOMAIN results' /\ results'[i].payment = results[i].payment
             /\ results[i].settlements \subseteq results'[i].settlements
    BY <1>0, <1>4, NetsKept
  <2>3. Total(Nets, DOMAIN results)' = Total(NetOf, Done)'
    BY <1>c, <2>1, <2>2 DEF Accounted
  <2>4. ASSUME NEW p \in Done'
        PROVE  \E i \in DOMAIN results' :
                 results'[i].payment = p /\ SettlementsOf(p) \subseteq results'[i].settlements
    <3>1. PICK i \in DOMAIN results :
             results[i].payment = p /\ SettlementsOf(p) \subseteq results[i].settlements
      BY <2>1 DEF Accounted
    <3> QED
      BY <2>2, <3>1
  <2> QED
    BY <1>c, <2>3, <2>4 DEF Accounted
<1>5. ASSUME results' = results, stage' = stage \/ (stage # "match" /\ stage' # "match"),
             cursor' = cursor \/ stage # "match"
      PROVE  Accounted'
  <2>1. Done' = Done
    BY <1>c, <1>5 DEF Done
  <2> QED
    BY <1>c, <1>5, <2>1 DEF Accounted, Nets
<1>6. CASE Pass
  <2>1. /\ stage \in {"bulk", "split", "many"} /\ stage' = IF stage = "many" THEN "gate" ELSE stage
        /\ results' = results \/ \E rel : Grouped(rel)
    BY <1>6, PassFacts
  <2> QED
    BY <1>4, <1>5, <2>1 DEF Grouped
<1>7. CASE ResolvePartition
  BY <1>5, <1>7 DEF ResolvePartition
<1>8. CASE ApplyRelationships
  <2>1. Rewritten(results, results', {relationships[i] : i \in DOMAIN relationships})
    BY <1>0, <1>8, AppliedInTurn
  <2>2. stage # "match" /\ stage' # "match"
    BY <1>8 DEF ApplyRelationships
  <2> QED
    BY <1>4, <2>1, <2>2
<1>9. CASE EvaluateInvariants \/ UNCHANGED matchVars
  BY <1>5, <1>9 DEF EvaluateInvariants, matchVars
<1> QED
  BY <1>1, <1>2, <1>3, <1>6, <1>7, <1>8, <1>9 DEF MatchingNext, Pass

-----------------------------------------------------------------------------
(* The gate *)

\* Whole parts of naturals; the tolerance is at least that of a single amount.
LEMMA WholeThousands ==
  ASSUME NEW x \in Nat
  PROVE  (x + 500) \div 1000 \in Int
OBVIOUS

\* The tolerance of a sum is at least that of a single amount.
LEMMA AggTolerates ==
  ASSUME NEW x \in Int
  PROVE  AggTolerance(x) \in Int /\ TolerancePaise <= AggTolerance(x)
<1> DEFINE m == (Absolute(x) + 500) \div 1000
<1>1. Absolute(x) \in Nat
  BY DEF Absolute, Distance
<1>2. m \in Int
  BY <1>1, WholeThousands
<1>3. AggTolerance(x) = Larger(TolerancePaise, m)
  BY DEF AggTolerance
<1> HIDE DEF m
<1> QED
  BY <1>2, <1>3 DEF Larger, TolerancePaise

\* Adjustments that all count and name payments of the batch add up to the same by payment.
LEMMA ByPayment ==
  ASSUME NEW n \in Nat, NEW adj \in Seq(AdjustmentRecord),
         \A a \in DOMAIN adj : adj[a].counted /\ adj[a].payment \in 1..n
  PROVE  Total([p \in 1..n |-> AdjustmentOf(adj, p)], 1..n) = Total(AmountsOf(adj), DOMAIN adj)
<1> DEFINE m == Len(adj)
           amounts == AmountsOf(adj)
           upTo(k) == {a \in DOMAIN adj : adj[a].payment \in 1..k}
           at(k) == {a \in DOMAIN adj : adj[a].payment = k /\ adj[a].counted}
           by == [p \in 1..n |-> AdjustmentOf(adj, p)]
<1>1. m \in Nat /\ DOMAIN adj = 1..m /\ amounts \in [1..m -> Int]
  <2>1. m \in Nat /\ DOMAIN adj = 1..m
    OBVIOUS
  <2>2. \A a \in DOMAIN adj : adj[a] \in AdjustmentRecord
    OBVIOUS
  <2>3. \A a \in DOMAIN adj : adj[a].amount \in Int
    BY <2>2 DEF AdjustmentRecord
  <2> HIDE DEF m
  <2> QED
    BY <2>1, <2>3 DEF AmountsOf
<1>2. \A p : AdjustmentOf(adj, p) = Total(amounts, at(p))
  BY DEF AdjustmentOf
<1>3. \A S : Total(amounts, S) \in Int
  <2> HIDE DEF amounts, m
  <2> QED
    BY <1>1, TotalType
<1> HIDE DEF amounts, m
<1>4. by \in [1..n -> Int] /\ \A p \in 1..n : by[p] = Total(amounts, at(p))
  BY <1>2, <1>3
<1> HIDE DEF by, at
<1>5. PICK g \in [0..n -> Int] : Partial(g, by, 1..n, n) /\ Total(by, 1..n) = g[n]
  BY <1>4, TotalIsLast
<1> DEFINE G == {k \in 0..n : g[k] = Total(amounts, upTo(k))}
<1>6. 0 \in G
  <2>1. upTo(0) = {}
    OBVIOUS
  <2>2. Total(amounts, upTo(0)) = 0
    BY <1>1, <2>1, TotalEmpty
  <2>3. g[0] = 0 /\ 0 \in 0..n
    BY <1>5 DEF Partial
  <2> HIDE DEF upTo
  <2> QED
    BY <2>2, <2>3
<1>7. ASSUME NEW k \in 1..n, k - 1 \in G
      PROVE  k \in G
  <2>1. /\ \A x \in 1..n : x \in 1..k <=> x \in 1..(k - 1) \/ x = k
        /\ k \notin 1..(k - 1)
    OBVIOUS
  <2>2. upTo(k) = upTo(k - 1) \cup at(k) /\ upTo(k - 1) \cap at(k) = {}
    BY <2>1 DEF at
  <2>3. Total(amounts, upTo(k)) = Total(amounts, upTo(k - 1)) + Total(amounts, at(k))
    <3> HIDE DEF upTo, G
    <3>1. m \in Nat /\ amounts \in [1..m -> Int] /\ upTo(k - 1) \cap at(k) = {}
      BY <1>1, <2>2
    <3>2. Total(amounts, upTo(k - 1) \cup at(k))
            = Total(amounts, upTo(k - 1)) + Total(amounts, at(k))
      BY ONLY <3>1, TotalUnion
    <3> QED
      BY <2>2, <3>2
  <2>4. g[k] = g[k - 1] + by[k]
    BY <1>5 DEF Partial, Part
  <2>5. by[k] = Total(amounts, at(k))
    BY <1>4
  <2>6. g[k - 1] = Total(amounts, upTo(k - 1))
    BY <1>7
  <2> QED
    BY <2>3, <2>4, <2>5, <2>6
<1>8. n \in G
  <2>1. \A k \in 0..n : k \in G
    <3> HIDE DEF G
    <3> QED
      BY <1>6, <1>7, Upwards
  <2> QED
    BY <2>1
<1>9. upTo(n) = DOMAIN adj
  OBVIOUS
<1> QED
  BY <1>5, <1>8, <1>9 DEF by, amounts

\* What a well-formed batch's rows should bring is what was captured.
LEMMA ExpectedIsCaptured ==
  ASSUME batch \in BatchRecord, WellFormed
  PROVE  /\ Total(NetOf, Captured) = Total(NetAmount, Captured) - AllRefunds - AllChargebacks
         /\ Total(NetAmount, Captured) \in Int /\ AllRefunds \in Int /\ AllChargebacks \in Int
<1> DEFINE n == Len(batch.payments)
           refunds == [p \in 1..n |-> RefundOf(p)]
           chargebacks == [p \in 1..n |-> ChargebackOf(p)]
           kept == [p \in 1..n |-> NetAmount[p] - refunds[p]]
<1>1. /\ n \in Nat /\ Payments = 1..n /\ Captured = 1..n /\ NetAmount \in [1..n -> Int]
      /\ batch.refunds \in Seq(AdjustmentRecord) /\ batch.chargebacks \in Seq(AdjustmentRecord)
  BY BatchTypes DEF WellFormed, BatchRecord
<1>2. \A p : RefundOf(p) \in Int /\ ChargebackOf(p) \in Int
  BY Money
<1>3. refunds \in [1..n -> Int] /\ chargebacks \in [1..n -> Int]
  BY <1>2
<1>4. kept \in [1..n -> Int] /\ \A p \in 1..n : kept[p] = NetAmount[p] - refunds[p]
  <2> HIDE DEF refunds, n
  <2> QED
    BY <1>1, <1>3
<1>5. NetOf \in [1..n -> Int] /\ \A p \in 1..n : NetOf[p] = kept[p] - chargebacks[p]
  <2>1. \A p \in 1..n : /\ NetOf[p] = ExpectedNet(p) /\ NetAmount[p] = batch.payments[p].net
                        /\ refunds[p] = RefundOf(p) /\ chargebacks[p] = ChargebackOf(p)
    BY <1>1 DEF NetOf, NetAmount
  <2>2. \A p \in 1..n : NetOf[p] = kept[p] - chargebacks[p]
    BY <1>4, <2>1 DEF ExpectedNet
  <2>3. NetOf \in [1..n -> Int]
    BY <1>1, Money DEF NetOf
  <2> QED
    BY <2>2, <2>3
<1>6. Total(refunds, 1..n) = AllRefunds
  <2>1. \A a \in DOMAIN batch.refunds :
          batch.refunds[a].counted /\ batch.refunds[a].payment \in 1..n
    BY <1>1 DEF WellFormed
  <2> HIDE DEF n
  <2> QED
    BY <1>1, <2>1, ByPayment DEF AllRefunds, RefundOf
<1>7. Total(chargebacks, 1..n) = AllChargebacks
  <2>1. \A a \in DOMAIN batch.chargebacks :
          batch.chargebacks[a].counted /\ batch.chargebacks[a].payment \in 1..n
    BY <1>1 DEF WellFormed
  <2> HIDE DEF n
  <2> QED
    BY <1>1, <2>1, ByPayment DEF AllChargebacks, ChargebackOf
<1> HIDE DEF n, refunds, chargebacks, kept
<1>8. Total(kept, 1..n) = Total(NetAmount, 1..n) - Total(refunds, 1..n)
  <2>1. /\ n \in Nat /\ NetAmount \in [1..n -> Int] /\ refunds \in [1..n -> Int]
        /\ kept \in [1..n -> Int] /\ \A p \in 1..n : kept[p] = NetAmount[p] - refunds[p]
    BY <1>1, <1>3, <1>4
  <2> QED
    <3>1. Differs(kept, NetAmount, refunds, n)
      BY <2>1 DEF Differs
    <3> QED
      BY <2>1, <3>1, TotalMinus
<1>9. Total(NetOf, 1..n) = Total(kept, 1..n) - Total(chargebacks, 1..n)
  <2>1. /\ n \in Nat /\ kept \in [1..n -> Int] /\ chargebacks \in [1..n -> Int]
        /\ NetOf \in [1..n -> Int] /\ \A p \in 1..n : NetOf[p] = kept[p] - chargebacks[p]
    BY <1>1, <1>3, <1>4, <1>5
  <2> QED
    <3>1. Differs(NetOf, kept, chargebacks, n)
      BY <2>1 DEF Differs
    <3> QED
      BY <2>1, <3>1, TotalMinus
<1>10. Total(NetAmount, 1..n) \in Int /\ AllRefunds \in Int /\ AllChargebacks \in Int
  BY <1>1, <1>3, <1>6, <1>7, TotalType
<1> QED
  BY <1>1, <1>6, <1>7, <1>8, <1>9, <1>10

\* A number is at no distance from itself.
LEMMA NoDistance ==
  ASSUME NEW x \in Int
  PROVE  Distance(x, x) = 0 /\ Absolute(x) \in Int
BY DEF Distance, Absolute

\* On a well-formed batch the five invariants hold at the gate.
LEMMA GatePasses ==
  ASSUME MatchTyped, Held, OnceGrouped, Accounted, stage = "gate", WellFormed
  PROVE  /\ InputComplete /\ MoneyConservation /\ DebitCreditBalance
         /\ CardinalityConsistency /\ PartitionComplete
<1>0. /\ batch \in BatchRecord /\ Waiting /\ Claims /\ Captured = Payments
      /\ \A b \in Credits : b \in Attributed \/ SharesUtr(b)
  BY DEF MatchTyped, Held, Claims, WellFormed
<1>1. /\ \A p \in Payments : \E i \in DOMAIN results :
           results[i].payment = p /\ SettlementsOf(p) \subseteq results[i].settlements
      /\ Total(Nets, DOMAIN results) = Total(NetOf, Captured)
  <2>1. Done = Captured
    BY DEF Done
  <2> QED
    BY <1>0, <2>1 DEF Accounted
<1>2. InputComplete
  BY <1>1 DEF InputComplete
<1>3. MoneyConservation
  <2> DEFINE expected == Total(Nets, DOMAIN results)
             captured == Total(NetAmount, Captured) - AllRefunds - AllChargebacks
  <2>1. expected = captured /\ captured \in Int
    BY <1>0, <1>1, ExpectedIsCaptured
  <2>2. MoneyConservation <=>
          Distance(expected, captured)
            <= AggTolerance(Larger(Absolute(expected), Absolute(captured)))
    BY DEF MoneyConservation, Nets
  <2> HIDE DEF expected, captured
  <2>3. Larger(Absolute(expected), Absolute(captured)) \in Int
    BY <2>1, NoDistance DEF Larger
  <2>4. Distance(expected, captured) = 0
    BY <2>1, NoDistance
  <2> QED
    BY <2>2, <2>3, <2>4, AggTolerates DEF TolerancePaise
<1>4. DebitCreditBalance
  <2> DEFINE lost == {b \in Credits : b \notin Attributed /\ ~SharesUtr(b)}
             debits == Total(BankAmount, (DOMAIN batch.bank) \ Credits)
  <2>1. lost = {}
    BY <1>0
  <2>2. Total(BankAmount, lost) = 0
    <3>1. Len(batch.bank) \in Nat /\ BankAmount \in [1..Len(batch.bank) -> Int]
      BY <1>0, BatchTypes
    <3> HIDE DEF lost
    <3> QED
      BY <2>1, <3>1, TotalEmpty
  <2>3. Total(BankAmount, Credits) \in Int /\ debits \in Int
    BY <1>0, Money
  <2>4. debits = AllChargebacks
    BY DEF WellFormed
  <2>5. DebitCreditBalance <=>
          /\ Total(BankAmount, lost) <= AggTolerance(Total(BankAmount, Credits))
          /\ Distance(debits, AllChargebacks) <= AggTolerance(debits)
    BY DEF DebitCreditBalance
  <2> HIDE DEF lost, debits
  <2>6. Distance(debits, AllChargebacks) = 0
    BY <2>3, <2>4, NoDistance
  <2> QED
    BY <2>2, <2>3, <2>5, <2>6, AggTolerates DEF TolerancePaise
<1>5. CardinalityConsistency
  <2>1. ASSUME NEW i \in DOMAIN relationships
        PROVE  Distance(Total(SettlementAmount, relationships[i].settlements),
                        Total(BankAmount, relationships[i].banks))
                 <= AggTolerance(Larger(Total(SettlementAmount, relationships[i].settlements),
                                        Total(BankAmount, relationships[i].banks)))
    <3> DEFINE source == Total(SettlementAmount, relationships[i].settlements)
               target == Total(BankAmount, relationships[i].banks)
    <3>1. Distance(source, target) <= TolerancePaise
      BY <1>0 DEF Waiting, Relates
    <3>2. source \in Int /\ target \in Int
      BY <1>0, Money
    <3> HIDE DEF source, target
    <3>3. Larger(source, target) \in Int /\ Distance(source, target) \in Int
      BY <3>2 DEF Larger, Distance
    <3>4. /\ AggTolerance(Larger(source, target)) \in Int
          /\ TolerancePaise <= AggTolerance(Larger(source, target))
      BY <3>3, AggTolerates
    <3>5. Distance(source, target) <= AggTolerance(Larger(source, target))
      BY <3>1, <3>3, <3>4 DEF TolerancePaise
    <3> QED
      BY <3>5 DEF source, target
  <2> QED
    BY <2>1 DEF CardinalityConsistency, OnceGrouped, GroupedOnce
<1>6. PartitionComplete
  <2>1. ASSUME NEW s \in SettlementIds
        PROVE  s \in UNION {results[i].settlements : i \in DOMAIN results}
    <3>1. batch.settlements[s].payment \in Payments
      BY DEF WellFormed
    <3>2. PICK i \in DOMAIN results :
            SettlementsOf(batch.settlements[s].payment) \subseteq results[i].settlements
      BY <1>1, <3>1
    <3> QED
      BY <3>2 DEF SettlementsOf
  <2> QED
    BY <1>0, <2>1 DEF PartitionComplete
<1> QED
  BY <1>2, <1>3, <1>4, <1>5, <1>6

\* No verdict is given at first.
LEMMA AccountedForInit ==
  MatchingInit => AccountedFor
BY DEF MatchingInit, MatchingStart, AccountedFor

\* A verdict is given once, at the gate.
LEMMA AccountedForNext ==
  MatchTyped /\ Held /\ OnceGrouped /\ Accounted /\ AccountedFor /\ [MatchingNext]_matchVars
    => AccountedFor'
<1> SUFFICES ASSUME MatchTyped, Held, OnceGrouped, Accounted, AccountedFor,
                    [MatchingNext]_matchVars
             PROVE  AccountedFor'
  OBVIOUS
<1>1. CASE EvaluateInvariants
  <2>1. batch' = batch /\ stage = "gate"
    BY <1>1 DEF EvaluateInvariants
  <2>2. WellFormed' => WellFormed
    <3>1. /\ Captured' = Captured /\ Payments' = Payments /\ SettlementIds' = SettlementIds
          /\ BankAmount' = BankAmount /\ Credits' = Credits /\ AllChargebacks' = AllChargebacks
      BY <2>1 DEF Captured, Payments, SettlementIds, BankAmount, Credits, AllChargebacks
    <3> QED
      BY <2>1, <3>1 DEF WellFormed
  <2>3. WellFormed => gate' = "pass"
    BY <1>1, <2>1, GatePasses DEF EvaluateInvariants
  <2> QED
    BY <2>2, <2>3 DEF AccountedFor
<1>2. CASE stage' # "done"
  BY <1>2 DEF AccountedFor
<1>3. CASE UNCHANGED matchVars
  <2>1. batch' = batch /\ stage' = stage /\ gate' = gate
    BY <1>3 DEF matchVars
  <2>2. WellFormed' => WellFormed
    <3>1. /\ Captured' = Captured /\ Payments' = Payments /\ SettlementIds' = SettlementIds
          /\ BankAmount' = BankAmount /\ Credits' = Credits /\ AllChargebacks' = AllChargebacks
      BY <2>1 DEF Captured, Payments, SettlementIds, BankAmount, Credits, AllChargebacks
    <3> QED
      BY <2>1, <3>1 DEF WellFormed
  <2> QED
    BY <2>1, <2>2 DEF AccountedFor
<1>4. MatchingNext => EvaluateInvariants \/ stage' # "done"
  <2>1. MatchPayment \/ DetectOrphan \/ BulkCredit \/ SplitSettlement \/ ResolvePartition
          => stage' # "done"
    BY DEF MatchPayment, DetectOrphan, BulkCredit, SplitSettlement, ResolvePartition
  <2>2. ManyToMany \/ ApplyRelationships => stage' # "done"
    BY DEF ManyToMany, ApplyRelationships
  <2>3. NextStage => stage' # "done"
    BY DEF NextStage
  <2> QED
    BY <2>1, <2>2, <2>3 DEF MatchingNext
<1> QED
  BY <1>1, <1>2, <1>3, <1>4

\* Whatever was mismatched, duplicated, orphaned or grouped, on either path: the gate stops no
\* batch whose parts refer to each other, so that every settlement and every credit of it is
\* accounted for (invariants.ts 11-16).
THEOREM WellFormedPasses == MatchingSpec => []AccountedFor
<1>1. MatchingSpec => [](MatchTyped /\ Phased /\ Held /\ OnceGrouped)
  BY OnceGroupedAlways
<1>2. MatchTyped /\ Phased /\ Held /\ OnceGrouped /\ MatchingInit => Accounted /\ AccountedFor
  BY AccountedInit, AccountedForInit
<1>3. MatchTyped /\ Phased /\ Held /\ OnceGrouped /\ Accounted /\ AccountedFor
        /\ [MatchingNext]_matchVars => Accounted' /\ AccountedFor'
  BY AccountedNext, AccountedForNext
<1> QED
  BY <1>1, <1>2, <1>3, PTL DEF MatchingSpec

-----------------------------------------------------------------------------
(* Nothing left behind *)

\* A batch in which the candidates for no record are more than the search considers, and
\* without negative amounts.
Uncut ==
  /\ \A b \in Credits : Cardinality(SettlementsNear(SettlementIds, b)) <= CandidateLimit
  /\ \A s \in SettlementIds : Cardinality(CreditsNear(Credits, s)) <= CandidateLimit
  /\ \A s \in SettlementIds : batch.settlements[s].amount >= 0
  /\ \A b \in DOMAIN batch.bank : batch.bank[b].amount >= 0

\* The groups of S that would explain the target.
Fitting(S, amount, target) ==
  {G \in SUBSET S : /\ Cardinality(G) \in 2..MaxGroupSize
                    /\ Distance(Total(amount, G), target) <= TolerancePaise}

\* No group of settlements for a credit, no group of credits for a settlement.
NoneFor(b) == Fitting(SettlementsNear(OpenSettlements, b), SettlementAmount, BankAmount[b]) = {}
NoneOf(s) == Fitting(CreditsNear(Credits \ matched, s), BankAmount, SettlementAmount[s]) = {}

\* The passes have left nothing behind where they have been.
Left ==
  /\ stage = "bulk" => \A b \in Bulk \ matched : b < cursor => NoneFor(b)
  /\ (stage \in {"split", "many"} \/ (~scale /\ stage \in {"gate", "done"}))
       => \A b \in Bulk \ matched : NoneFor(b)
  /\ stage = "split" => \A s \in OpenSettlements : s < cursor => NoneOf(s)
  /\ (stage = "many" \/ (~scale /\ stage \in {"gate", "done"}))
       => \A s \in OpenSettlements : NoneOf(s)

\* Nothing is found only if nothing fits.
LEMMA BestOrNone ==
  ASSUME NEW group, NEW S, NEW amount, NEW target, IsBestGroup(group, S, amount, target)
  PROVE  group = {} <=> Fitting(S, amount, target) = {}
<1>1. Cardinality({}) = 0
  BY FS_EmptySet
<1>2. {} \notin Fitting(S, amount, target)
  BY <1>1 DEF Fitting
<1>3. IF Fitting(S, amount, target) = {} THEN group = {} ELSE group \in Fitting(S, amount, target)
  BY DEF IsBestGroup, Fitting
<1> QED
  BY <1>2, <1>3

\* Fewer records, fewer groups.
LEMMA FittingFewer ==
  ASSUME NEW S, NEW T, S \subseteq T, NEW amount, NEW target, Fitting(T, amount, target) = {}
  PROVE  Fitting(S, amount, target) = {}
BY DEF Fitting

\* What is left of the candidates is within the limit.
LEMMA FewCandidates ==
  ASSUME NEW n \in Nat, NEW S \in SUBSET (1..n), NEW T \in SUBSET S,
         Cardinality(S) <= CandidateLimit
  PROVE  Cardinality(T) <= CandidateLimit
<1>1. IsFiniteSet(1..n)
  <2>1. 1 \in Int /\ n \in Int
    OBVIOUS
  <2> QED
    BY <2>1, FS_Interval
<1>2. IsFiniteSet(S)
  BY <1>1, FS_Subset
<1>3. Cardinality(T) <= Cardinality(S) /\ Cardinality(S) \in Nat /\ Cardinality(T) \in Nat
  BY <1>2, FS_Subset, FS_CardinalityType
<1>4. CandidateLimit \in Nat
  BY MatchingAssumption DEF CandidateLimit, Larger
<1> QED
  BY <1>3, <1>4

\* The amounts of such a batch.
LEMMA UncutAmounts ==
  ASSUME batch \in BatchRecord, Uncut
  PROVE  /\ SettlementAmount \in [1..Len(batch.settlements) -> Nat]
         /\ BankAmount \in [1..Len(batch.bank) -> Nat]
<1>1. \A s \in SettlementIds : batch.settlements[s].amount \in Nat
  BY BatchTypes DEF Uncut, SettlementRecord
<1>2. \A b \in DOMAIN batch.bank : batch.bank[b].amount \in Nat
  BY BatchTypes DEF Uncut, BankRecord
<1>3. /\ SettlementIds = 1..Len(batch.settlements)
      /\ DOMAIN batch.bank = 1..Len(batch.bank)
  BY BatchTypes
<1> QED
  BY <1>1, <1>2, <1>3 DEF SettlementAmount, BankAmount

\* The search for one credit among the settlements of S, for one settlement among B.
LEMMA SettlementSearch ==
  ASSUME batch \in BatchRecord, scale \in BOOLEAN, Uncut,
         NEW S \in SUBSET SettlementIds, NEW b \in Credits
  PROVE  LET near == SettlementsNear(S, b)
             group == BestGroup(near, SettlementAmount, BankAmount[b])
         IN /\ IsBestGroup(group, near, SettlementAmount, BankAmount[b])
            /\ NToOne(S, b) = {} <=> Fitting(near, SettlementAmount, BankAmount[b]) = {}
<1> DEFINE m == Len(batch.settlements)
           near == SettlementsNear(S, b)
           target == BankAmount[b]
           all == SettlementsNear(SettlementIds, b)
           group == BestGroup(near, SettlementAmount, target)
<1>1. /\ m \in Nat /\ near \in SUBSET (1..m) /\ SettlementAmount \in [1..m -> Nat]
      /\ target \in Int
  BY BatchTypes, UncutAmounts DEF SettlementsNear
<1>2. NToOne(S, b) = {} <=> group = {}
  BY DEF NToOne
<1>3. /\ Cardinality(all) <= CandidateLimit
      /\ all \in SUBSET (1..m) /\ near \in SUBSET all
  BY BatchTypes DEF Uncut, SettlementsNear
<1> HIDE DEF m, near, target, all, group
<1>4. Cardinality(near) <= CandidateLimit
  BY <1>1, <1>3, FewCandidates
<1>5. IsBestGroup(group, near, SettlementAmount, target)
  BY <1>1, <1>4, GroupIsBest DEF group
<1>6. group = {} <=> Fitting(near, SettlementAmount, target) = {}
  BY <1>5, BestOrNone
<1> QED
  BY <1>2, <1>5, <1>6 DEF near, target, group

\* And for one settlement among credits.
LEMMA CreditSearch ==
  ASSUME batch \in BatchRecord, scale \in BOOLEAN, Uncut,
         NEW B \in SUBSET Credits, NEW s \in SettlementIds
  PROVE  LET near == CreditsNear(B, s)
             group == BestGroup(near, BankAmount, SettlementAmount[s])
         IN /\ IsBestGroup(group, near, BankAmount, SettlementAmount[s])
            /\ OneToN(s, B) = {} <=> Fitting(near, BankAmount, SettlementAmount[s]) = {}
<1> DEFINE m == Len(batch.bank)
           near == CreditsNear(B, s)
           target == SettlementAmount[s]
           all == CreditsNear(Credits, s)
           group == BestGroup(near, BankAmount, target)
<1>1. /\ m \in Nat /\ near \in SUBSET (1..m) /\ BankAmount \in [1..m -> Nat]
      /\ target \in Int
  BY BatchTypes, UncutAmounts DEF CreditsNear
<1>2. OneToN(s, B) = {} <=> group = {}
  BY DEF OneToN
<1>3. /\ Cardinality(all) <= CandidateLimit
      /\ all \in SUBSET (1..m) /\ near \in SUBSET all
  BY BatchTypes DEF Uncut, CreditsNear
<1> HIDE DEF m, near, target, all, group
<1>4. Cardinality(near) <= CandidateLimit
  BY <1>1, <1>3, FewCandidates
<1>5. IsBestGroup(group, near, BankAmount, target)
  BY <1>1, <1>4, GroupIsBest DEF group
<1>6. group = {} <=> Fitting(near, BankAmount, target) = {}
  BY <1>5, BestOrNone
<1> QED
  BY <1>2, <1>5, <1>6 DEF near, target, group

\* A relationship closes its settlements and opens none.
LEMMA GroupedCloses ==
  ASSUME MatchTyped, batch' = batch, NEW rel, Grouped(rel)
  PROVE  /\ OpenSettlements' \subseteq OpenSettlements
         /\ rel.settlements \cap OpenSettlements' = {}
         /\ matched' = matched \cup rel.banks
<1>0. /\ results \in Seq(RowRecord) /\ matched' = matched \cup rel.banks
      /\ Rewritten(results, results', {rel}) /\ rel.banks # {}
      /\ rel.settlements \subseteq SettlementIds
  BY DEF MatchTyped, Grouped, Relates, RelRecord
<1>1. \A p : RowOf(p)' = RowOf(p)
  <2>1. /\ results' \in Seq(RowRecord) /\ Len(results') = Len(results)
        /\ \A i \in DOMAIN results : results'[i].payment = results[i].payment
    BY <1>0 DEF Rewritten
  <2> QED
    BY <1>0, <2>1, RowOfStays
<1>2. ASSUME NEW s \in OpenSettlements'
      PROVE  s \in OpenSettlements /\ s \notin rel.settlements
  <2> DEFINE i == RowOf(batch.settlements[s].payment)
  <2>1. s \in SettlementIds /\ i # 0 /\ results'[i].banks = {}
    BY <1>1 DEF OpenSettlements, SettlementIds
  <2>2. i \in DOMAIN results
    BY <1>0, <2>1, RowOfFacts
  <2>3. s \in rel.settlements => s \in Hits(rel, i)
    BY DEF Hits
  <2>4. s \in OpenSettlements <=> results[i].banks = {}
    BY <2>1 DEF OpenSettlements
  <2> HIDE DEF i
  <2>5. Hits(rel, i) = {} /\ results'[i] = results[i]
    BY <1>0, <2>1, <2>2 DEF Rewritten, TakenOver
  <2> QED
    BY <2>1, <2>3, <2>4, <2>5
<1> QED
  BY <1>0, <1>2

\* With fewer settlements open and fewer credits free, nothing new fits.
LEMMA NoneStays ==
  ASSUME batch' = batch, OpenSettlements' \subseteq OpenSettlements, matched \subseteq matched'
  PROVE  /\ \A b : NoneFor(b) => NoneFor(b)'
         /\ \A s : NoneOf(s) => NoneOf(s)'
         /\ Bulk' \ matched' \subseteq Bulk \ matched
<1>1. /\ Credits' = Credits /\ Bulk' = Bulk /\ SettlementAmount' = SettlementAmount
      /\ BankAmount' = BankAmount
  BY SameBatch DEF Bulk, SettlementAmount, BankAmount, SettlementIds
<1>2. ASSUME NEW b, NoneFor(b)
      PROVE  NoneFor(b)'
  <2>1. SettlementsNear(OpenSettlements, b)' \subseteq SettlementsNear(OpenSettlements, b)
    BY DEF SettlementsNear
  <2>2. Fitting(SettlementsNear(OpenSettlements, b)', SettlementAmount, BankAmount[b]) = {}
    BY <1>2, <2>1, FittingFewer DEF NoneFor
  <2> QED
    BY <1>1, <2>2 DEF NoneFor, Fitting
<1>3. ASSUME NEW s, NoneOf(s)
      PROVE  NoneOf(s)'
  <2>1. CreditsNear(Credits \ matched, s)' \subseteq CreditsNear(Credits \ matched, s)
    BY <1>1 DEF CreditsNear
  <2>2. Fitting(CreditsNear(Credits \ matched, s)', BankAmount, SettlementAmount[s]) = {}
    BY <1>3, <2>1, FittingFewer DEF NoneOf
  <2> QED
    BY <1>1, <2>2 DEF NoneOf, Fitting
<1> QED
  BY <1>1, <1>2, <1>3

\* A pass keeps what is known to fit nothing.
LEMMA PassShrinks ==
  ASSUME MatchTyped, Pass
  PROVE  OpenSettlements' \subseteq OpenSettlements /\ matched \subseteq matched'
<1>1. batch' = batch
  BY PassFacts
<1>2. CASE UNCHANGED <<results, matched, relationships>>
  <2>1. OpenSettlements' = OpenSettlements
    BY <1>1, <1>2 DEF OpenSettlements, SettlementIds, RowOf
  <2> QED
    BY <1>2, <2>1
<1>3. CASE \E rel : Grouped(rel)
  BY <1>1, <1>3, GroupedCloses
<1> QED
  BY <1>2, <1>3, PassFacts

\* The credit the first pass has come to is used, or fits no group.
LEMMA BulkLeaves ==
  ASSUME MatchTyped, Uncut, BulkCredit, cursor \in Bulk \ matched'
  PROVE  NoneFor(cursor)
<1> DEFINE S == OpenSettlements
           found == BulkFound(cursor)
<1>0. /\ batch \in BatchRecord /\ scale \in BOOLEAN /\ S \in SUBSET SettlementIds
      /\ batch' = batch /\ Records(found) /\ Pass
  BY DEF MatchTyped, BulkCredit, OpenSettlements, Pass
<1>1. matched \subseteq matched'
  BY <1>0, PassShrinks
<1>2. cursor \in Bulk \ matched /\ cursor \in Credits
  BY <1>1 DEF Bulk
<1>3. RelatesFound(NToOne(S, cursor), S, {cursor})
  <2>1. {cursor} \in SUBSET Credits
    BY <1>2
  <2> QED
    BY <1>0, <2>1, NToOneRelates
<1>4. found = {}
  <2> SUFFICES ASSUME found # {} PROVE FALSE
    OBVIOUS
  <2>1. found = NToOne(S, cursor)
    BY DEF BulkFound
  <2>2. PICK rel : found = {rel} /\ Relates(rel, S, {cursor})
    BY <1>3, <2>1 DEF RelatesFound
  <2>3. rel.banks = {cursor}
    BY <2>2 DEF Relates
  <2>4. matched' = matched \cup rel.banks
    <3>1. (CHOOSE r \in found : TRUE) = rel
      BY <2>2
    <3> QED
      BY <1>0, <3>1 DEF Records
  <2> QED
    BY <2>3, <2>4
<1>5. CASE Cardinality(S) >= 2
  <2>1. NToOne(S, cursor) = {}
    BY <1>2, <1>4, <1>5 DEF BulkFound
  <2> QED
    BY <1>0, <1>2, <2>1, SettlementSearch DEF NoneFor
<1>6. CASE ~(Cardinality(S) >= 2)
  <2>1. IsFiniteSet(S) /\ Cardinality(S) \in Nat
    <3>1. {} \in SUBSET Credits
      OBVIOUS
    <3>2. IsFiniteSet(S)
      BY <1>0, <3>1, IdsFinite
    <3> QED
      BY <3>2, FS_CardinalityType
  <2>2. ASSUME NEW G \in SUBSET SettlementsNear(S, cursor)
        PROVE  Cardinality(G) \notin 2..MaxGroupSize
    <3>1. G \in SUBSET S
      BY DEF SettlementsNear
    <3>2. Cardinality(G) <= Cardinality(S) /\ IsFiniteSet(G)
      BY <2>1, <3>1, FS_Subset
    <3>3. Cardinality(G) \in Nat
      BY <3>2, FS_CardinalityType
    <3> HIDE DEF S
    <3> QED
      BY <1>6, <2>1, <3>2, <3>3
  <2>3. Fitting(SettlementsNear(S, cursor), SettlementAmount, BankAmount[cursor]) = {}
    BY <2>2 DEF Fitting
  <2> QED
    BY <2>3 DEF NoneFor
<1> QED
  BY <1>5, <1>6

\* The settlement the second pass has come to has a credit, or fits no group.
LEMMA SplitLeaves ==
  ASSUME MatchTyped, Uncut, SplitSettlement, cursor \in OpenSettlements'
  PROVE  NoneOf(cursor)
<1> DEFINE S == OpenSettlements
           B == Credits \ matched
           found == SplitFound(cursor)
<1>0. /\ batch \in BatchRecord /\ scale \in BOOLEAN /\ S \in SUBSET SettlementIds
      /\ B \in SUBSET Credits /\ batch' = batch /\ Records(found) /\ Pass
  BY DEF MatchTyped, SplitSettlement, OpenSettlements, Pass
<1>1. cursor \in S /\ cursor \in SettlementIds
  BY <1>0, PassShrinks
<1>2. found = OneToN(cursor, B)
  BY <1>1 DEF SplitFound
<1>3. RelatesFound(found, {cursor}, B)
  <2>1. {cursor} \in SUBSET SettlementIds
    BY <1>1
  <2> QED
    BY <1>0, <1>2, <2>1, OneToNRelates
<1>4. RelatesFound(found, S, B)
  BY <1>1, <1>3 DEF RelatesFound, Relates
<1>5. found = {}
  <2> SUFFICES ASSUME found # {} PROVE FALSE
    OBVIOUS
  <2>1. PICK rel : found = {rel} /\ Relates(rel, {cursor}, B)
    BY <1>3 DEF RelatesFound
  <2>2. Grouped(rel)
    BY <1>0, <1>4, <2>1, RecordsFacts
  <2>3. cursor \in rel.settlements
    BY <2>1 DEF Relates
  <2> QED
    BY <1>0, <2>2, <2>3, GroupedCloses
<1> QED
  BY <1>0, <1>1, <1>2, <1>5, CreditSearch DEF NoneOf

\* The passes have not begun.
LEMMA LeftInit ==
  MatchingInit => Left
BY DEF MatchingInit, MatchingStart, Left

\* Every step of a pass leaves nothing behind that a search would have found, and closing
\* settlements or using credits brings nothing back.
LEMMA LeftNext ==
  MatchTyped /\ Phased /\ (Uncut => Left) /\ [MatchingNext]_matchVars => (Uncut => Left)'
<1> SUFFICES ASSUME MatchTyped, Phased, Uncut => Left, [MatchingNext]_matchVars, Uncut'
             PROVE  Left'
  OBVIOUS
<1>0. /\ batch' = batch /\ scale' = scale
  <2>1. CASE Pass
    BY <2>1, PassFacts
  <2> QED
    BY <2>1 DEF MatchingNext, Pass, MatchPayment, DetectOrphan, NextStage, ResolvePartition,
                ApplyRelationships, EvaluateInvariants, matchVars
<1>1. Uncut /\ Left
  BY <1>0 DEF Uncut, SettlementIds, Credits, SettlementsNear, CreditsNear, CandidateLimit
<1>2. /\ batch \in BatchRecord /\ cursor \in Nat
      /\ \A b \in Bulk : b \in 1..Len(batch.bank) /\ Len(batch.bank) \in Nat
      /\ \A s \in OpenSettlements : s \in 1..Len(batch.settlements) /\ Len(batch.settlements) \in Nat
  BY BatchTypes DEF MatchTyped, Bulk, OpenSettlements
<1>3. CASE Pass
  <2>1. OpenSettlements' \subseteq OpenSettlements /\ matched \subseteq matched'
    BY <1>3, PassShrinks
  <2>2. /\ \A b : NoneFor(b) => NoneFor(b)'
        /\ \A s : NoneOf(s) => NoneOf(s)'
        /\ Bulk' \ matched' \subseteq Bulk \ matched
    BY <1>0, <2>1, NoneStays
  <2>3. Bulk' = Bulk
    BY <1>0 DEF Bulk, Credits
  <2>4. CASE BulkCredit
    <3>1. stage = "bulk" /\ stage' = "bulk" /\ cursor' = cursor + 1
      BY <2>4 DEF BulkCredit
    <3>2. ASSUME NEW b \in Bulk' \ matched', b < cursor'
          PROVE  NoneFor(b)'
      <4>1. b \in Bulk \ matched /\ b \in Nat /\ (b < cursor \/ b = cursor)
        BY <1>2, <2>2, <3>1, <3>2
      <4>2. CASE b < cursor
        BY <1>1, <2>2, <3>1, <4>1, <4>2 DEF Left
      <4>3. CASE b = cursor
        <5>1. cursor \in Bulk \ matched'
          BY <2>3, <3>2, <4>3
        <5> QED
          BY <1>1, <2>2, <2>4, <4>3, <5>1, BulkLeaves
      <4> QED
        BY <4>1, <4>2, <4>3
    <3> QED
      BY <3>1, <3>2 DEF Left
  <2>5. CASE SplitSettlement
    <3>1. stage = "split" /\ stage' = "split" /\ cursor' = cursor + 1
      BY <2>5 DEF SplitSettlement
    <3>2. \A b \in Bulk' \ matched' : NoneFor(b)'
      BY <1>1, <2>2, <3>1 DEF Left
    <3>3. ASSUME NEW s \in OpenSettlements', s < cursor'
          PROVE  NoneOf(s)'
      <4>1. s \in OpenSettlements /\ s \in Nat /\ (s < cursor \/ s = cursor)
        BY <1>2, <2>1, <3>1, <3>3
      <4>2. CASE s < cursor
        BY <1>1, <2>2, <3>1, <4>1, <4>2 DEF Left
      <4>3. CASE s = cursor
        BY <1>1, <2>2, <2>5, <3>3, <4>3, SplitLeaves
      <4> QED
        BY <4>1, <4>2, <4>3
    <3> QED
      BY <3>1, <3>2, <3>3 DEF Left
  <2>6. CASE ManyToMany
    <3>1. stage = "many" /\ stage' = "gate"
      BY <2>6 DEF ManyToMany
    <3>2. \A b \in Bulk' \ matched' : NoneFor(b)'
      BY <1>1, <2>2, <3>1 DEF Left
    <3>3. \A s \in OpenSettlements' : NoneOf(s)'
      BY <1>1, <2>1, <2>2, <3>1 DEF Left
    <3> QED
      BY <3>1, <3>2, <3>3 DEF Left
  <2> QED
    BY <1>3, <2>4, <2>5, <2>6 DEF Pass
<1>4. ASSUME results' = results, matched' = matched
      PROVE  /\ OpenSettlements' = OpenSettlements /\ Bulk' = Bulk
             /\ \A b : NoneFor(b) => NoneFor(b)'
             /\ \A s : NoneOf(s) => NoneOf(s)'
  <2>1. OpenSettlements' = OpenSettlements /\ Bulk' = Bulk
    BY <1>0, <1>4 DEF OpenSettlements, SettlementIds, RowOf, Bulk, Credits
  <2> QED
    BY <1>0, <1>4, <2>1, NoneStays
<1>5. CASE NextStage
  <2>1. CASE stage = "match"
    <3>1. stage' = "orphans"
      BY <1>5, <2>1 DEF NextStage
    <3> QED
      BY <3>1 DEF Left
  <2>2. CASE stage = "orphans"
    <3>1. stage' \in {"partitions", "bulk"} /\ (stage' = "bulk" => cursor' = 1)
      BY <1>5, <2>2 DEF NextStage
    <3>2. \A b \in Bulk' : ~(b < 1)
      <4>1. Bulk' = Bulk
        BY <1>0 DEF Bulk, Credits
      <4> QED
        BY <1>2, <4>1
    <3> QED
      BY <3>1, <3>2 DEF Left
  <2>3. CASE stage = "bulk"
    <3>1. /\ stage' = "split" /\ cursor' = 1 /\ cursor > Len(batch.bank)
          /\ results' = results /\ matched' = matched
      BY <1>5, <2>3 DEF NextStage
    <3>2. \A b \in Bulk \ matched : b < cursor
      BY <1>2, <3>1
    <3>3. \A s \in OpenSettlements' : ~(s < 1)
      BY <1>2, <1>4, <3>1
    <3>4. \A b \in Bulk' \ matched' : NoneFor(b)'
      BY <1>1, <1>4, <2>3, <3>1, <3>2 DEF Left
    <3> QED
      BY <3>1, <3>3, <3>4 DEF Left
  <2>4. CASE stage = "split"
    <3>1. /\ stage' = "many" /\ cursor > Len(batch.settlements)
          /\ results' = results /\ matched' = matched
      BY <1>5, <2>4 DEF NextStage
    <3>2. \A s \in OpenSettlements : s < cursor
      BY <1>2, <3>1
    <3>3. \A b \in Bulk' \ matched' : NoneFor(b)'
      BY <1>1, <1>4, <2>4, <3>1 DEF Left
    <3>4. \A s \in OpenSettlements' : NoneOf(s)'
      BY <1>1, <1>4, <2>4, <3>1, <3>2 DEF Left
    <3> QED
      BY <3>1, <3>3, <3>4 DEF Left
  <2> QED
    BY <1>5, <2>1, <2>2, <2>3, <2>4 DEF NextStage
<1>6. CASE EvaluateInvariants \/ UNCHANGED matchVars
  <2>1. /\ results' = results /\ matched' = matched /\ cursor' = cursor
        /\ stage' = stage \/ (stage = "gate" /\ stage' = "done")
    BY <1>6 DEF EvaluateInvariants, matchVars
  <2>2. /\ OpenSettlements' = OpenSettlements /\ Bulk' = Bulk
        /\ \A b : NoneFor(b) => NoneFor(b)'
        /\ \A s : NoneOf(s) => NoneOf(s)'
    BY <1>4, <2>1
  <2>3. CASE stage' = stage
    BY <1>0, <1>1, <2>1, <2>2, <2>3 DEF Left
  <2>4. CASE stage = "gate" /\ stage' = "done"
    BY <1>0, <1>1, <2>1, <2>2, <2>4 DEF Left
  <2> QED
    BY <2>1, <2>3, <2>4
<1>7. CASE MatchPayment \/ DetectOrphan \/ ResolvePartition
  <2>1. stage' \in {"match", "orphans", "partitions"}
    BY <1>7 DEF MatchPayment, DetectOrphan, ResolvePartition
  <2> QED
    BY <2>1 DEF Left
<1>8. CASE ApplyRelationships
  <2>1. stage' = "gate" /\ scale'
    BY <1>0, <1>8 DEF ApplyRelationships, Phased
  <2> QED
    BY <2>1 DEF Left
<1> QED
  BY <1>3, <1>5, <1>6, <1>7, <1>8 DEF MatchingNext, Pass

\* Then the groups are sound.
LEMMA LeftIsSound ==
  MatchTyped /\ Phased /\ OnceGrouped /\ (Uncut => Left) => (Uncut => GroupsSound)
<1> SUFFICES ASSUME MatchTyped, Phased, OnceGrouped, Uncut, Left PROVE GroupsSound
  OBVIOUS
<1>0. /\ batch \in BatchRecord /\ scale \in BOOLEAN /\ OpenSettlements \in SUBSET SettlementIds
      /\ Credits \ matched \in SUBSET Credits /\ \A b \in Bulk : b \in Credits
  BY DEF MatchTyped, OpenSettlements, Bulk
<1>1. SearchIsExact
  <2>1. ASSUME NEW b \in Bulk \ matched
        PROVE  IsBestGroup(BestGroup(SettlementsNear(OpenSettlements, b),
                                     SettlementAmount, BankAmount[b]),
                           SettlementsNear(OpenSettlements, b), SettlementAmount, BankAmount[b])
    BY <1>0, SettlementSearch
  <2>2. ASSUME NEW s \in OpenSettlements
        PROVE  IsBestGroup(BestGroup(CreditsNear(Credits \ matched, s),
                                     BankAmount, SettlementAmount[s]),
                           CreditsNear(Credits \ matched, s), BankAmount, SettlementAmount[s])
    BY <1>0, CreditSearch
  <2> QED
    BY <2>1, <2>2 DEF SearchIsExact
<1>2. GroupedOnce
  BY DEF OnceGrouped
<1>3. PassesComplete
  <2> SUFFICES ASSUME ~scale, stage \in {"gate", "done"}
               PROVE  /\ \A i \in DOMAIN relationships : \A s \in relationships[i].settlements :
                           results[RowOf(batch.settlements[s].payment)].banks
                             = relationships[i].banks
                      /\ \A b \in Bulk \ matched : NToOne(OpenSettlements, b) = {}
                      /\ \A s \in OpenSettlements : OneToN(s, Credits \ matched) = {}
    BY DEF PassesComplete
  <2>1. \A i \in DOMAIN relationships : \A s \in relationships[i].settlements :
          results[RowOf(batch.settlements[s].payment)].banks = relationships[i].banks
    BY DEF OnceGrouped, Labelled
  <2>2. ASSUME NEW b \in Bulk \ matched
        PROVE  NToOne(OpenSettlements, b) = {}
    <3>1. NoneFor(b)
      BY DEF Left
    <3> QED
      BY <1>0, <3>1, SettlementSearch DEF NoneFor
  <2>3. ASSUME NEW s \in OpenSettlements
        PROVE  OneToN(s, Credits \ matched) = {}
    <3>1. NoneOf(s)
      BY DEF Left
    <3> QED
      BY <1>0, <3>1, CreditSearch DEF NoneOf
  <2> QED
    BY <2>1, <2>2, <2>3
<1> QED
  BY <1>1, <1>2, <1>3 DEF GroupsSound

\* On every batch that has for no record more candidates within its time window than the
\* search considers, and no negative amount, the pruned search of cardinality.ts finds the
\* best group in every state the passes call it in, the groups are disjoint, and the passes
\* of small batches leave none behind.
THEOREM GroupsStaySound == MatchingSpec => [](Uncut => GroupsSound)
<1>1. MatchingSpec => [](MatchTyped /\ Phased /\ Held /\ OnceGrouped)
  BY OnceGroupedAlways
<1>2. MatchingInit => (Uncut => Left)
  BY LeftInit
<1>3. MatchTyped /\ Phased /\ (Uncut => Left) /\ [MatchingNext]_matchVars => (Uncut => Left)'
  BY LeftNext
<1>4. MatchTyped /\ Phased /\ OnceGrouped /\ (Uncut => Left) => (Uncut => GroupsSound)
  BY LeftIsSound
<1> QED
  BY <1>1, <1>2, <1>3, <1>4, PTL DEF MatchingSpec
===============================================================================
