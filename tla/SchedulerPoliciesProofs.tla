---------------------- MODULE SchedulerPoliciesProofs ----------------------
(***************************************************************************)
(* Facts about the operators of SchedulerPolicies and of the lap it uses,  *)
(* for any tenants, weights and jobs: what BuildWeightCycle builds, where  *)
(* the pointer walks, which job _best_job_index finds, and how the lanes   *)
(* count.  Inductions are by least counterexample.                         *)
(***************************************************************************)
EXTENDS SchedulerPolicies, NumberTheorems, FunctionTheorems

(***************************************************************************)
(* Weights and their common divisor.                                       *)
(***************************************************************************)

(* The tenants are those of TenantOrder, each at one place.                 *)
LEMMA TenantFacts ==
    /\ Len(TenantOrder) \in Nat \ {0}
    /\ \A i \in 1 .. Len(TenantOrder) : TenantOrder[i] \in Tenants
    /\ \A t \in Tenants : \E i \in 1 .. Len(TenantOrder) : TenantOrder[i] = t
    /\ \A i, k \in 1 .. Len(TenantOrder) : TenantOrder[i] = TenantOrder[k] => i = k
    /\ Tenants # {}
  <1>1. /\ TenantOrder \in Seq(Tenants) /\ TenantOrder # <<>>
        /\ DOMAIN TenantOrder = 1 .. Len(TenantOrder) /\ Len(TenantOrder) \in Nat
    BY TenantAssumption
  <1>2. Len(TenantOrder) # 0
    BY <1>1
  <1>3. /\ \A i \in 1 .. Len(TenantOrder) : TenantOrder[i] \in Tenants
        /\ \A t \in Tenants : \E i \in 1 .. Len(TenantOrder) : TenantOrder[i] = t
    BY <1>1 DEF Tenants, Range
  <1>4. \A i, k \in 1 .. Len(TenantOrder) : TenantOrder[i] = TenantOrder[k] => i = k
    BY <1>1, TenantAssumption DEF IsInjective
  <1>5. QED
    BY <1>1, <1>2, <1>3, <1>4

Weights == [Tenants -> Nat \ {0}]

(* GcdOfWeights divides every weight.                                       *)
LEMMA GcdIs ==
    ASSUME NEW weights \in Weights
    PROVE  /\ GcdOfWeights(weights) \in Nat \ {0}
           /\ \A t \in Tenants : /\ weights[t] % GcdOfWeights(weights) = 0
                                 /\ GcdOfWeights(weights) <= weights[t]
  <1> DEFINE W == {weights[t] : t \in Tenants}
             D == {d \in 1 .. Min(W) : \A t \in Tenants : weights[t] % d = 0}
  <1>1. W \subseteq Nat \ {0} /\ W # {}
    BY TenantFacts DEF Weights
  <1>2. Min(W) \in W /\ \A m \in W : Min(W) <= m
    BY <1>1, MinIs
  <1>3. Min(W) \in Nat /\ Min(W) >= 1
    BY <1>1, <1>2
  <1>4. \A t \in Tenants : Min(W) <= weights[t] /\ weights[t] \in Nat
    BY <1>2 DEF Weights
  <1> HIDE DEF W
  <1>5. D \subseteq 0 .. Min(W)
    BY <1>3
  <1>6. 1 \in D
    BY <1>3, <1>4
  <1>7. Max(D) \in D
    BY <1>3, <1>5, <1>6, MaxIs
  <1>8. GcdOfWeights(weights) = Max(D)
    BY DEF GcdOfWeights, W
  <1>9. PICK d \in 1 .. Min(W) : d = Max(D) /\ \A t \in Tenants : weights[t] % d = 0
    BY <1>7
  <1>10. d \in Nat \ {0} /\ \A t \in Tenants : d <= weights[t]
    <2>1. PICK m \in Nat : m = Min(W)
      BY <1>3
    <2>2. d \in Nat \ {0} /\ d <= m
      BY <2>1
    <2>3. \A t \in Tenants : d <= weights[t]
      <3> TAKE t \in Tenants
      <3>1. PICK w \in Nat : w = weights[t] /\ m <= w
        BY <1>4, <2>1
      <3>2. QED
        BY <2>2, <3>1
    <2>4. QED
      BY <2>2, <2>3
  <1>11. d = GcdOfWeights(weights)
    BY <1>8, <1>9
  <1>12. QED
    BY <1>9, <1>10, <1>11

(* How many slots tenant t is given.                                        *)
Share(weights, t) == weights[t] \div GcdOfWeights(weights)

(* A tenant's share is positive, and its weight is a multiple of it.        *)
LEMMA ShareIs ==
    ASSUME NEW weights \in Weights, NEW t \in Tenants
    PROVE  /\ Share(weights, t) \in Nat \ {0}
           /\ weights[t] = Share(weights, t) * GcdOfWeights(weights)
  <1>1. PICK g \in Nat \ {0} : /\ g = GcdOfWeights(weights)
                               /\ weights[t] % g = 0 /\ g <= weights[t]
    BY GcdIs
  <1>2. PICK w \in Nat \ {0} : w = weights[t]
    BY DEF Weights
  <1>3. w \div g \in Nat \ {0} /\ w = (w \div g) * g
    BY <1>1, <1>2
  <1>4. QED
    BY <1>1, <1>2, <1>3 DEF Share

(***************************************************************************)
(* The cycle, block by block.                                              *)
(***************************************************************************)

(* The rows that BuildWeightCycle joins.                                    *)
Rows(weights) ==
    [i \in 1 .. Len(TenantOrder) |->
        [k \in 1 .. weights[TenantOrder[i]] \div GcdOfWeights(weights) |-> TenantOrder[i]]]

(* f[i] joins the first i rows.                                             *)
Joins(seqs, f, n) ==
    f = [i \in 1 .. n |-> IF i = 1 THEN seqs[i] ELSE f[i - 1] \o seqs[i]]

(* Every list of rows can be joined so.                                     *)
LEMMA JoinsExist ==
    ASSUME NEW seqs, NEW n \in Nat
    PROVE  \E f : Joins(seqs, f, n)
  <1> DEFINE Bad == {k \in Nat : ~ \E f : Joins(seqs, f, k)}
  <1> SUFFICES ASSUME Bad # {} PROVE FALSE
    OBVIOUS
  <1>1. PICK k \in Bad : \A m \in Bad : k <= m
    BY LeastNat
  <1>2. CASE k = 0
    <2>1. Joins(seqs, [i \in 1 .. 0 |-> 1], 0)
      BY DEF Joins
    <2>2. QED
      BY <1>2, <2>1
  <1>3. CASE k # 0
    <2>1. k - 1 \in Nat /\ k - 1 < k
      BY <1>3
    <2>2. PICK g : Joins(seqs, g, k - 1)
      BY <1>1, <2>1
    <2> DEFINE h == [i \in 1 .. k |-> IF i < k THEN g[i]
                                      ELSE IF i = 1 THEN seqs[i] ELSE g[i - 1] \o seqs[i]]
    <2>3. \A i \in 1 .. k : h[i] = IF i = 1 THEN seqs[i] ELSE h[i - 1] \o seqs[i]
      <3> TAKE i \in 1 .. k
      <3>1. i # 1 => h[i - 1] = g[i - 1]
        OBVIOUS
      <3>2. CASE i < k
        <4>1. i \in 1 .. k - 1
          BY <3>2
        <4>2. g[i] = IF i = 1 THEN seqs[i] ELSE g[i - 1] \o seqs[i]
          BY <2>2, <4>1, Zenon DEF Joins
        <4>3. QED
          BY <3>1, <3>2, <4>2
      <3>3. CASE i = k
        BY <3>1, <3>3
      <3>4. QED
        BY <3>2, <3>3
    <2>4. Joins(seqs, h, k)
      BY <2>3 DEF Joins
    <2>5. QED
      BY <2>4
  <1>4. QED
    BY <1>2, <1>3

(* BuildWeightCycle ends the joins of the rows.                             *)
LEMMA CycleJoins ==
    ASSUME NEW weights
    PROVE  \E f : /\ Joins(Rows(weights), f, Len(TenantOrder))
                  /\ BuildWeightCycle(weights) = f[Len(TenantOrder)]
  <1> DEFINE seqs == Rows(weights)
             f == CHOOSE f : Joins(seqs, f, Len(TenantOrder))
  <1>1. Len(TenantOrder) \in Nat \ {0}
    BY TenantFacts
  <1>2. Joins(seqs, f, Len(TenantOrder))
    BY <1>1, JoinsExist, Zenon
  <1>3. Len(seqs) = Len(TenantOrder)
    BY <1>1 DEF Rows
  <1>4. BuildWeightCycle(weights) = FlattenSeq(seqs)
    BY DEF BuildWeightCycle, Rows
  <1> HIDE DEF seqs
  <1>5. FlattenSeq(seqs) = f[Len(TenantOrder)]
    BY <1>1, <1>3 DEF FlattenSeq, Joins
  <1> USE DEF seqs
  <1>6. QED
    BY <1>2, <1>4, <1>5

(* The running total of TotalWeight.                                        *)
Totals(weights, f, n) ==
    f = [i \in 0 .. n |-> IF i = 0 THEN 0 ELSE f[i - 1] + weights[TenantOrder[i]]]

(* Such partial sums exist.                                                 *)
LEMMA TotalsExist ==
    ASSUME NEW weights, NEW n \in Nat
    PROVE  \E f : Totals(weights, f, n)
  <1> DEFINE Bad == {k \in Nat : ~ \E f : Totals(weights, f, k)}
  <1> SUFFICES ASSUME Bad # {} PROVE FALSE
    OBVIOUS
  <1>1. PICK k \in Bad : \A m \in Bad : k <= m
    BY LeastNat
  <1>2. CASE k = 0
    <2>1. Totals(weights, [i \in 0 .. 0 |-> 0], 0)
      BY DEF Totals
    <2>2. QED
      BY <1>2, <2>1
  <1>3. CASE k # 0
    <2>1. k - 1 \in Nat /\ k - 1 < k
      BY <1>3
    <2>2. PICK g : Totals(weights, g, k - 1)
      BY <1>1, <2>1
    <2> DEFINE h == [i \in 0 .. k |-> IF i < k THEN g[i]
                                      ELSE g[i - 1] + weights[TenantOrder[i]]]
    <2>3. \A i \in 0 .. k : h[i] = IF i = 0 THEN 0 ELSE h[i - 1] + weights[TenantOrder[i]]
      <3> TAKE i \in 0 .. k
      <3>1. i # 0 => h[i - 1] = g[i - 1]
        OBVIOUS
      <3>2. CASE i < k
        <4>1. g[i] = IF i = 0 THEN 0 ELSE g[i - 1] + weights[TenantOrder[i]]
          BY <2>2, <3>2 DEF Totals
        <4>2. QED
          BY <3>1, <3>2, <4>1
      <3>3. CASE i = k
        BY <1>3, <3>1, <3>3
      <3>4. QED
        BY <3>2, <3>3
    <2>4. Totals(weights, h, k)
      BY <2>3 DEF Totals
    <2>5. QED
      BY <2>4
  <1>4. QED
    BY <1>2, <1>3

(* TotalWeight is the last of the partial sums.                             *)
LEMMA TotalIs ==
    ASSUME NEW weights
    PROVE  \E f : /\ Totals(weights, f, Len(TenantOrder))
                  /\ TotalWeight(weights) = f[Len(TenantOrder)]
  <1> DEFINE f == CHOOSE f : Totals(weights, f, Len(TenantOrder))
  <1>1. Len(TenantOrder) \in Nat \ {0}
    BY TenantFacts
  <1>2. Totals(weights, f, Len(TenantOrder))
    BY <1>1, TotalsExist, Zenon
  <1>3. TotalWeight(weights) = f[Len(TenantOrder)]
    BY DEF TotalWeight, Totals
  <1>4. QED
    BY <1>2, <1>3

(* The slots of t in s are the k that follow the first a.                   *)
Block(s, t, a, k) ==
    /\ a + k <= Len(s)
    /\ \A p \in 1 .. Len(s) : s[p] = t <=> a < p /\ p <= a + k

(* What s is after i rows, whose weights make up total.                     *)
Joined(weights, s, i, total) ==
    /\ s \in Seq(Tenants)
    /\ total \in Nat
    /\ Len(s) * GcdOfWeights(weights) = total
    /\ \A k \in 1 .. Len(TenantOrder) : k <= i =>
          \E a \in Nat : Block(s, TenantOrder[k], a, Share(weights, TenantOrder[k]))
    /\ \A k \in 1 .. Len(TenantOrder) : k > i =>
          \A p \in 1 .. Len(s) : s[p] # TenantOrder[k]

(* A row added at the end.                                                  *)
LEMMA RowAdded ==
    ASSUME NEW s \in Seq(Tenants), NEW t \in Tenants, NEW n \in Nat,
           NEW r, r = [k \in 1 .. n |-> t]
    PROVE  /\ s \o r \in Seq(Tenants)
           /\ Len(s \o r) = Len(s) + n
           /\ \A p \in 1 .. Len(s) : (s \o r)[p] = s[p]
           /\ \A p \in 1 .. Len(s) + n : p > Len(s) => (s \o r)[p] = t
  <1>1. r \in Seq(Tenants) /\ Len(r) = n
    OBVIOUS
  <1>2. /\ s \o r \in Seq(Tenants)
        /\ Len(s \o r) = Len(s) + n
        /\ \A p \in 1 .. Len(s) : (s \o r)[p] = s[p]
    BY <1>1
  <1>3. \A p \in 1 .. Len(s) + n : p > Len(s) => (s \o r)[p] = t
    <2> TAKE p \in 1 .. Len(s) + n
    <2> HAVE p > Len(s)
    <2>1. Len(s) \in Nat
      OBVIOUS
    <2>2. p - Len(s) \in 1 .. n
      BY <2>1
    <2>3. (s \o r)[p] = r[p - Len(s)]
      BY <1>1, <2>1, <2>2
    <2>4. QED
      BY <2>2, <2>3
  <1>4. QED
    BY <1>2, <1>3

(* Joining one tenant's row more.                                           *)
LEMMA JoinNext ==
    ASSUME NEW weights \in Weights, NEW s, NEW i \in 0 .. Len(TenantOrder) - 1, NEW total,
           Joined(weights, s, i, total)
    PROVE  Joined(weights, s \o Rows(weights)[i + 1], i + 1,
                  total + weights[TenantOrder[i + 1]])
  <1> DEFINE t == TenantOrder[i + 1]
             r == Rows(weights)[i + 1]
             u == s \o r
  <1>1. Len(TenantOrder) \in Nat /\ i + 1 \in 1 .. Len(TenantOrder)
    BY TenantFacts
  <1>2. t \in Tenants
    BY <1>1, TenantFacts
  <1>3. PICK n \in Nat \ {0} : n = Share(weights, t)
    BY <1>2, ShareIs
  <1>4. PICK g \in Nat \ {0} : g = GcdOfWeights(weights)
    BY GcdIs
  <1>5. r = [k \in 1 .. n |-> t]
    BY <1>1, <1>3 DEF Rows, Share
  <1>6. s \in Seq(Tenants) /\ total \in Nat /\ Len(s) * g = total
    BY <1>4 DEF Joined
  <1>7. PICK m \in Nat : m = Len(s)
    BY <1>6
  <1>8. weights[t] = n * g
    BY <1>2, <1>3, <1>4, ShareIs
  <1> HIDE DEF t, r
  <1>9. /\ u \in Seq(Tenants) /\ Len(u) = m + n
        /\ \A p \in 1 .. m : u[p] = s[p]
        /\ \A p \in 1 .. m + n : p > m => u[p] = t
    BY <1>2, <1>5, <1>6, <1>7, RowAdded
  <1>10. total + weights[t] \in Nat /\ Len(u) * g = total + weights[t]
    <2>1. (m + n) * g = m * g + n * g /\ m * g + n * g \in Nat
      OBVIOUS
    <2>2. total = m * g
      BY <1>6, <1>7
    <2>3. Len(u) = m + n
      BY <1>9
    <2>4. QED
      BY <1>8, <2>1, <2>2, <2>3, Zenon
  <1> HIDE DEF u
  <1>11. \A k \in 1 .. Len(TenantOrder) : k <= i + 1 =>
            \E a \in Nat : Block(u, TenantOrder[k], a, Share(weights, TenantOrder[k]))
    <2> TAKE k \in 1 .. Len(TenantOrder)
    <2> HAVE k <= i + 1
    <2>1. CASE k = i + 1
      <3>1. TenantOrder[k] = t
        BY <2>1 DEF t
      <3>2. \A p \in 1 .. m : u[p] # t
        BY <1>1, <1>7, <1>9 DEF Joined, t
      <3>3. Block(u, t, m, n)
        BY <1>9, <3>2 DEF Block
      <3>4. QED
        BY <1>3, <3>1, <3>3
    <2>2. CASE k <= i
      <3>1. PICK a \in Nat : Block(s, TenantOrder[k], a, Share(weights, TenantOrder[k]))
        BY <2>2 DEF Joined
      <3>2. TenantOrder[k] # t /\ TenantOrder[k] \in Tenants
        BY <1>1, <2>2, TenantFacts DEF t
      <3>3. PICK b \in Nat : b = Share(weights, TenantOrder[k])
        BY <3>2, ShareIs
      <3> DEFINE v == TenantOrder[k]
      <3>4. a + b <= m /\ \A p \in 1 .. m : s[p] = v <=> a < p /\ p <= a + b
        BY <1>7, <3>1, <3>3 DEF Block
      <3>5. v # t
        BY <3>2
      <3> HIDE DEF v
      <3>6. Block(u, v, a, b)
        <4>1. a + b <= Len(u)
          BY <1>9, <3>4
        <4>2. ASSUME NEW p \in 1 .. Len(u)
              PROVE  u[p] = v <=> a < p /\ p <= a + b
          <5>1. CASE p <= m
            BY <1>9, <3>4, <4>2, <5>1
          <5>2. CASE p > m
            BY <1>9, <3>4, <3>5, <4>2, <5>2
          <5>3. QED
            BY <1>9, <4>2, <5>1, <5>2
        <4>3. QED
          BY <4>1, <4>2 DEF Block
      <3>7. QED
        BY <3>3, <3>6 DEF v
    <2>3. QED
      BY <1>1, <2>1, <2>2
  <1>12. \A k \in 1 .. Len(TenantOrder) : k > i + 1 =>
            \A p \in 1 .. Len(u) : u[p] # TenantOrder[k]
    <2> TAKE k \in 1 .. Len(TenantOrder)
    <2> HAVE k > i + 1
    <2>1. TenantOrder[k] # t
      BY <1>1, TenantFacts DEF t
    <2>2. \A p \in 1 .. m : s[p] # TenantOrder[k]
      BY <1>7 DEF Joined
    <2>3. QED
      BY <1>9, <2>1, <2>2
  <1>13. QED
    BY <1>4, <1>9, <1>10, <1>11, <1>12 DEF Joined, u, t, r

(* The cycle: every tenant has as many slots as its share, side by side,    *)
(* and all shares together make up the weights.                             *)
LEMMA CycleIs ==
    ASSUME NEW weights \in Weights
    PROVE  Joined(weights, BuildWeightCycle(weights), Len(TenantOrder), TotalWeight(weights))
  <1> DEFINE n == Len(TenantOrder)
             seqs == Rows(weights)
  <1>1. n \in Nat \ {0}
    BY TenantFacts
  <1>2. PICK f : Joins(seqs, f, n) /\ BuildWeightCycle(weights) = f[n]
    BY CycleJoins
  <1>3. PICK sum : Totals(weights, sum, n) /\ TotalWeight(weights) = sum[n]
    BY TotalIs
  <1> HIDE DEF seqs
  <1>4. /\ f[1] = seqs[1]
        /\ \A i \in 2 .. n : f[i] = f[i - 1] \o seqs[i]
    <2>1. 1 \in 1 .. n /\ \A i \in 2 .. n : i \in 1 .. n /\ i # 1
      BY <1>1
    <2>2. QED
      BY <1>2, <2>1, Zenon DEF Joins
  <1>5. /\ sum[0] = 0
        /\ \A i \in 1 .. n : sum[i] = sum[i - 1] + weights[TenantOrder[i]]
    BY <1>1, <1>3 DEF Totals
  <1>6. Joined(weights, <<>>, 0, 0)
    <2>1. PICK g \in Nat : g = GcdOfWeights(weights)
      BY GcdIs
    <2>2. 0 * g = 0
      OBVIOUS
    <2>3. Len(<<>>) = 0 /\ <<>> \in Seq(Tenants)
      OBVIOUS
    <2>4. QED
      BY <1>1, <2>1, <2>2, <2>3 DEF Joined
  <1>7. Joined(weights, f[1], 1, sum[1])
    <2>1. Joined(weights, <<>> \o seqs[1], 0 + 1, 0 + weights[TenantOrder[0 + 1]])
      <3>1. 0 \in 0 .. n - 1
        BY <1>1
      <3>2. Joined(weights, <<>> \o seqs[0 + 1], 0 + 1, 0 + weights[TenantOrder[0 + 1]])
        BY <1>6, <3>1, JoinNext DEF seqs
      <3>3. QED
        BY <3>2
    <2>2. seqs[1] \in Seq(Tenants)
      <3>1. TenantOrder[1] \in Tenants /\ 1 \in 1 .. n
        BY <1>1, TenantFacts
      <3>2. PICK k \in Nat : k = Share(weights, TenantOrder[1])
        BY <3>1, ShareIs
      <3>3. seqs[1] = [j \in 1 .. k |-> TenantOrder[1]]
        BY <3>1, <3>2 DEF seqs, Rows, Share
      <3>4. QED
        BY <3>1, <3>3
    <2>3. <<>> \o seqs[1] = f[1]
      BY <1>4, <2>2
    <2>4. sum[1] = 0 + weights[TenantOrder[1]] /\ 0 + 1 = 1
      BY <1>1, <1>5
    <2>5. QED
      BY <2>1, <2>3, <2>4
  <1>8. \A i \in 1 .. n - 1 : Joined(weights, f[i], i, sum[i])
                                => Joined(weights, f[i + 1], i + 1, sum[i + 1])
    <2> TAKE i \in 1 .. n - 1
    <2> HAVE Joined(weights, f[i], i, sum[i])
    <2>1. i \in 0 .. n - 1 /\ i + 1 \in 2 .. n /\ i + 1 \in 1 .. n /\ (i + 1) - 1 = i
      BY <1>1
    <2>2. Joined(weights, f[i] \o seqs[i + 1], i + 1, sum[i] + weights[TenantOrder[i + 1]])
      BY <2>1, JoinNext DEF seqs
    <2>3. f[i + 1] = f[i] \o seqs[i + 1]
      BY <1>4, <2>1, Zenon
    <2>4. sum[i + 1] = sum[i] + weights[TenantOrder[i + 1]]
      BY <1>5, <2>1, Zenon
    <2>5. QED
      BY <2>2, <2>3, <2>4, Zenon
  <1> DEFINE Bad == {i \in 1 .. n : ~ Joined(weights, f[i], i, sum[i])}
  <1>9. Bad = {}
    <2> SUFFICES ASSUME Bad # {} PROVE FALSE
      OBVIOUS
    <2>0. Bad \subseteq Nat
      BY <1>1
    <2>1. PICK k \in Bad : \A m \in Bad : k <= m
      BY <2>0, LeastNat, Zenon
    <2>2. k \in 1 .. n /\ k # 1 /\ ~ Joined(weights, f[k], k, sum[k])
      BY <1>7
    <2>3. k - 1 \in 1 .. n - 1 /\ k - 1 \in 1 .. n /\ k - 1 < k /\ (k - 1) + 1 = k
      BY <1>1, <2>2
    <2>4. k - 1 \notin Bad
      BY <2>1, <2>3
    <2>5. Joined(weights, f[k - 1], k - 1, sum[k - 1])
      BY <2>3, <2>4
    <2>6. QED
      BY <1>8, <2>2, <2>3, <2>5, Zenon
  <1>10. QED
    BY <1>1, <1>2, <1>3, <1>9

(* What the rest of the development uses of it.                             *)
LEMMA CycleFacts ==
    ASSUME NEW weights \in Weights, NEW c, c = BuildWeightCycle(weights)
    PROVE  /\ c \in Seq(Tenants)
           /\ Len(c) \in Nat \ {0}
           /\ Len(c) * GcdOfWeights(weights) = TotalWeight(weights)
           /\ \A t \in Tenants : \E a \in Nat : Block(c, t, a, Share(weights, t))
  <1>1. Joined(weights, c, Len(TenantOrder), TotalWeight(weights))
    BY CycleIs
  <1>2. /\ c \in Seq(Tenants)
        /\ Len(c) * GcdOfWeights(weights) = TotalWeight(weights)
    BY <1>1 DEF Joined
  <1>3. \A t \in Tenants : \E a \in Nat : Block(c, t, a, Share(weights, t))
    <2> TAKE t \in Tenants
    <2>1. PICK k \in 1 .. Len(TenantOrder) : TenantOrder[k] = t
      BY TenantFacts
    <2>2. k <= Len(TenantOrder)
      BY TenantFacts
    <2>3. QED
      BY <1>1, <2>1, <2>2 DEF Joined
  <1>4. Len(c) # 0
    <2>1. PICK t \in Tenants : TRUE
      BY TenantFacts
    <2>2. PICK a \in Nat : Block(c, t, a, Share(weights, t))
      BY <1>3
    <2>3. PICK k \in Nat \ {0} : k = Share(weights, t)
      BY ShareIs
    <2>4. a + k <= Len(c)
      BY <2>2, <2>3 DEF Block
    <2>5. QED
      BY <1>2, <2>4
  <1>5. QED
    BY <1>2, <1>3, <1>4

(***************************************************************************)
(* Counting slots.                                                         *)
(***************************************************************************)

(* One more slot counts for its own tenant.                                 *)
LEMMA SlotsNext ==
    ASSUME NEW c, NEW n \in Nat, NEW t
    PROVE  /\ SlotsUpTo(c, n, t) \in Nat
           /\ SlotsUpTo(c, 0, t) = 0
           /\ SlotsUpTo(c, n + 1, t) = SlotsUpTo(c, n, t) + (IF c[n + 1] = t THEN 1 ELSE 0)
  <1> DEFINE Slots(k) == {p \in 1 .. k : c[p] = t}
  <1>1. \A k \in Nat : IsFiniteSet(Slots(k))
    <2> TAKE k \in Nat
    <2>1. IsFiniteSet(1 .. k)
      BY FS_Interval
    <2>2. QED
      BY <2>1, FS_Subset
  <1>2. Cardinality(Slots(n)) \in Nat
    BY <1>1, FS_CardinalityType
  <1>3. Slots(0) = {}
    OBVIOUS
  <1>4. n + 1 \notin Slots(n) /\ n + 1 \in 1 .. n + 1
    OBVIOUS
  <1>5. CASE c[n + 1] = t
    <2>1. Slots(n + 1) = Slots(n) \cup {n + 1}
      BY <1>4, <1>5
    <2> HIDE DEF Slots
    <2>2. Cardinality(Slots(n + 1)) = Cardinality(Slots(n)) + 1
      BY <1>1, <1>4, <2>1, FS_AddElement
    <2> USE DEF Slots
    <2>3. QED
      BY <1>2, <1>3, <1>5, <2>2, FS_EmptySet DEF SlotsUpTo
  <1>6. CASE c[n + 1] # t
    <2>1. Slots(n + 1) = Slots(n)
      BY <1>6
    <2>2. Cardinality(Slots(n)) + 0 = Cardinality(Slots(n))
      BY <1>2
    <2>3. Cardinality(Slots(n + 1)) = Cardinality(Slots(n)) + (IF c[n + 1] = t THEN 1 ELSE 0)
      BY <1>6, <2>1, <2>2, Zenon
    <2>4. QED
      BY <1>2, <1>3, <2>3, FS_EmptySet, Zenon DEF SlotsUpTo
  <1>7. QED
    BY <1>5, <1>6

(* All the slots of a tenant are its share.                                 *)
LEMMA SlotsAll ==
    ASSUME NEW weights \in Weights, NEW c, c = BuildWeightCycle(weights), NEW t \in Tenants
    PROVE  SlotsUpTo(c, Len(c), t) = Share(weights, t)
  <1>1. PICK a \in Nat : Block(c, t, a, Share(weights, t))
    BY CycleFacts
  <1>2. PICK k \in Nat \ {0} : k = Share(weights, t)
    BY ShareIs
  <1>3. PICK n \in Nat : n = Len(c)
    BY CycleFacts
  <1>4. a + k <= n /\ \A p \in 1 .. n : c[p] = t <=> a < p /\ p <= a + k
    BY <1>1, <1>2, <1>3 DEF Block
  <1>5. {p \in 1 .. n : c[p] = t} = (a + 1) .. (a + k)
    BY <1>4
  <1>6. Cardinality((a + 1) .. (a + k)) = k
    <2>1. a + 1 \in Int /\ a + k \in Int /\ ~(a + 1 > a + k) /\ (a + k) - (a + 1) + 1 = k
      OBVIOUS
    <2>2. QED
      BY <2>1, FS_Interval
  <1>7. QED
    BY <1>2, <1>3, <1>5, <1>6 DEF SlotsUpTo

(***************************************************************************)
(* Where the pointer stands.                                               *)
(***************************************************************************)

(* Positions of the lap after this one are those of this one.               *)
LEMMA Wraps ==
    ASSUME NEW L \in Nat \ {0}, NEW x \in Nat
    PROVE  /\ x % L \in 0 .. L - 1
           /\ x < L => x % L = x
           /\ L <= x /\ x < 2 * L => x % L = x - L
  <1>1. x % L \in 0 .. L - 1
    OBVIOUS
  <1>2. x < L => x % L = x
    OBVIOUS
  <1>3. L <= x /\ x < 2 * L => x % L = x - L
    OBVIOUS
  <1>4. QED
    BY <1>1, <1>2, <1>3

(* The slot a pointer stands on, and one that is k slots further.           *)
LEMMA SlotIs ==
    ASSUME NEW c, NEW T, c \in Seq(T), Len(c) \in Nat \ {0}
    PROVE  /\ \A x \in Nat : SlotAt(c, x) \in T
           /\ \A x \in 0 .. Len(c) - 1 : SlotAt(c, x) = c[x + 1]
           /\ \A x \in 0 .. Len(c) - 1 : SlotAt(c, x + Len(c)) = c[x + 1]
  <1>1. PICK L \in Nat \ {0} : L = Len(c)
    OBVIOUS
  <1>2. \A p \in 1 .. L : c[p] \in T
    BY <1>1
  <1>3. \A x \in Nat : SlotAt(c, x) \in T
    <2> TAKE x \in Nat
    <2>0. x % L \in 0 .. L - 1
      BY Wraps
    <2>1. (x % L) + 1 \in 1 .. L
      BY <2>0
    <2>2. QED
      BY <1>1, <1>2, <2>1 DEF SlotAt
  <1>4. \A x \in 0 .. L - 1 : SlotAt(c, x) = c[x + 1]
    <2> TAKE x \in 0 .. L - 1
    <2>1. x \in Nat /\ x < L
      OBVIOUS
    <2>2. x % L = x
      BY <2>1, Wraps
    <2>3. QED
      BY <1>1, <2>2 DEF SlotAt
  <1>5. \A x \in 0 .. L - 1 : SlotAt(c, x + L) = c[x + 1]
    <2> TAKE x \in 0 .. L - 1
    <2>1. x + L \in Nat /\ L <= x + L /\ x + L < 2 * L /\ (x + L) - L = x
      OBVIOUS
    <2>2. (x + L) % L = x
      BY <2>1, Wraps
    <2>3. QED
      BY <1>1, <2>2 DEF SlotAt
  <1>6. QED
    BY <1>1, <1>3, <1>4, <1>5

(* The slots ahead of a pointer that has moved on to x.                     *)
LEMMA SlotMoved ==
    ASSUME NEW c, c \in Seq(Tenants), Len(c) \in Nat \ {0},
           NEW x \in Nat, NEW k \in Nat, x + k < 2 * Len(c)
    PROVE  SlotAt(c, (x % Len(c)) + k) = SlotAt(c, x + k)
  <1>1. PICK L \in Nat \ {0} : L = Len(c)
    OBVIOUS
  <1>2. x < 2 * L /\ x + k < 2 * L
    BY <1>1
  <1>3. CASE x < L
    <2>1. x % L = x
      BY <1>3, Wraps
    <2>2. QED
      BY <1>1, <2>1
  <1>4. CASE L <= x
    <2>1. x % L = x - L
      BY <1>2, <1>4, Wraps
    <2>2. x - L + k \in 0 .. L - 1 /\ (x - L + k) + L = x + k
      BY <1>2, <1>4
    <2>3. SlotAt(c, (x - L + k) + L) = SlotAt(c, x - L + k)
      BY <1>1, <2>2, SlotIs, Zenon
    <2>4. QED
      BY <1>1, <2>1, <2>2, <2>3
  <1>5. QED
    BY <1>3, <1>4

(* A tenant's next slot: it exists, and is no further away than the slots   *)
(* of the other tenants are many.                                           *)
LEMMA AheadIs ==
    ASSUME NEW weights \in Weights, NEW c, c = BuildWeightCycle(weights),
           NEW t \in Tenants, NEW pos \in 0 .. Len(c) - 1
    PROVE  /\ Ahead(c, pos, t) \in 0 .. Len(c) - 1
           /\ SlotAt(c, pos + Ahead(c, pos, t)) = t
           /\ \A k \in 0 .. Len(c) - 1 : SlotAt(c, pos + k) = t => Ahead(c, pos, t) <= k
           /\ Ahead(c, pos, t) <= Len(c) - Share(weights, t)
  <1>1. PICK a \in Nat : Block(c, t, a, Share(weights, t))
    BY CycleFacts
  <1>2. PICK n \in Nat \ {0} : n = Share(weights, t)
    BY ShareIs
  <1>3. PICK L \in Nat \ {0} : L = Len(c)
    BY CycleFacts
  <1>4. a + n <= L /\ \A p \in 1 .. L : c[p] = t <=> a < p /\ p <= a + n
    BY <1>1, <1>2, <1>3 DEF Block
  <1>5. c \in Seq(Tenants)
    BY CycleFacts
  <1> DEFINE K == {k \in 0 .. L - 1 : SlotAt(c, pos + k) = t}
  <1>6. \E k \in K : k <= L - n
    <2>0. /\ \A x \in 0 .. L - 1 : SlotAt(c, x) = c[x + 1]
          /\ \A x \in 0 .. L - 1 : SlotAt(c, x + L) = c[x + 1]
      BY <1>3, <1>5, SlotIs
    <2>1. CASE pos < a
      <3>1. a - pos \in 0 .. L - 1 /\ a - pos <= L - n /\ pos + (a - pos) = a
            /\ a + 1 \in 1 .. L /\ a \in 0 .. L - 1
        BY <1>3, <1>4, <2>1
      <3>2. SlotAt(c, a) = t
        <4>1. c[a + 1] = t
          BY <1>4, <3>1
        <4>2. QED
          BY <2>0, <3>1, <4>1, Zenon
      <3>3. QED
        BY <3>1, <3>2
    <2>2. CASE a <= pos /\ pos < a + n
      <3>1. SlotAt(c, pos) = t
        BY <1>3, <1>4, <2>0, <2>2
      <3>2. pos + 0 = pos /\ 0 \in 0 .. L - 1 /\ 0 <= L - n
        BY <1>3, <1>4
      <3>3. QED
        BY <3>1, <3>2
    <2>3. CASE a + n <= pos
      <3>1. L - pos + a \in 0 .. L - 1 /\ L - pos + a <= L - n
            /\ pos + (L - pos + a) = a + L /\ a + 1 \in 1 .. L /\ a \in 0 .. L - 1
        BY <1>3, <1>4, <2>3
      <3>2. SlotAt(c, a + L) = t
        <4>1. c[a + 1] = t
          BY <1>4, <3>1
        <4>2. QED
          BY <2>0, <3>1, <4>1, Zenon
      <3>3. QED
        BY <3>1, <3>2
    <2>4. QED
      BY <1>3, <2>1, <2>2, <2>3
  <1>7. K \subseteq Nat /\ K # {}
    <2>1. K \subseteq 0 .. L - 1
      OBVIOUS
    <2>2. 0 .. L - 1 \subseteq Nat
      OBVIOUS
    <2>3. QED
      BY <1>6, <2>1, <2>2, Zenon
  <1>8. Min(K) \in K /\ \A k \in K : Min(K) <= k
    BY <1>7, MinIs, Zenon
  <1>9. Ahead(c, pos, t) = Min(K)
    BY <1>3 DEF Ahead
  <1>10. PICK m \in K : m = Ahead(c, pos, t) /\ \A k \in K : m <= k
    BY <1>8, <1>9
  <1>11. PICK k \in K : k <= L - n
    BY <1>6
  <1>12. m <= L - n
    <2>1. m \in Nat /\ k \in Nat /\ m <= k
      BY <1>7, <1>10
    <2>2. QED
      BY <1>11, <2>1
  <1>13. QED
    BY <1>2, <1>3, <1>10, <1>12

(***************************************************************************)
(* A walk of the pointer.                                                  *)
(***************************************************************************)

(* The walk stops at the first slot whose tenant has jobs.                  *)
LEMMA WalkIs ==
    ASSUME NEW c, NEW T, c \in Seq(T), Len(c) \in Nat \ {0},
           NEW pos \in 0 .. Len(c) - 1, NEW queues,
           \E k \in 0 .. Len(c) - 1 : queues[SlotAt(c, pos + k)] # <<>>
    PROVE  /\ Skipped(c, pos, queues) \in 0 .. Len(c) - 1
           /\ \A k \in 0 .. Len(c) - 1 :
                 queues[SlotAt(c, pos + k)] # <<>> => Skipped(c, pos, queues) <= k
           /\ NextTenant(c, pos, queues) \in T
           /\ queues[NextTenant(c, pos, queues)] # <<>>
           /\ Advance(c, pos, queues) \in 0 .. Len(c) - 1
  <1>1. PICK L \in Nat \ {0} : L = Len(c)
    OBVIOUS
  <1> DEFINE K == {k \in 0 .. L - 1 : queues[SlotAt(c, pos + k)] # <<>>}
  <1>2. K \subseteq Nat /\ K # {}
    <2>1. K \subseteq 0 .. L - 1
      OBVIOUS
    <2>2. 0 .. L - 1 \subseteq Nat
      OBVIOUS
    <2>3. QED
      BY <1>1, <2>1, <2>2
  <1>3. Min(K) \in K /\ \A k \in K : Min(K) <= k
    BY <1>2, MinIs, Zenon
  <1>4. Skipped(c, pos, queues) = Min(K)
    BY <1>1 DEF Skipped
  <1>5. PICK m \in K : m = Skipped(c, pos, queues) /\ \A k \in K : m <= k
    BY <1>3, <1>4
  <1>6. m \in 0 .. L - 1 /\ queues[SlotAt(c, pos + m)] # <<>>
    OBVIOUS
  <1>7. NextTenant(c, pos, queues) = SlotAt(c, pos + m)
    BY <1>5 DEF NextTenant
  <1>8. pos + m \in Nat /\ pos + m + 1 \in Nat
    BY <1>1, <1>6
  <1>9. SlotAt(c, pos + m) \in T
    BY <1>1, <1>8, SlotIs
  <1>10. (pos + m + 1) % L \in 0 .. L - 1
    BY <1>8, Wraps
  <1>11. Advance(c, pos, queues) = (pos + m + 1) % L
    BY <1>1, <1>5 DEF Advance
  <1>12. QED
    BY <1>1, <1>5, <1>6, <1>7, <1>9, <1>10, <1>11

(* peek's walk ends where dequeue's does.                                   *)
LEMMA PeekWalkIs ==
    ASSUME NEW c, NEW T, c \in Seq(T), Len(c) \in Nat \ {0},
           NEW pos \in 0 .. Len(c) - 1, NEW queues,
           \E k \in 0 .. Len(c) - 1 : queues[SlotAt(c, pos + k)] # <<>>
    PROVE  PeekTenant(c, pos, queues) = NextTenant(c, pos, queues)
  <1>0. PICK L \in Nat \ {0} : L = Len(c)
    OBVIOUS
  <1>1. PICK w : w = [k \in 1 .. L |-> SlotAt(c, pos + (k - 1))]
    OBVIOUS
  <1>2. PICK m \in 0 .. L - 1 : /\ m = Skipped(c, pos, queues)
                                /\ queues[SlotAt(c, pos + m)] # <<>>
                                /\ \A k \in 0 .. L - 1 :
                                      queues[SlotAt(c, pos + k)] # <<>> => m <= k
    <2>1. /\ Skipped(c, pos, queues) \in 0 .. Len(c) - 1
          /\ \A k \in 0 .. Len(c) - 1 :
                queues[SlotAt(c, pos + k)] # <<>> => Skipped(c, pos, queues) <= k
          /\ queues[NextTenant(c, pos, queues)] # <<>>
      BY WalkIs, Zenon
    <2>2. QED
      BY <1>0, <2>1, Zenon DEF NextTenant
  <1>3. DOMAIN w = 1 .. L /\ \A k \in 1 .. L : w[k] = SlotAt(c, pos + (k - 1))
    BY <1>1, Zenon
  <1> DEFINE K == {k \in 1 .. L : queues[w[k]] # <<>>}
  <1>4. m + 1 \in 1 .. L /\ (m + 1) - 1 = m
    OBVIOUS
  <1>5. w[m + 1] = SlotAt(c, pos + m)
    BY <1>3, <1>4
  <1>6. m + 1 \in K
    BY <1>2, <1>4, <1>5
  <1>7. K \subseteq Nat /\ K # {}
    BY <1>6
  <1>8. Min(K) \in K /\ \A k \in K : Min(K) <= k
    BY <1>7, MinIs, Zenon
  <1>9. PICK n \in 1 .. L : n = Min(K) /\ queues[w[n]] # <<>> /\ n <= m + 1
    BY <1>6, <1>8
  <1>10. n - 1 \in 0 .. L - 1 /\ queues[SlotAt(c, pos + (n - 1))] # <<>>
    BY <1>3, <1>9
  <1>11. m <= n - 1
    BY <1>2, <1>10, Zenon
  <1>12. n = m + 1
    BY <1>9, <1>11
  <1>13. PeekTenant(c, pos, queues) = FirstWithJobs(w, queues)
    BY <1>0, <1>1 DEF PeekTenant
  <1>14. FirstWithJobs(w, queues) = w[n]
    BY <1>3, <1>9 DEF FirstWithJobs
  <1>15. QED
    BY <1>2, <1>5, <1>12, <1>13, <1>14 DEF NextTenant

(* Whoever has jobs is found.                                               *)
LEMMA SomebodyFound ==
    ASSUME NEW weights \in Weights, NEW c, c = BuildWeightCycle(weights),
           NEW pos \in 0 .. Len(c) - 1, NEW queues, NEW t \in Tenants, queues[t] # <<>>
    PROVE  /\ \E k \in 0 .. Len(c) - 1 : queues[SlotAt(c, pos + k)] # <<>>
           /\ Skipped(c, pos, queues) <= Ahead(c, pos, t)
           /\ Skipped(c, pos, queues) = Ahead(c, pos, t) => NextTenant(c, pos, queues) = t
  <1>1. /\ Ahead(c, pos, t) \in 0 .. Len(c) - 1
        /\ SlotAt(c, pos + Ahead(c, pos, t)) = t
    BY AheadIs
  <1>2. \E k \in 0 .. Len(c) - 1 : queues[SlotAt(c, pos + k)] # <<>>
    BY <1>1
  <1>3. c \in Seq(Tenants) /\ Len(c) \in Nat \ {0}
    BY CycleFacts
  <1>4. \A k \in 0 .. Len(c) - 1 :
            queues[SlotAt(c, pos + k)] # <<>> => Skipped(c, pos, queues) <= k
    BY <1>2, <1>3, WalkIs
  <1>5. QED
    BY <1>1, <1>2, <1>4 DEF NextTenant

(* A walk that serves somebody else brings the next slot of a tenant with   *)
(* jobs closer.                                                             *)
LEMMA WalkBringsCloser ==
    ASSUME NEW weights \in Weights, NEW c, c = BuildWeightCycle(weights),
           NEW pos \in 0 .. Len(c) - 1, NEW queues, NEW t \in Tenants, queues[t] # <<>>,
           NextTenant(c, pos, queues) # t
    PROVE  Ahead(c, Advance(c, pos, queues), t) + 1 <= Ahead(c, pos, t)
  <1>1. c \in Seq(Tenants) /\ Len(c) \in Nat \ {0}
    BY CycleFacts
  <1>2. PICK L \in Nat \ {0} : L = Len(c)
    BY <1>1
  <1>3. /\ \E k \in 0 .. Len(c) - 1 : queues[SlotAt(c, pos + k)] # <<>>
        /\ Skipped(c, pos, queues) <= Ahead(c, pos, t)
        /\ Skipped(c, pos, queues) # Ahead(c, pos, t)
    BY SomebodyFound
  <1>4. PICK m \in 0 .. L - 1 : m = Skipped(c, pos, queues)
    BY <1>1, <1>2, <1>3, WalkIs
  <1>5. PICK a \in 0 .. L - 1 : a = Ahead(c, pos, t)
    BY <1>2, AheadIs
  <1>6. m < a
    BY <1>3, <1>4, <1>5
  <1>7. PICK q \in 0 .. L - 1 : q = Advance(c, pos, queues)
    BY <1>1, <1>2, <1>3, WalkIs
  <1>8. q = (pos + (m + 1)) % L
    BY <1>2, <1>4, <1>7 DEF Advance
  <1>9. /\ m + 1 \in Nat /\ a - (m + 1) \in Nat /\ (m + 1) + (a - (m + 1)) <= L
        /\ pos + (m + 1) + (a - (m + 1)) = pos + a /\ a - (m + 1) \in 0 .. L - 1
    BY <1>2, <1>6
  <1>10. SlotAt(c, q + (a - (m + 1))) = SlotAt(c, pos + a)
    <2>1. PICK x \in Nat : x = pos + (m + 1)
      BY <1>2
    <2>2. PICK k \in Nat : k = a - (m + 1)
      BY <1>9
    <2>3. x + k < 2 * Len(c) /\ x + k = pos + a
      BY <1>2, <2>1, <2>2
    <2>4. SlotAt(c, (x % Len(c)) + k) = SlotAt(c, x + k)
      BY <1>1, <2>3, SlotMoved
    <2>5. QED
      BY <1>2, <1>8, <2>1, <2>2, <2>3, <2>4
  <1>11. SlotAt(c, pos + a) = t
    BY <1>5, AheadIs
  <1>12. Ahead(c, q, t) <= a - (m + 1) /\ Ahead(c, q, t) \in 0 .. L - 1
    <2>1. \A k \in 0 .. Len(c) - 1 : SlotAt(c, q + k) = t => Ahead(c, q, t) <= k
      BY <1>2, AheadIs
    <2>2. Ahead(c, q, t) \in 0 .. Len(c) - 1
      BY <1>2, AheadIs
    <2>3. QED
      BY <1>2, <1>9, <1>10, <1>11, <2>1, <2>2, Zenon
  <1>13. PICK b \in 0 .. L - 1 : b = Ahead(c, q, t) /\ b <= a - (m + 1)
    BY <1>12
  <1>14. b + 1 <= a
    BY <1>13
  <1>15. QED
    BY <1>5, <1>7, <1>13, <1>14

(* With jobs everywhere no slot is passed over.                             *)
LEMMA NobodySkipped ==
    ASSUME NEW c, c \in Seq(Tenants), Len(c) \in Nat \ {0},
           NEW pos \in 0 .. Len(c) - 1, NEW queues, \A t \in Tenants : queues[t] # <<>>
    PROVE  /\ Skipped(c, pos, queues) = 0
           /\ NextTenant(c, pos, queues) = c[pos + 1]
  <1>1. pos \in Nat /\ pos + 0 = pos /\ 0 \in 0 .. Len(c) - 1
    OBVIOUS
  <1>2. SlotAt(c, pos) \in Tenants /\ SlotAt(c, pos) = c[pos + 1]
    BY <1>1, SlotIs
  <1>3. queues[SlotAt(c, pos + 0)] # <<>>
    BY <1>1, <1>2
  <1>4. \E k \in 0 .. Len(c) - 1 : queues[SlotAt(c, pos + k)] # <<>>
    BY <1>1, <1>3
  <1>5. /\ Skipped(c, pos, queues) \in 0 .. Len(c) - 1
        /\ \A k \in 0 .. Len(c) - 1 :
              queues[SlotAt(c, pos + k)] # <<>> => Skipped(c, pos, queues) <= k
    BY <1>4, WalkIs
  <1>6. Skipped(c, pos, queues) <= 0
    BY <1>1, <1>3, <1>5
  <1>7. Skipped(c, pos, queues) = 0
    BY <1>5, <1>6
  <1>8. QED
    BY <1>1, <1>2, <1>7 DEF NextTenant

(***************************************************************************)
(* Laps.                                                                   *)
(***************************************************************************)

(* What is counted of the lap under way, and of the last one.               *)
Counted(lap, c, pos) ==
    /\ lap.busy => \A t \in Tenants : lap.served[t] = SlotsUpTo(c, pos, t)
    /\ \/ lap.last = NoLap
       \/ \A t \in Tenants : lap.last[t] = SlotsUpTo(c, Len(c), t)

(* A dequeue keeps the count, within a lap and at its end.                  *)
LEMMA LapKept ==
    ASSUME NEW c, c \in Seq(Tenants), Len(c) \in Nat \ {0},
           NEW pos \in 0 .. Len(c) - 1, NEW queues,
           \E k \in 0 .. Len(c) - 1 : queues[SlotAt(c, pos + k)] # <<>>,
           NEW lap \in Lap, Counted(lap, c, pos)
    PROVE  /\ LapAfterDequeue(lap, c, pos, queues) \in Lap
           /\ Counted(LapAfterDequeue(lap, c, pos, queues), c, Advance(c, pos, queues))
  <1> DEFINE busy   == lap.busy /\ \A t \in Tenants : queues[t] # <<>>
             u      == NextTenant(c, pos, queues)
             served == [lap.served EXCEPT ![u] = @ + 1]
             after  == LapAfterDequeue(lap, c, pos, queues)
             next   == Advance(c, pos, queues)
  <1>1. PICK L \in Nat \ {0} : L = Len(c)
    OBVIOUS
  <1>2. PICK m \in 0 .. L - 1 : m = Skipped(c, pos, queues)
    BY <1>1, WalkIs
  <1>3. u \in Tenants
    BY WalkIs
  <1>4. /\ lap.busy \in BOOLEAN /\ lap.served \in [Tenants -> Nat]
        /\ lap.last \in [Tenants -> Nat]
    BY DEF Lap
  <1>5. /\ served \in [Tenants -> Nat] /\ NoLap \in [Tenants -> Nat]
        /\ \A t \in Tenants : served[t] = lap.served[t] + (IF u = t THEN 1 ELSE 0)
    <2>1. PICK f \in [Tenants -> Nat] : f = lap.served
      BY <1>4
    <2>2. PICK v \in Tenants : v = u
      BY <1>3
    <2>3. PICK g : g = [f EXCEPT ![v] = f[v] + 1]
      OBVIOUS
    <2>4. /\ g \in [Tenants -> Nat]
          /\ \A t \in Tenants : g[t] = f[t] + (IF v = t THEN 1 ELSE 0)
      BY <2>3
    <2>5. served = g
      BY <2>1, <2>2, <2>3, Zenon
    <2>6. NoLap \in [Tenants -> Nat]
      BY DEF NoLap
    <2> HIDE DEF served, u
    <2>7. QED
      BY <2>1, <2>2, <2>4, <2>5, <2>6
  <1>6. PICK x \in Nat : x = pos + m + 1 /\ x < 2 * L
    BY <1>1
  <1>7. next = x % L
    BY <1>1, <1>2, <1>6 DEF Advance
  <1>8. busy \in BOOLEAN
    OBVIOUS
  <1>9. after = IF x < L THEN [lap EXCEPT !.busy = busy, !.served = served]
                ELSE [busy |-> x = L, served |-> NoLap,
                      last |-> IF busy THEN served ELSE lap.last]
    BY <1>1, <1>2, <1>6 DEF LapAfterDequeue
  <1>10. ASSUME busy
         PROVE  x = pos + 1 /\ \A t \in Tenants : served[t] = SlotsUpTo(c, x, t)
    <2>1. Skipped(c, pos, queues) = 0 /\ u = c[pos + 1]
      BY <1>10, NobodySkipped
    <2>2. x = pos + 1 /\ pos \in Nat
      BY <1>1, <1>2, <1>6, <2>1
    <2>3. ASSUME NEW t \in Tenants
          PROVE  served[t] = SlotsUpTo(c, x, t)
      <3>1. lap.served[t] = SlotsUpTo(c, pos, t)
        BY <1>10 DEF Counted
      <3>2. /\ SlotsUpTo(c, pos, t) \in Nat
            /\ SlotsUpTo(c, pos + 1, t)
                 = SlotsUpTo(c, pos, t) + (IF c[pos + 1] = t THEN 1 ELSE 0)
        BY <2>2, SlotsNext
      <3>3. served[t] = lap.served[t] + (IF c[pos + 1] = t THEN 1 ELSE 0)
        BY <1>5, <2>1, Zenon
      <3>4. QED
        BY <2>2, <3>1, <3>2, <3>3
    <2>4. QED
      BY <2>2, <2>3
  <1> HIDE DEF busy, served, after, next
  <1>11. CASE x < L
    <2>1. /\ after.busy = busy /\ after.served = served /\ after.last = lap.last
          /\ after \in Lap
      BY <1>4, <1>5, <1>8, <1>9, <1>11 DEF Lap
    <2>2. next = x
      BY <1>7, <1>11, Wraps
    <2>3. Counted(after, c, next)
      BY <1>10, <2>1, <2>2 DEF Counted
    <2>4. QED
      BY <2>1, <2>3 DEF after, next
  <1>12. CASE ~(x < L)
    <2>1. /\ after.busy = (x = L) /\ after.served = NoLap
          /\ after.last = IF busy THEN served ELSE lap.last
      BY <1>9, <1>12
    <2>2. after \in Lap
      BY <1>4, <1>5, <1>8, <1>9, <1>12 DEF Lap
    <2>3. ASSUME x = L, NEW t \in Tenants
          PROVE  after.served[t] = SlotsUpTo(c, next, t)
      <3>1. next = 0
        <4>1. L <= x /\ x < 2 * L /\ x - L = 0
          BY <2>3
        <4>2. x % L = x - L
          BY <4>1, Wraps
        <4>3. QED
          BY <1>7, <4>1, <4>2
      <3>2. SlotsUpTo(c, 0, t) = 0
        BY SlotsNext
      <3>3. QED
        BY <2>1, <3>1, <3>2 DEF NoLap
    <2>4. ASSUME busy, NEW t \in Tenants
          PROVE  served[t] = SlotsUpTo(c, Len(c), t)
      <3>1. x = L
        BY <1>1, <1>10, <1>12, <2>4
      <3>2. QED
        BY <1>1, <1>10, <2>4, <3>1
    <2>5. \/ after.last = NoLap
          \/ \A t \in Tenants : after.last[t] = SlotsUpTo(c, Len(c), t)
      <3>1. CASE busy
        BY <2>1, <2>4, <3>1
      <3>2. CASE ~busy
        BY <2>1, <3>2 DEF Counted
      <3>3. QED
        BY <3>1, <3>2
    <2>6. Counted(after, c, next)
      BY <2>1, <2>3, <2>5 DEF Counted
    <2>7. QED
      BY <2>2, <2>6 DEF after, next
  <1>13. QED
    BY <1>11, <1>12

(***************************************************************************)
(* The scan of _best_job_index.                                            *)
(***************************************************************************)

(* f[i] is the best index among the first i.                                *)
Scan(jobs, f, n) ==
    f = [i \in 1 .. n |->
            IF i = 1 THEN 1
            ELSE IF Better(jobs[i], jobs[f[i - 1]]) THEN i ELSE f[i - 1]]

(* Such a scan exists, so best in BestJobIndex is one.                      *)
LEMMA ScanExists ==
    ASSUME NEW jobs, NEW n \in Nat
    PROVE  \E f : Scan(jobs, f, n)
  <1> DEFINE Bad == {k \in Nat : ~ \E f : Scan(jobs, f, k)}
  <1> SUFFICES ASSUME Bad # {} PROVE FALSE
    OBVIOUS
  <1>1. PICK k \in Bad : \A m \in Bad : k <= m
    BY LeastNat
  <1>2. CASE k = 0
    <2>1. Scan(jobs, [i \in 1 .. 0 |-> 1], 0)
      BY DEF Scan
    <2>2. QED
      BY <1>2, <2>1
  <1>3. CASE k # 0
    <2>1. k - 1 \in Nat /\ k - 1 < k
      BY <1>3
    <2>2. PICK g : Scan(jobs, g, k - 1)
      BY <1>1, <2>1
    <2> DEFINE h == [i \in 1 .. k |->
                        IF i < k THEN g[i]
                        ELSE IF i = 1 THEN 1
                        ELSE IF Better(jobs[i], jobs[g[i - 1]]) THEN i ELSE g[i - 1]]
    <2>3. \A i \in 1 .. k : h[i] = IF i = 1 THEN 1
              ELSE IF Better(jobs[i], jobs[h[i - 1]]) THEN i ELSE h[i - 1]
      <3> TAKE i \in 1 .. k
      <3>1. i # 1 => h[i - 1] = g[i - 1]
        OBVIOUS
      <3>2. CASE i < k
        <4>1. g[i] = IF i = 1 THEN 1
                     ELSE IF Better(jobs[i], jobs[g[i - 1]]) THEN i ELSE g[i - 1]
          BY <2>2, <3>2 DEF Scan
        <4>2. QED
          BY <3>1, <3>2, <4>1
      <3>3. CASE i = k
        BY <3>1, <3>3
      <3>4. QED
        BY <3>2, <3>3
    <2>4. Scan(jobs, h, k)
      BY <2>3 DEF Scan
    <2>5. QED
      BY <2>4
  <1>4. QED
    BY <1>2, <1>3

(* Jobs that can be compared.                                               *)
Comparable(job) == job.job_id \in Int /\ job.priority \in Int /\ job.created_at \in Int

(* The order is transitive, so the best of the best so far is the best.     *)
LEMMA BetterOrder ==
    ASSUME NEW a, NEW b, NEW c, Comparable(a), Comparable(b), Comparable(c)
    PROVE  /\ ~Better(a, a)
           /\ Better(a, b) => ~Better(b, a)
           /\ ~Better(a, b) /\ Better(c, b) => ~Better(a, c)
  BY DEF Comparable, Better

(* The scan finds a job than which none is better.                          *)
LEMMA BestJobFound ==
    ASSUME NEW J, NEW jobs \in Seq(J), Len(jobs) > 0, \A job \in J : Comparable(job)
    PROVE  /\ BestJobIndex(jobs) \in 1 .. Len(jobs)
           /\ \A i \in 1 .. Len(jobs) : ~Better(jobs[i], jobs[BestJobIndex(jobs)])
  <1> DEFINE n == Len(jobs)
             f == CHOOSE f : Scan(jobs, f, Len(jobs))
  <1>1. n \in Nat \ {0}
    OBVIOUS
  <1>2. Scan(jobs, f, n)
    BY <1>1, ScanExists, Zenon
  <1>3. BestJobIndex(jobs) = f[n]
    BY DEF BestJobIndex, Scan
  <1>4. f[1] = 1 /\ \A i \in 2 .. n :
            f[i] = IF Better(jobs[i], jobs[f[i - 1]]) THEN i ELSE f[i - 1]
    <2>1. 1 \in 1 .. n /\ \A i \in 2 .. n : i \in 1 .. n /\ i # 1
      BY <1>1
    <2> HIDE DEF f
    <2>2. QED
      BY <1>2, <2>1, Zenon DEF Scan
  <1>5. \A i \in 1 .. n : Comparable(jobs[i])
    OBVIOUS
  <1> HIDE DEF f, n
  <1> DEFINE Good(i) == f[i] \in 1 .. i /\ \A k \in 1 .. i : ~Better(jobs[k], jobs[f[i]])
             Bad == {i \in 1 .. n : ~Good(i)}
  <1>6. Good(1)
    BY <1>1, <1>4, <1>5, BetterOrder
  <1>7. ASSUME NEW i \in 2 .. n, Good(i - 1) PROVE Good(i)
    <2>1. i - 1 \in Nat /\ i \in 1 .. n
      BY <1>1
    <2>2. PICK b \in 1 .. i - 1 : b = f[i - 1] /\ \A k \in 1 .. i - 1 : ~Better(jobs[k], jobs[b])
      BY <1>7
    <2>3. b \in 1 .. n /\ Comparable(jobs[b]) /\ Comparable(jobs[i])
      BY <1>1, <1>5, <2>1
    <2>4. f[i] = IF Better(jobs[i], jobs[b]) THEN i ELSE b
      BY <1>4, <2>2
    <2>5. ASSUME NEW k \in 1 .. i PROVE ~Better(jobs[k], jobs[f[i]])
      <3>1. k \in 1 .. n /\ Comparable(jobs[k])
        BY <1>1, <1>5, <2>1
      <3>2. k # i => ~Better(jobs[k], jobs[b])
        BY <2>1, <2>2
      <3>3. CASE Better(jobs[i], jobs[b])
        BY <2>3, <2>4, <3>1, <3>2, <3>3, BetterOrder
      <3>4. CASE ~Better(jobs[i], jobs[b])
        BY <2>4, <3>2, <3>4
      <3>5. QED
        BY <3>3, <3>4
    <2>6. f[i] \in 1 .. i
      BY <2>1, <2>4
    <2>7. QED
      BY <2>5, <2>6
  <1> HIDE DEF Good
  <1>8. Bad = {}
    <2> SUFFICES ASSUME Bad # {} PROVE FALSE
      OBVIOUS
    <2>1. Bad \subseteq Nat
      BY <1>1
    <2>2. PICK k \in Bad : \A m \in Bad : k <= m
      BY <2>1, LeastNat, Zenon
    <2>3. k \in 2 .. n /\ ~Good(k)
      BY <1>1, <1>6
    <2>4. k - 1 \in 1 .. n /\ k - 1 < k
      BY <1>1, <2>3
    <2>5. k - 1 \notin Bad
      BY <2>2, <2>4
    <2>6. Good(k - 1)
      BY <2>4, <2>5
    <2>7. QED
      BY <1>7, <2>3, <2>6
  <1>9. Good(n)
    BY <1>1, <1>8
  <1>10. QED
    BY <1>3, <1>9 DEF Good, n

(***************************************************************************)
(* Lanes and places.                                                       *)
(***************************************************************************)

(* del queue[index]: the jobs behind it move up by one.                     *)
LEMMA RemovedIs ==
    ASSUME NEW J, NEW s \in Seq(J), NEW i \in 1 .. Len(s)
    PROVE  /\ RemoveAt(s, i) \in Seq(J)
           /\ Len(RemoveAt(s, i)) = Len(s) - 1
           /\ \A k \in 1 .. Len(s) - 1 :
                 RemoveAt(s, i)[k] = IF k < i THEN s[k] ELSE s[k + 1]
  <1>1. PICK n \in Nat : n = Len(s) /\ i \in 1 .. n
    OBVIOUS
  <1> DEFINE a == SubSeq(s, 1, i - 1)
             b == SubSeq(s, i + 1, n)
  <1>2. a \in Seq(J) /\ Len(a) = i - 1 /\ \A k \in 1 .. i - 1 : a[k] = s[k]
    BY <1>1
  <1>3. b \in Seq(J) /\ Len(b) = n - i /\ \A k \in 1 .. n - i : b[k] = s[k + i]
    BY <1>1
  <1> HIDE DEF a, b
  <1>4. /\ a \o b \in Seq(J) /\ Len(a \o b) = n - 1
        /\ \A k \in 1 .. n - 1 : (a \o b)[k] = IF k < i THEN a[k] ELSE b[k - (i - 1)]
    <2>1. a \o b \in Seq(J) /\ Len(a \o b) = Len(a) + Len(b)
      BY <1>2, <1>3
    <2>2. (i - 1) + (n - i) = n - 1
      BY <1>1
    <2>3. Len(a \o b) = n - 1
      BY <1>2, <1>3, <2>1, <2>2
    <2>4. ASSUME NEW k \in 1 .. n - 1
          PROVE  (a \o b)[k] = IF k < i THEN a[k] ELSE b[k - (i - 1)]
      <3>1. a \in Seq(J) /\ b \in Seq(J) /\ Len(a) = i - 1 /\ Len(b) = n - i
        BY <1>2, <1>3
      <3>2. (a \o b)[k] = IF k <= Len(a) THEN a[k] ELSE b[k - Len(a)]
        BY <1>1, <2>4, <3>1
      <3>3. k <= i - 1 <=> k < i
        BY <1>1, <2>4
      <3>4. QED
        BY <3>1, <3>2, <3>3
    <2>5. QED
      BY <2>1, <2>3, <2>4
  <1>5. \A k \in 1 .. n - 1 : (a \o b)[k] = IF k < i THEN s[k] ELSE s[k + 1]
    <2> TAKE k \in 1 .. n - 1
    <2>1. CASE k < i
      BY <1>1, <1>2, <1>4, <2>1
    <2>2. CASE ~(k < i)
      <3>1. k - (i - 1) \in 1 .. n - i /\ (k - (i - 1)) + i = k + 1
        BY <1>1, <2>2
      <3>2. b[k - (i - 1)] = s[k + 1]
        BY <1>3, <3>1
      <3>3. QED
        BY <1>4, <2>2, <3>2
    <2>3. QED
      BY <2>1, <2>2
  <1>6. RemoveAt(s, i) = a \o b
    BY <1>1 DEF RemoveAt, a, b
  <1>7. QED
    BY <1>1, <1>4, <1>5, <1>6

(* What a place is.                                                         *)
LEMMA PlaceIs ==
    ASSUME NEW J, NEW q \in [Lanes -> Seq(J)]
    PROVE  /\ \A l \in Lanes : \A i : <<l, i>> \in Places(q) <=> i \in 1 .. Len(q[l])
           /\ \A p \in Places(q) : \E l \in Lanes : \E i \in 1 .. Len(q[l]) : p = <<l, i>>
  <1>1. \A l \in Lanes : DOMAIN q[l] = 1 .. Len(q[l])
    OBVIOUS
  <1>2. QED
    BY <1>1 DEF Places

(* Places are taken and left at the end of a lane, whoever leaves it.       *)
LEMMA PlacesMove ==
    ASSUME NEW J, NEW q \in [Lanes -> Seq(J)], NEW r \in [Lanes -> Seq(J)],
           NEW l \in Lanes, Len(r[l]) = Len(q[l]) + 1,
           \A m \in Lanes : m # l => r[m] = q[m]
    PROVE  /\ Places(r) = Places(q) \cup {<<l, Len(r[l])>>}
           /\ <<l, Len(r[l])>> \notin Places(q)
  <1>1. PICK n \in Nat : n = Len(q[l]) /\ n + 1 = Len(r[l])
    OBVIOUS
  <1>2. \A m \in Lanes : \A i : i \in 1 .. Len(r[m])
            <=> i \in 1 .. Len(q[m]) \/ (m = l /\ i = n + 1)
    <2> TAKE m \in Lanes
    <2>1. CASE m = l
      <3>1. \A i : i \in 1 .. n + 1 <=> i \in 1 .. n \/ i = n + 1
        OBVIOUS
      <3>2. QED
        BY <1>1, <2>1, <3>1
    <2>2. CASE m # l
      BY <2>2
    <2>3. QED
      BY <2>1, <2>2
  <1>3. \A p \in Places(r) : p \in Places(q) \cup {<<l, n + 1>>}
    <2> TAKE p \in Places(r)
    <2>1. PICK m \in Lanes : \E i \in 1 .. Len(r[m]) : p = <<m, i>>
      BY PlaceIs
    <2>0. PICK i \in 1 .. Len(r[m]) : p = <<m, i>>
      BY <2>1
    <2>2. i \in 1 .. Len(q[m]) \/ (m = l /\ i = n + 1)
      BY <1>2
    <2>3. i \in 1 .. Len(q[m]) => <<m, i>> \in Places(q)
      BY PlaceIs
    <2>4. QED
      BY <2>0, <2>2, <2>3
  <1>4. \A p \in Places(q) : p \in Places(r)
    <2> TAKE p \in Places(q)
    <2>1. PICK m \in Lanes : \E i \in 1 .. Len(q[m]) : p = <<m, i>>
      BY PlaceIs
    <2>0. PICK i \in 1 .. Len(q[m]) : p = <<m, i>>
      BY <2>1
    <2>2. i \in 1 .. Len(r[m])
      BY <1>2
    <2>3. <<m, i>> \in Places(r)
      BY <2>2, PlaceIs
    <2>4. QED
      BY <2>0, <2>3
  <1>5. <<l, n + 1>> \in Places(r) /\ <<l, n + 1>> \notin Places(q)
    <2>1. n + 1 \in 1 .. Len(r[l]) /\ n + 1 \notin 1 .. Len(q[l])
      BY <1>1
    <2>2. QED
      BY <2>1, PlaceIs
  <1>6. QED
    BY <1>1, <1>3, <1>4, <1>5

(* The jobs that fill the places.                                           *)
Filling(q, job) == {p \in Places(q) : q[p[1]][p[2]] = job}

FilledBy(q, job, F) ==
    /\ \A l \in Lanes : \A i \in 1 .. Len(q[l]) : <<l, i>> \in F <=> q[l][i] = job
    /\ \A p \in F : \E l \in Lanes : \E i \in 1 .. Len(q[l]) : p = <<l, i>> /\ q[l][i] = job

(* A place is among them exactly if it holds that job.                      *)
LEMMA FillingIs ==
    ASSUME NEW J, NEW q \in [Lanes -> Seq(J)], NEW job
    PROVE  FilledBy(q, job, Filling(q, job))
  <1>1. \A l \in Lanes : \A i \in 1 .. Len(q[l]) :
                 <<l, i>> \in Filling(q, job) <=> q[l][i] = job
    <2> TAKE l \in Lanes
    <2> TAKE i \in 1 .. Len(q[l])
    <2>1. <<l, i>> \in Places(q)
      BY PlaceIs
    <2>2. QED
      BY <2>1 DEF Filling
  <1>2. \A p \in Filling(q, job) : \E l \in Lanes : \E i \in 1 .. Len(q[l]) :
                 p = <<l, i>> /\ q[l][i] = job
    <2> TAKE p \in Filling(q, job)
    <2>1. p \in Places(q) /\ q[p[1]][p[2]] = job
      BY DEF Filling
    <2>2. PICK l \in Lanes : \E i \in 1 .. Len(q[l]) : p = <<l, i>>
      BY <2>1, PlaceIs
    <2>0. PICK i \in 1 .. Len(q[l]) : p = <<l, i>>
      BY <2>2
    <2>3. QED
      BY <2>1, <2>0
  <1>3. QED
    BY <1>1, <1>2 DEF FilledBy

(* queue.append(job): one more job at the end of its lane.                  *)
Appended(q, r, l, job) ==
    /\ Len(r[l]) = Len(q[l]) + 1 /\ r[l][Len(q[l]) + 1] = job
    /\ \A i \in 1 .. Len(q[l]) : r[l][i] = q[l][i]
    /\ \A m \in Lanes : m # l => r[m] = q[m]

(* There is one more of this job then, and no more of any other.            *)
OneMore(q, r, job, any) ==
    /\ IsFiniteSet(Places(r))
    /\ Cardinality(Places(q)) \in Nat
    /\ Cardinality(Places(r)) = Cardinality(Places(q)) + 1
    /\ Cardinality(Filling(q, any)) \in Nat
    /\ Cardinality(Filling(r, any))
         = Cardinality(Filling(q, any)) + (IF any = job THEN 1 ELSE 0)

(* Appending counts the job once.                                           *)
LEMMA AppendCounts ==
    ASSUME NEW J, NEW q \in [Lanes -> Seq(J)], NEW l \in Lanes, NEW job \in J,
           IsFiniteSet(Places(q)), NEW r \in [Lanes -> Seq(J)], Appended(q, r, l, job),
           NEW any
    PROVE  OneMore(q, r, job, any)
  <1>1. PICK n \in Nat : n = Len(q[l])
    OBVIOUS
  <1>2. /\ Len(r[l]) = n + 1 /\ r[l][n + 1] = job
        /\ \A i \in 1 .. n : r[l][i] = q[l][i]
        /\ \A m \in Lanes : m # l => r[m] = q[m]
    BY <1>1 DEF Appended
  <1>3. /\ Places(r) = Places(q) \cup {<<l, n + 1>>}
        /\ <<l, n + 1>> \notin Places(q)
    <2>1. Len(r[l]) = Len(q[l]) + 1 /\ Len(r[l]) = n + 1
      BY <1>1, <1>2
    <2>2. /\ Places(r) = Places(q) \cup {<<l, Len(r[l])>>}
          /\ <<l, Len(r[l])>> \notin Places(q)
      BY <1>2, <2>1, PlacesMove
    <2>3. QED
      BY <2>1, <2>2
  <1>4. /\ IsFiniteSet(Places(r))
        /\ Cardinality(Places(r)) = Cardinality(Places(q)) + 1
    <2> DEFINE P == Places(q)
               x == <<l, n + 1>>
    <2>1. x \notin P /\ IsFiniteSet(P) /\ Places(r) = P \cup {x}
      BY <1>3
    <2> HIDE DEF P, x
    <2>2. IsFiniteSet(P \cup {x}) /\ Cardinality(P \cup {x}) = Cardinality(P) + 1
      BY <2>1, FS_AddElement
    <2>3. QED
      BY <2>1, <2>2 DEF P
  <1>5. Cardinality(Places(q)) \in Nat
    BY FS_CardinalityType
  <1>6. Filling(q, any) \subseteq Places(q)
    BY DEF Filling
  <1>7. IsFiniteSet(Filling(q, any)) /\ Cardinality(Filling(q, any)) \in Nat
    BY <1>6, FS_Subset, FS_CardinalityType
  <1>8. \A p \in Places(q) : r[p[1]][p[2]] = q[p[1]][p[2]]
    <2> TAKE p \in Places(q)
    <2>1. PICK m \in Lanes : \E i \in 1 .. Len(q[m]) : p = <<m, i>>
      BY PlaceIs
    <2>0. PICK i \in 1 .. Len(q[m]) : p = <<m, i>>
      BY <2>1
    <2>2. r[m][i] = q[m][i]
      BY <1>1, <1>2
    <2>3. QED
      BY <2>0, <2>2
  <1> DEFINE new == <<l, n + 1>>
  <1>9. r[new[1]][new[2]] = job
    BY <1>2
  <1>10. Places(r) = Places(q) \cup {new} /\ new \notin Places(q)
    BY <1>3
  <1> HIDE DEF new
  <1>11. any = job => Filling(r, any) = Filling(q, any) \cup {new}
    BY <1>8, <1>9, <1>10 DEF Filling
  <1>12. any # job => Filling(r, any) = Filling(q, any)
    BY <1>8, <1>9, <1>10 DEF Filling
  <1>13. any = job => Cardinality(Filling(r, any)) = Cardinality(Filling(q, any)) + 1
    <2>1. new \notin Filling(q, any) /\ IsFiniteSet(Filling(q, any))
      BY <1>6, <1>7, <1>10
    <2>2. Cardinality(Filling(q, any) \cup {new}) = Cardinality(Filling(q, any)) + 1
      BY <2>1, FS_AddElement
    <2>3. QED
      BY <1>11, <2>2
  <1>14. QED
    BY <1>4, <1>5, <1>7, <1>12, <1>13 DEF OneMore

(* del queue[index] again: one job less in its lane, the others move up.    *)
Removed(q, r, l, n) ==
    /\ Len(q[l]) = Len(r[l]) + 1
    /\ \A k \in 1 .. Len(r[l]) : r[l][k] = IF k < n THEN q[l][k] ELSE q[l][k + 1]
    /\ \A m \in Lanes : m # l => r[m] = q[m]

(* Deleting an element of one lane does that.                               *)
LEMMA RemoveShifts ==
    ASSUME NEW J, NEW q \in [Lanes -> Seq(J)], NEW l \in Lanes, NEW n \in 1 .. Len(q[l]),
           NEW r, r = [q EXCEPT ![l] = RemoveAt(@, n)]
    PROVE  r \in [Lanes -> Seq(J)] /\ Removed(q, r, l, n)
  <1> DEFINE s == RemoveAt(q[l], n)
  <1>1. q[l] \in Seq(J)
    OBVIOUS
  <1>2. /\ s \in Seq(J) /\ Len(s) = Len(q[l]) - 1
        /\ \A k \in 1 .. Len(q[l]) - 1 : s[k] = IF k < n THEN q[l][k] ELSE q[l][k + 1]
    BY <1>1, RemovedIs
  <1> HIDE DEF s
  <1>3. r = [q EXCEPT ![l] = s]
    BY DEF s
  <1>4. r \in [Lanes -> Seq(J)] /\ r[l] = s /\ \A m \in Lanes : m # l => r[m] = q[m]
    BY <1>2, <1>3
  <1>5. Len(q[l]) = Len(s) + 1
    BY <1>1, <1>2
  <1>6. QED
    BY <1>2, <1>4, <1>5 DEF Removed

(* And one less of the job that left.                                       *)
OneLess(q, r, job, any) ==
    /\ IsFiniteSet(Places(r))
    /\ Cardinality(Places(q)) \in Nat
    /\ Cardinality(Places(r)) = Cardinality(Places(q)) - 1
    /\ Cardinality(Filling(q, any)) \in Nat
    /\ any = job => Cardinality(Filling(q, any)) > 0
    /\ Cardinality(Filling(r, any))
         = Cardinality(Filling(q, any)) - (IF any = job THEN 1 ELSE 0)

(* Removing takes one off the count: the places before it stay, those after *)
(* it move up by one.                                                       *)
LEMMA RemoveCounts ==
    ASSUME NEW J, NEW q \in [Lanes -> Seq(J)], NEW l \in Lanes, NEW n \in 1 .. Len(q[l]),
           IsFiniteSet(Places(q)), NEW r \in [Lanes -> Seq(J)], Removed(q, r, l, n),
           NEW any
    PROVE  OneLess(q, r, q[l][n], any)
  <1>1. /\ r \in [Lanes -> Seq(J)]
        /\ Len(q[l]) = Len(r[l]) + 1
        /\ \A k \in 1 .. Len(r[l]) : r[l][k] = IF k < n THEN q[l][k] ELSE q[l][k + 1]
        /\ \A m \in Lanes : m # l => r[m] = q[m]
    BY DEF Removed
  <1>2. PICK z \in Nat : z = Len(r[l]) /\ z + 1 = Len(q[l])
    BY <1>1
  <1>3. \A m \in Lanes : m # l => q[m] = r[m]
    BY <1>1
  <1>4. /\ Places(q) = Places(r) \cup {<<l, Len(q[l])>>}
        /\ <<l, Len(q[l])>> \notin Places(r)
    BY <1>1, <1>3, PlacesMove
  <1> DEFINE last == <<l, Len(q[l])>>
             gone == <<l, n>>
             F == Filling(q, any)
             G == Filling(r, any)
  <1>5. Places(r) = Places(q) \ {last} /\ last \in Places(q)
    BY <1>4
  <1>6. /\ IsFiniteSet(Places(r))
        /\ Cardinality(Places(r)) = Cardinality(Places(q)) - 1
    BY <1>5, FS_RemoveElement
  <1>7. Cardinality(Places(q)) \in Nat
    BY FS_CardinalityType
  <1>8. F \subseteq Places(q) /\ G \subseteq Places(r)
    BY DEF Filling
  <1>9. IsFiniteSet(F) /\ Cardinality(F) \in Nat /\ IsFiniteSet(G)
    BY <1>6, <1>8, FS_Subset, FS_CardinalityType
  <1>a. FilledBy(q, any, F) /\ FilledBy(r, any, G)
    BY FillingIs
  <1> HIDE DEF F, G
  <1>10. /\ \A m \in Lanes : \A i \in 1 .. Len(q[m]) : <<m, i>> \in F <=> q[m][i] = any
         /\ \A p \in F : \E m \in Lanes : \E i \in 1 .. Len(q[m]) : p = <<m, i>> /\ q[m][i] = any
    BY <1>a DEF FilledBy
  <1>11. /\ \A m \in Lanes : \A i \in 1 .. Len(r[m]) : <<m, i>> \in G <=> r[m][i] = any
         /\ \A p \in G : \E m \in Lanes : \E i \in 1 .. Len(r[m]) : p = <<m, i>> /\ r[m][i] = any
    BY <1>a DEF FilledBy
  <1>12. gone \in F <=> q[l][n] = any
    BY <1>10
  <1>13. /\ Cardinality(F \ {gone}) = Cardinality(F) - (IF q[l][n] = any THEN 1 ELSE 0)
         /\ q[l][n] = any => Cardinality(F) > 0
    <2>1. /\ IsFiniteSet(F \ {gone})
          /\ Cardinality(F \ {gone}) = IF gone \in F THEN Cardinality(F) - 1 ELSE Cardinality(F)
      BY <1>9, FS_RemoveElement
    <2>2. Cardinality(F \ {gone}) \in Nat
      BY <2>1, FS_CardinalityType
    <2>3. QED
      BY <1>9, <1>12, <2>1, <2>2
  <1> DEFINE up(m, i) == IF m = l /\ i >= n THEN i + 1 ELSE i
             move == [p \in G |-> <<p[1], up(p[1], p[2])>>]
  <1> HIDE DEF gone, last
  <1>14. ASSUME NEW m \in Lanes, NEW i \in 1 .. Len(r[m]), r[m][i] = any
         PROVE  /\ up(m, i) \in 1 .. Len(q[m])
                /\ q[m][up(m, i)] = any
                /\ <<m, up(m, i)>> \in F \ {gone}
    <2>1. CASE m = l
      <3>1. i \in 1 .. z
        BY <1>2, <2>1
      <3>2. up(m, i) \in 1 .. Len(q[m]) /\ up(m, i) # n
        BY <1>2, <2>1, <3>1
      <3>3. q[m][up(m, i)] = any
        BY <1>1, <1>14, <2>1
      <3>4. QED
        BY <1>10, <3>2, <3>3 DEF gone
    <2>2. CASE m # l
      <3>1. up(m, i) = i /\ q[m] = r[m]
        BY <1>3, <2>2
      <3>2. <<m, i>> \in F
        BY <1>10, <1>14, <3>1
      <3>3. QED
        BY <1>14, <2>2, <3>1, <3>2 DEF gone
    <2>3. QED
      BY <2>1, <2>2
  <1>15. move \in [G -> F \ {gone}]
    <2>1. ASSUME NEW p \in G PROVE <<p[1], up(p[1], p[2])>> \in F \ {gone}
      <3>1. PICK m \in Lanes : \E i \in 1 .. Len(r[m]) : p = <<m, i>> /\ r[m][i] = any
        BY <1>11, <2>1
      <3>2. PICK i \in 1 .. Len(r[m]) : p = <<m, i>> /\ r[m][i] = any
        BY <3>1
      <3> HIDE DEF up
      <3>3. <<m, up(m, i)>> \in F \ {gone}
        BY <1>14, <3>2
      <3>4. p[1] = m /\ p[2] = i
        BY <3>2
      <3>5. QED
        BY <3>3, <3>4
    <2> HIDE DEF up
    <2>2. QED
      BY <2>1
  <1>16. ASSUME NEW p1 \in G, NEW p2 \in G, move[p1] = move[p2]
         PROVE  p1 = p2
    <2>1. PICK m1 \in Lanes : \E i \in 1 .. Len(r[m1]) : p1 = <<m1, i>> /\ r[m1][i] = any
      BY <1>11, <1>16
    <2>2. PICK i1 \in 1 .. Len(r[m1]) : p1 = <<m1, i1>>
      BY <2>1
    <2>3. PICK m2 \in Lanes : \E i \in 1 .. Len(r[m2]) : p2 = <<m2, i>> /\ r[m2][i] = any
      BY <1>11, <1>16
    <2>4. PICK i2 \in 1 .. Len(r[m2]) : p2 = <<m2, i2>>
      BY <2>3
    <2>5. m1 = m2 /\ up(m1, i1) = up(m2, i2)
      <3>1. move[p1] = <<p1[1], up(p1[1], p1[2])>> /\ move[p2] = <<p2[1], up(p2[1], p2[2])>>
        BY <1>16
      <3>2. p1[1] = m1 /\ p1[2] = i1 /\ p2[1] = m2 /\ p2[2] = i2
        BY <2>2, <2>4
      <3> HIDE DEF up, move
      <3>3. <<m1, up(m1, i1)>> = <<m2, up(m2, i2)>>
        BY <1>16, <3>1, <3>2
      <3>4. QED
        BY <3>3
    <2>6. i1 \in Nat /\ i2 \in Nat
      BY <1>1
    <2>7. i1 = i2
      BY <2>5, <2>6
    <2>8. QED
      BY <2>2, <2>4, <2>5, <2>7
  <1>17. ASSUME NEW p \in F \ {gone}
         PROVE  \E x \in G : move[x] = p
    <2>1. PICK m \in Lanes : \E i \in 1 .. Len(q[m]) : p = <<m, i>> /\ q[m][i] = any
      BY <1>10, <1>17
    <2>2. PICK i \in 1 .. Len(q[m]) : p = <<m, i>> /\ q[m][i] = any
      BY <2>1
    <2>3. m = l => i # n
      BY <1>17, <2>2 DEF gone
    <2> DEFINE down == IF m = l /\ i > n THEN i - 1 ELSE i
    <2>4. /\ down \in 1 .. Len(r[m]) /\ r[m][down] = any /\ up(m, down) = i
      <3>1. CASE m = l
        <4>1. i \in 1 .. z + 1 /\ i # n
          BY <1>2, <2>3, <3>1
        <4>2. down \in 1 .. z /\ up(m, down) = i /\ (IF down < n THEN down ELSE down + 1) = i
          BY <1>2, <3>1, <4>1
        <4>3. r[l][down] = IF down < n THEN q[l][down] ELSE q[l][down + 1]
          BY <1>1, <1>2, <4>2
        <4>4. r[l][down] = q[l][i]
          BY <4>2, <4>3
        <4>5. QED
          BY <1>2, <2>2, <3>1, <4>2, <4>4
      <3>2. CASE m # l
        BY <1>3, <2>2, <3>2
      <3>3. QED
        BY <3>1, <3>2
    <2> HIDE DEF down, up
    <2>5. <<m, down>> \in G
      BY <1>11, <2>4
    <2>6. move[<<m, down>>] = <<m, up(m, down)>>
      BY <2>5
    <2>7. QED
      BY <2>2, <2>4, <2>5, <2>6
  <1> HIDE DEF move, up
  <1>18. ExistsBijection(G, F \ {gone})
    <2>1. move \in Bijection(G, F \ {gone})
      BY <1>15, <1>16, <1>17, Fun_IsBij, Zenon
    <2>2. QED
      BY <2>1 DEF ExistsBijection
  <1>19. Cardinality(F \ {gone}) = Cardinality(G)
    BY <1>9, <1>18, FS_Bijection
  <1>20. QED
    BY <1>6, <1>7, <1>9, <1>13, <1>19 DEF F, G, OneLess

(* No places in empty lanes.                                                *)
LEMMA NoPlaces == Places(NoJobs) = {}
  BY DEF Places, NoJobs

(* Who waits in a lane belongs there.                                       *)
InOwnLane(policy, q) ==
    \A l \in Lanes : \A i \in 1 .. Len(q[l]) :
        /\ Lane(policy, q[l][i]) = l
        /\ policy \in PerTenant => l \in Tenants

(* A job that is put into its own lane keeps it so.                         *)
LEMMA AppendKeepsLanes ==
    ASSUME NEW J, NEW q \in [Lanes -> Seq(J)], NEW h \in Lanes, NEW job \in J,
           NEW r \in [Lanes -> Seq(J)], Appended(q, r, h, job),
           NEW policy, InOwnLane(policy, q), Lane(policy, job) = h,
           policy \in PerTenant => h \in Tenants
    PROVE  InOwnLane(policy, r)
  <1> SUFFICES ASSUME NEW l \in Lanes, NEW i \in 1 .. Len(r[l])
               PROVE  /\ Lane(policy, r[l][i]) = l
                      /\ policy \in PerTenant => l \in Tenants
    BY DEF InOwnLane
  <1>1. PICK n \in Nat : n = Len(q[h])
    OBVIOUS
  <1>2. /\ Len(r[h]) = n + 1 /\ r[h][n + 1] = job
        /\ \A k \in 1 .. n : r[h][k] = q[h][k]
        /\ \A m \in Lanes : m # h => r[m] = q[m]
    BY <1>1 DEF Appended
  <1>3. CASE l = h
    <2>1. i \in 1 .. n + 1
      BY <1>2, <1>3
    <2>2. i = n + 1 => r[l][i] = job
      BY <1>2, <1>3
    <2>3. i # n + 1 => i \in 1 .. Len(q[h]) /\ r[l][i] = q[h][i]
      BY <1>1, <1>2, <1>3, <2>1
    <2>4. i # n + 1 => Lane(policy, r[l][i]) = l
      BY <1>3, <2>3 DEF InOwnLane
    <2>5. QED
      BY <1>3, <2>2, <2>4
  <1>4. CASE l # h
    <2>1. r[l] = q[l]
      BY <1>2, <1>4
    <2>2. QED
      BY <2>1 DEF InOwnLane
  <1>5. QED
    BY <1>3, <1>4

(* So does one that leaves.                                                 *)
LEMMA RemoveKeepsLanes ==
    ASSUME NEW J, NEW q \in [Lanes -> Seq(J)], NEW h \in Lanes, NEW n \in 1 .. Len(q[h]),
           NEW r \in [Lanes -> Seq(J)], Removed(q, r, h, n),
           NEW policy, InOwnLane(policy, q)
    PROVE  InOwnLane(policy, r)
  <1> SUFFICES ASSUME NEW l \in Lanes, NEW i \in 1 .. Len(r[l])
               PROVE  /\ Lane(policy, r[l][i]) = l
                      /\ policy \in PerTenant => l \in Tenants
    BY DEF InOwnLane
  <1>1. PICK z \in Nat : z = Len(r[h])
    OBVIOUS
  <1>2. /\ Len(q[h]) = z + 1
        /\ \A k \in 1 .. z : r[h][k] = IF k < n THEN q[h][k] ELSE q[h][k + 1]
        /\ \A m \in Lanes : m # h => r[m] = q[m]
    BY <1>1 DEF Removed
  <1>3. CASE l = h
    <2>1. i \in 1 .. z
      BY <1>1, <1>3
    <2>2. PICK k \in 1 .. z + 1 : r[h][i] = q[h][k]
      <3>1. CASE i < n
        <4>1. i \in 1 .. z + 1 /\ r[h][i] = q[h][i]
          BY <1>2, <2>1, <3>1
        <4>2. QED
          BY <4>1
      <3>2. CASE ~(i < n)
        <4>1. i + 1 \in 1 .. z + 1 /\ r[h][i] = q[h][i + 1]
          BY <1>2, <2>1, <3>2
        <4>2. QED
          BY <4>1
      <3>3. QED
        BY <3>1, <3>2
    <2>3. k \in 1 .. Len(q[h])
      BY <1>2
    <2>4. Lane(policy, q[h][k]) = h /\ (policy \in PerTenant => h \in Tenants)
      BY <2>3 DEF InOwnLane
    <2>5. QED
      BY <1>3, <2>2, <2>4
  <1>4. CASE l # h
    <2>1. r[l] = q[l]
      BY <1>2, <1>4
    <2>2. QED
      BY <2>1 DEF InOwnLane
  <1>5. QED
    BY <1>3, <1>4

(***************************************************************************)
(* The next job of a scheduler.                                            *)
(***************************************************************************)

(* The cycle of a scheduler with tenants, and the lap of one slot.          *)
LEMMA LapOfPolicy ==
    ASSUME NEW policy, NEW weights \in Weights, NEW c, c = CycleOf(policy, weights)
    PROVE  /\ c \in Seq(Lanes)
           /\ Len(c) \in Nat \ {0}
           /\ policy \in PerTenant => c = BuildWeightCycle(weights) /\ c \in Seq(Tenants)
           /\ policy \notin PerTenant => c = <<Everybody>>
  <1>1. CASE policy \in PerTenant
    <2>1. c = BuildWeightCycle(weights)
      BY <1>1 DEF CycleOf
    <2>2. c \in Seq(Tenants) /\ Len(c) \in Nat \ {0}
      BY <2>1, CycleFacts
    <2>3. c \in Seq(Lanes)
      BY <2>2 DEF Lanes
    <2>4. QED
      BY <1>1, <2>1, <2>2, <2>3
  <1>2. CASE policy \notin PerTenant
    <2>1. c = <<Everybody>> /\ Everybody \in Lanes
      BY <1>2 DEF CycleOf, Lanes
    <2>2. QED
      BY <1>2, <2>1
  <1>3. QED
    BY <1>1, <1>2

(* A scheduler of this policy in working order: its lap, its pointer and    *)
(* its lanes.                                                               *)
InOrder(policy, weights, J, c, pos, q) ==
    /\ weights \in Weights
    /\ c = CycleOf(policy, weights)
    /\ pos \in 0 .. Len(c) - 1
    /\ q \in [Lanes -> Seq(J)]
    /\ InOwnLane(policy, q)
    /\ \A job \in J : Comparable(job)

(* A scheduler that is not empty has a job in some lane.                    *)
LEMMA SomeLane ==
    ASSUME NEW J, NEW q \in [Lanes -> Seq(J)], SizeOf(q) > 0
    PROVE  \E l \in Lanes : Len(q[l]) > 0
  <1>1. Places(q) # {}
    BY FS_EmptySet DEF SizeOf
  <1>2. PICK p \in Places(q) : TRUE
    BY <1>1
  <1>3. PICK l \in Lanes : \E i \in 1 .. Len(q[l]) : p = <<l, i>>
    BY PlaceIs
  <1>4. PICK i \in 1 .. Len(q[l]) : TRUE
    BY <1>3
  <1>5. Len(q[l]) \in Nat
    OBVIOUS
  <1>6. QED
    BY <1>4, <1>5

(* The pointer finds a job whenever there is one.                           *)
LEMMA SlotFound ==
    ASSUME NEW policy, NEW weights, NEW J, NEW c, NEW pos, NEW q,
           InOrder(policy, weights, J, c, pos, q), SizeOf(q) > 0
    PROVE  \E k \in 0 .. Len(c) - 1 : q[SlotAt(c, pos + k)] # <<>>
  <1>1. /\ weights \in Weights /\ c = CycleOf(policy, weights)
        /\ pos \in 0 .. Len(c) - 1 /\ q \in [Lanes -> Seq(J)]
    BY DEF InOrder
  <1>2. PICK l \in Lanes : Len(q[l]) > 0
    BY <1>1, SomeLane
  <1>3. 1 \in 1 .. Len(q[l]) /\ q[l] # <<>>
    BY <1>1, <1>2
  <1>4. Lane(policy, q[l][1]) = l /\ (policy \in PerTenant => l \in Tenants)
    BY <1>3 DEF InOrder, InOwnLane
  <1>5. CASE policy \in PerTenant
    <2>1. c = BuildWeightCycle(weights) /\ l \in Tenants
      BY <1>1, <1>4, <1>5, LapOfPolicy
    <2>2. QED
      BY <1>1, <1>3, <2>1, SomebodyFound
  <1>6. CASE policy \notin PerTenant
    <2>1. c = <<Everybody>> /\ l = Everybody
      BY <1>1, <1>4, <1>6, LapOfPolicy DEF Lane
    <2>2. Len(c) = 1 /\ pos = 0 /\ c[1] = Everybody
      BY <1>1, <2>1
    <2>3. SlotAt(c, 0) = c[0 + 1]
      BY <1>1, <2>2, LapOfPolicy, SlotIs
    <2>4. q[SlotAt(c, pos + 0)] # <<>>
      BY <1>3, <2>1, <2>2, <2>3
    <2>5. 0 \in 0 .. Len(c) - 1
      BY <2>2
    <2>6. QED
      BY <2>4, <2>5
  <1>7. QED
    BY <1>5, <1>6

(* The walks of peek and of dequeue agree on any scheduler that is not      *)
(* empty.                                                                   *)
LEMMA WalksAgree ==
    ASSUME NEW policy, NEW weights, NEW J, NEW c, NEW pos, NEW q,
           InOrder(policy, weights, J, c, pos, q), SizeOf(q) > 0
    PROVE  PeekTenant(c, pos, q) = NextTenant(c, pos, q)
  <1>1. /\ weights \in Weights /\ c = CycleOf(policy, weights)
        /\ pos \in 0 .. Len(c) - 1
    BY DEF InOrder
  <1>2. c \in Seq(Lanes) /\ Len(c) \in Nat \ {0}
    BY <1>1, LapOfPolicy
  <1>3. \E k \in 0 .. Len(c) - 1 : q[SlotAt(c, pos + k)] # <<>>
    BY SlotFound
  <1>4. QED
    BY <1>1, <1>2, <1>3, PeekWalkIs

(* Job n of lane l is the one this policy runs next.                        *)
RunsNext(policy, J, q, l, n) ==
    /\ l \in Lanes
    /\ policy \in PerTenant => l \in Tenants
    /\ n \in 1 .. Len(q[l])
    /\ q[l][n] \in J
    /\ Lane(policy, q[l][n]) = l
    /\ policy \in {"priority", "composed"} =>
          \A i \in 1 .. Len(q[l]) : ~Better(q[l][i], q[l][n])
    /\ policy \notin {"priority", "composed"} => n = 1

(* What dequeue takes, and where the pointer goes.                          *)
LEMMA NextJobIs ==
    ASSUME NEW policy, NEW weights, NEW J, NEW c, NEW pos, NEW q,
           InOrder(policy, weights, J, c, pos, q), SizeOf(q) > 0,
           NEW l, l = NextTenant(c, pos, q)
    PROVE  /\ RunsNext(policy, J, q, l, JobIndex(policy, q[l]))
           /\ Advance(c, pos, q) \in 0 .. Len(c) - 1
  <1>1. /\ weights \in Weights /\ c = CycleOf(policy, weights)
        /\ pos \in 0 .. Len(c) - 1 /\ q \in [Lanes -> Seq(J)]
        /\ \A job \in J : Comparable(job)
    BY DEF InOrder
  <1>2. \E k \in 0 .. Len(c) - 1 : q[SlotAt(c, pos + k)] # <<>>
    BY SlotFound
  <1>3. c \in Seq(Lanes) /\ Len(c) \in Nat \ {0}
    BY <1>1, LapOfPolicy
  <1>4. l \in Lanes /\ q[l] # <<>> /\ Advance(c, pos, q) \in 0 .. Len(c) - 1
    BY <1>1, <1>2, <1>3, WalkIs
  <1>5. q[l] \in Seq(J) /\ Len(q[l]) > 0
    BY <1>1, <1>4
  <1> DEFINE jobs == q[l]
             n == JobIndex(policy, q[l])
  <1> HIDE DEF jobs
  <1>7. jobs = q[l]
    BY DEF jobs
  <1>8. /\ BestJobIndex(jobs) \in 1 .. Len(jobs)
        /\ \A i \in 1 .. Len(jobs) : ~Better(jobs[i], jobs[BestJobIndex(jobs)])
    BY <1>1, <1>5, <1>7, BestJobFound
  <1>9. n = IF policy \in {"priority", "composed"} THEN BestJobIndex(jobs) ELSE 1
    BY <1>7 DEF JobIndex
  <1> HIDE DEF n
  <1>10. /\ n \in 1 .. Len(jobs)
         /\ policy \in {"priority", "composed"} =>
               \A i \in 1 .. Len(jobs) : ~Better(jobs[i], jobs[n])
         /\ policy \notin {"priority", "composed"} => n = 1
    BY <1>5, <1>7, <1>8, <1>9
  <1>11. jobs[n] \in J
    BY <1>5, <1>7, <1>10
  <1>12. Lane(policy, jobs[n]) = l /\ (policy \in PerTenant => l \in Tenants)
    BY <1>4, <1>7, <1>10 DEF InOrder, InOwnLane
  <1>13. RunsNext(policy, J, q, l, n)
    BY <1>4, <1>7, <1>10, <1>11, <1>12 DEF RunsNext
  <1>14. QED
    BY <1>4, <1>13 DEF n
=============================================================================
