--------------------------- MODULE NumberTheorems ---------------------------
(***************************************************************************)
(* Facts about sets of numbers and about sums that several proofs use.     *)
(* The library's induction theorems take an operator as a parameter and    *)
(* cannot be instantiated by the provers; an induction here is an argument *)
(* about the least counterexample.                                         *)
(***************************************************************************)
EXTENDS Integers, FiniteSetsExt, FiniteSetTheorems, WellFoundedInduction, TLAPS

(* A set of numbers has a least one: every induction here rests on it.      *)
LEMMA LeastNat ==
    ASSUME NEW S, S \subseteq Nat, S # {}
    PROVE  \E n \in S : \A m \in S : n <= m
  <1> DEFINE R == OpToRel(<, Nat)
  <1>1. IsWellFoundedOn(R, Nat)
    BY NatLessThanWellFounded
  <1>2. \A m, n \in Nat : m < n => <<m, n>> \in R
    BY DEF OpToRel
  <1> HIDE DEF R
  <1>3. \E x \in S : \A y \in S : ~ (<<y, x>> \in R)
    BY <1>1, WFMin
  <1>4. PICK x \in S : \A y \in S : ~ (<<y, x>> \in R)
    BY <1>3
  <1>5. \A y \in S : x <= y
    <2> TAKE y \in S
    <2>1. x \in Nat /\ y \in Nat
      OBVIOUS
    <2>2. ~(y < x)
      BY <1>2, <1>4, <2>1, Zenon
    <2>3. QED
      BY <2>1, <2>2
  <1>6. QED
    BY <1>5

(* What Min and Max are.                                                    *)
LEMMA MinIs ==
    ASSUME NEW S, S \subseteq Nat, S # {}
    PROVE  Min(S) \in S /\ \A m \in S : Min(S) <= m
  <1>1. \E n \in S : \A m \in S : n =< m
    BY LeastNat
  <1>2. QED
    BY <1>1, Zenon DEF Min

(* The greatest element of a bounded set of numbers.                        *)
LEMMA MaxIs ==
    ASSUME NEW S, NEW n \in Nat, S \subseteq 0 .. n, S # {}
    PROVE  Max(S) \in S /\ \A m \in S : Max(S) >= m
  <1> DEFINE T == {n - m : m \in S}
  <1>1. T \subseteq Nat /\ T # {}
    <2>1. \A m \in S : n - m \in Nat
      OBVIOUS
    <2>2. T \subseteq Nat
      BY <2>1
    <2>3. QED
      BY <2>2
  <1>2. PICK k \in T : \A m \in T : k <= m
    BY <1>1, LeastNat
  <1>3. PICK x \in S : k = n - x
    BY <1>2
  <1>4. \A m \in S : x >= m
    <2> TAKE m \in S
    <2>1. n - m \in T
      OBVIOUS
    <2>2. k <= n - m
      BY <1>2, <2>1
    <2>3. QED
      BY <1>3, <2>2
  <1>5. \E y \in S : \A m \in S : y >= m
    BY <1>4
  <1>6. QED
    BY <1>5, Zenon DEF Max

(***************************************************************************)
(* Sums over finite sets.                                                  *)
(***************************************************************************)
SumOver(f, S) == MapThenSumSet(LAMBDA x : f[x], S)

AnyOf(s) == CHOOSE x \in s : TRUE

(* g sums f over every subset of S, one element after the other.            *)
Sums(g, f, S) ==
    g = [s \in SUBSET S |-> IF s = {} THEN 0 ELSE f[AnyOf(s)] + g[s \ {AnyOf(s)}]]

(* Among finite sets one is smallest.                                       *)
LEMMA SmallestSet ==
    ASSUME NEW B, B # {}, \A s \in B : IsFiniteSet(s)
    PROVE  \E s \in B : \A r \in B : Cardinality(s) <= Cardinality(r)
  <1> DEFINE N == {Cardinality(s) : s \in B}
  <1>1. N \subseteq Nat /\ N # {}
    BY FS_CardinalityType
  <1>2. PICK n \in N : \A m \in N : n <= m
    BY <1>1, LeastNat
  <1>3. QED
    BY <1>2

(* Taking an element away makes a finite set smaller.                       *)
LEMMA OneFewer ==
    ASSUME NEW s, IsFiniteSet(s), NEW x \in s
    PROVE  /\ IsFiniteSet(s \ {x})
           /\ Cardinality(s) \in Nat
           /\ Cardinality(s \ {x}) \in Nat
           /\ Cardinality(s \ {x}) = Cardinality(s) - 1
  <1>1. IsFiniteSet(s \ {x}) /\ Cardinality(s \ {x}) = Cardinality(s) - 1
    BY FS_RemoveElement
  <1>2. QED
    BY <1>1, FS_CardinalityType

(* The sums exist.                                                          *)
LEMMA SumsExist ==
    ASSUME NEW f, NEW S, IsFiniteSet(S)
    PROVE  \E g : Sums(g, f, S)
  <1> DEFINE Right(g, s) == g[s] = IF s = {} THEN 0 ELSE f[AnyOf(s)] + g[s \ {AnyOf(s)}]
             UpToSize(g, n) == \A s \in SUBSET S : Cardinality(s) <= n => Right(g, s)
             Bad == {n \in Nat : ~ \E g : UpToSize(g, n)}
  <1>1. \A s \in SUBSET S : IsFiniteSet(s) /\ Cardinality(s) \in 0 .. Cardinality(S)
    <2> TAKE s \in SUBSET S
    <2>1. IsFiniteSet(s) /\ Cardinality(s) <= Cardinality(S)
      BY FS_Subset
    <2>2. Cardinality(s) \in Nat /\ Cardinality(S) \in Nat
      BY <2>1, FS_CardinalityType
    <2>3. QED
      BY <2>1, <2>2
  <1>2. Cardinality(S) \in Nat
    BY FS_CardinalityType
  <1>3. ASSUME NEW n \in Nat, NEW g, UpToSize(g, n) PROVE \E h : UpToSize(h, n + 1)
    <2> DEFINE h == [s \in SUBSET S |->
                        IF s = {} THEN 0 ELSE f[AnyOf(s)] + g[s \ {AnyOf(s)}]]
    <2>1. ASSUME NEW s \in SUBSET S, Cardinality(s) <= n PROVE h[s] = g[s]
      BY <1>3, <2>1
    <2>2. ASSUME NEW s \in SUBSET S, Cardinality(s) <= n + 1 PROVE Right(h, s)
      <3>1. CASE s = {}
        BY <3>1
      <3>2. CASE s # {}
        <4>1. PICK x \in s : x = AnyOf(s)
          BY <3>2, Zenon DEF AnyOf
        <4>2. Cardinality(s \ {x}) <= n
          <5>1. Cardinality(s) \in Nat /\ Cardinality(s \ {x}) = Cardinality(s) - 1
            BY <1>1, OneFewer
          <5>2. QED
            BY <2>2, <5>1
        <4>3. h[s \ {x}] = g[s \ {x}]
          BY <2>1, <4>2
        <4>4. h[s] = f[x] + g[s \ {x}]
          BY <3>2, <4>1
        <4>5. QED
          BY <3>2, <4>1, <4>3, <4>4
      <3>3. QED
        BY <3>1, <3>2
    <2> HIDE DEF h, Right
    <2>3. UpToSize(h, n + 1)
      BY <2>2
    <2>4. QED
      BY <2>3
  <1>4. \E g : UpToSize(g, 0)
    <2> DEFINE h == [s \in SUBSET S |-> 0]
    <2>1. ASSUME NEW s \in SUBSET S, Cardinality(s) <= 0 PROVE Right(h, s)
      <3>1. Cardinality(s) = 0
        BY <1>1, <2>1
      <3>2. s = {}
        BY <1>1, <3>1, FS_EmptySet
      <3>3. QED
        BY <3>2
    <2> HIDE DEF h, Right
    <2>2. QED
      BY <2>1
  <1> HIDE DEF UpToSize
  <1>5. Bad = {}
    <2> SUFFICES ASSUME Bad # {} PROVE FALSE
      OBVIOUS
    <2>1. PICK n \in Bad : \A m \in Bad : n <= m
      BY LeastNat
    <2>2. n \in Nat /\ n # 0
      BY <1>4
    <2>3. n - 1 \in Nat /\ n - 1 < n /\ (n - 1) + 1 = n
      BY <2>2
    <2>4. PICK g : UpToSize(g, n - 1)
      BY <2>1, <2>3
    <2>5. QED
      BY <1>3, <2>1, <2>3, <2>4
  <1>6. PICK g : UpToSize(g, Cardinality(S))
    BY <1>2, <1>5
  <1>7. \A s \in SUBSET S : Right(g, s)
    <2> HIDE DEF Right
    <2> TAKE s \in SUBSET S
    <2>1. Cardinality(s) <= Cardinality(S)
      BY <1>1, <1>2
    <2>2. QED
      BY <1>6, <2>1 DEF UpToSize
  <1> DEFINE h == [s \in SUBSET S |-> g[s]]
  <1>8. ASSUME NEW s \in SUBSET S PROVE Right(h, s)
    <2>1. s \ {AnyOf(s)} \in SUBSET S
      OBVIOUS
    <2>2. QED
      BY <1>7, <2>1
  <1>9. Sums(h, f, S)
    BY <1>8 DEF Sums
  <1>10. QED
    BY <1>9

(* What such a g says of one set.                                           *)
SumStep(g, f, s) ==
    /\ s = {} => g[s] = 0
    /\ s # {} => AnyOf(s) \in s /\ g[s] = f[AnyOf(s)] + g[s \ {AnyOf(s)}]

(* It says so of every subset.                                              *)
LEMMA SumsAt ==
    ASSUME NEW f, NEW S, NEW g, Sums(g, f, S)
    PROVE  \A s \in SUBSET S : SumStep(g, f, s)
  <1> TAKE s \in SUBSET S
  <1>1. s # {} => AnyOf(s) \in s
    BY Zenon DEF AnyOf
  <1>2. g[s] = IF s = {} THEN 0 ELSE f[AnyOf(s)] + g[s \ {AnyOf(s)}]
    BY Zenon DEF Sums
  <1>3. QED
    BY <1>1, <1>2 DEF SumStep

(* SumOver is such a sum.                                                   *)
LEMMA SumOverIs ==
    ASSUME NEW f, NEW S, IsFiniteSet(S)
    PROVE  \E g : Sums(g, f, S) /\ SumOver(f, S) = g[S]
  <1> DEFINE g == CHOOSE g : Sums(g, f, S)
  <1>1. Sums(g, f, S)
    BY SumsExist, Zenon
  <1>2. SumOver(f, S) = g[S]
    BY DEF SumOver, MapThenSumSet, MapThenFoldSet, Sums, AnyOf
  <1>3. QED
    BY <1>1, <1>2

(* Functions that agree on a set have the same sum over it.                 *)
LEMMA SumsAgree ==
    ASSUME NEW f, NEW S, NEW g, Sums(g, f, S),
           NEW e, NEW T, NEW h, Sums(h, e, T),
           NEW u, IsFiniteSet(u), u \subseteq S, u \subseteq T, \A x \in u : f[x] = e[x]
    PROVE  g[u] = h[u]
  <1> DEFINE Bad == {s \in SUBSET u : g[s] # h[s]}
  <1> SUFFICES ASSUME Bad # {} PROVE FALSE
    OBVIOUS
  <1>1. \A s \in SUBSET u : IsFiniteSet(s)
    BY FS_Subset
  <1>2. PICK s \in Bad : \A r \in Bad : Cardinality(s) <= Cardinality(r)
    BY <1>1, SmallestSet
  <1>3. s \in SUBSET S /\ s \in SUBSET T /\ s \in SUBSET u /\ g[s] # h[s]
    OBVIOUS
  <1>a. SumStep(g, f, s) /\ SumStep(h, e, s)
    <2>1. \A r \in SUBSET S : SumStep(g, f, r)
      BY SumsAt
    <2>2. \A r \in SUBSET T : SumStep(h, e, r)
      BY SumsAt
    <2>3. QED
      BY <1>3, <2>1, <2>2
  <1>4. s # {}
    <2>1. s = {} => g[s] = 0 /\ h[s] = 0
      BY <1>a DEF SumStep
    <2>2. QED
      BY <1>3, <2>1
  <1>5. PICK x \in s : x = AnyOf(s)
    BY <1>4, Zenon DEF AnyOf
  <1>6. g[s] = f[x] + g[s \ {x}]
    BY <1>4, <1>5, <1>a DEF SumStep
  <1>7. h[s] = e[x] + h[s \ {x}]
    BY <1>4, <1>5, <1>a DEF SumStep
  <1>8. s \ {x} \notin Bad
    <2>1. Cardinality(s) \in Nat /\ Cardinality(s \ {x}) = Cardinality(s) - 1
      BY <1>1, <1>3, OneFewer
    <2>2. ~(Cardinality(s) <= Cardinality(s \ {x}))
      BY <2>1
    <2>3. QED
      BY <1>2, <2>2
  <1>9. g[s \ {x}] = h[s \ {x}]
    BY <1>3, <1>8
  <1>10. f[x] = e[x]
    BY <1>3
  <1>11. QED
    BY <1>3, <1>6, <1>7, <1>9, <1>10

(* Any element may be taken out first, and sums of integers are integers.   *)
LEMMA SumsOut ==
    ASSUME NEW f, NEW S, NEW g, Sums(g, f, S), IsFiniteSet(S), \A x \in S : f[x] \in Int
    PROVE  /\ \A s \in SUBSET S : g[s] \in Int
           /\ \A s \in SUBSET S : \A x \in s : g[s] = f[x] + g[s \ {x}]
  <1> DEFINE Good(s) == g[s] \in Int /\ \A x \in s : g[s] = f[x] + g[s \ {x}]
             Bad == {s \in SUBSET S : ~Good(s)}
  <1>1. \A s \in SUBSET S : IsFiniteSet(s)
    BY FS_Subset
  <1>a. \A s \in SUBSET S : SumStep(g, f, s)
    BY SumsAt
  <1>2. Bad = {}
    <2> SUFFICES ASSUME Bad # {} PROVE FALSE
      OBVIOUS
    <2>1. PICK s \in Bad : \A r \in Bad : Cardinality(s) <= Cardinality(r)
      BY <1>1, SmallestSet
    <2>2. s \in SUBSET S /\ ~Good(s)
      OBVIOUS
    <2> HIDE DEF Good
    <2>3. ASSUME NEW x \in s PROVE s \ {x} \in SUBSET S /\ Good(s \ {x})
      <3>1. Cardinality(s) \in Nat /\ Cardinality(s \ {x}) = Cardinality(s) - 1
        BY <1>1, <2>2, OneFewer
      <3>2. ~(Cardinality(s) <= Cardinality(s \ {x}))
        BY <3>1
      <3>3. QED
        BY <2>1, <2>2, <3>2
    <2>4. CASE s = {}
      <3>1. g[s] = 0
        BY <1>a, <2>2, <2>4 DEF SumStep
      <3>2. QED
        BY <2>2, <2>4, <3>1 DEF Good
    <2>5. CASE s # {}
      <3>1. PICK y \in s : y = AnyOf(s)
        BY <2>5, Zenon DEF AnyOf
      <3>2. g[s] = f[y] + g[s \ {y}]
        BY <1>a, <2>2, <2>5, <3>1 DEF SumStep
      <3>3. g[s \ {y}] \in Int /\ f[y] \in Int
        BY <2>2, <2>3 DEF Good
      <3>4. ASSUME NEW x \in s PROVE g[s] = f[x] + g[s \ {x}]
        <4>1. CASE x = y
          BY <3>2, <4>1
        <4>2. CASE x # y
          <5>1. x \in s \ {y} /\ y \in s \ {x}
            BY <4>2
          <5>2. g[s \ {y}] = f[x] + g[(s \ {y}) \ {x}]
            BY <2>3, <5>1 DEF Good
          <5>3. g[s \ {x}] = f[y] + g[(s \ {x}) \ {y}]
            BY <2>3, <5>1 DEF Good
          <5>4. (s \ {y}) \ {x} = (s \ {x}) \ {y}
            OBVIOUS
          <5>5. PICK z : z = g[(s \ {x}) \ {y}]
            OBVIOUS
          <5>6. g[s \ {y}] = f[x] + z /\ g[s \ {x}] = f[y] + z
            BY <5>2, <5>3, <5>4, <5>5
          <5>7. f[x] \in Int /\ f[y] \in Int /\ z \in Int
            <6>1. (s \ {x}) \ {y} \in SUBSET S
              BY <2>2
            <6>2. Cardinality((s \ {x}) \ {y}) = Cardinality(s \ {x}) - 1
                  /\ Cardinality(s \ {x}) \in Nat
              BY <1>1, <2>3, <5>1, OneFewer
            <6>3. Cardinality(s) \in Nat /\ Cardinality(s \ {x}) = Cardinality(s) - 1
              BY <1>1, <2>2, OneFewer
            <6>4. ~(Cardinality(s) <= Cardinality((s \ {x}) \ {y}))
              BY <6>2, <6>3
            <6>5. Good((s \ {x}) \ {y})
              BY <2>1, <6>1, <6>4
            <6>6. QED
              BY <2>2, <5>5, <6>5 DEF Good
          <5>8. QED
            BY <3>2, <5>6, <5>7
        <4>3. QED
          BY <4>1, <4>2
      <3>5. QED
        BY <2>2, <3>2, <3>3, <3>4 DEF Good
    <2>6. QED
      BY <2>4, <2>5
  <1>3. QED
    BY <1>2

(* A sum over nobody is 0.                                                  *)
LEMMA SumOfNone == \A f : SumOver(f, {}) = 0
  <1> TAKE f
  <1>1. IsFiniteSet({})
    BY FS_EmptySet
  <1>2. PICK g : Sums(g, f, {}) /\ SumOver(f, {}) = g[{}]
    BY <1>1, SumOverIs
  <1>3. {} \in SUBSET {}
    OBVIOUS
  <1>4. QED
    BY <1>2, <1>3, SumsAt DEF SumStep

(* A sum of integers is one, and depends on the summands alone.             *)
LEMMA SumIs ==
    ASSUME NEW f, NEW S, IsFiniteSet(S), \A x \in S : f[x] \in Int
    PROVE  /\ SumOver(f, S) \in Int
           /\ \A e : (\A x \in S : e[x] = f[x]) => SumOver(e, S) = SumOver(f, S)
  <1>1. PICK g : Sums(g, f, S) /\ SumOver(f, S) = g[S]
    BY SumOverIs
  <1>2. SumOver(f, S) \in Int
    BY <1>1, SumsOut
  <1>3. ASSUME NEW e, \A x \in S : e[x] = f[x] PROVE SumOver(e, S) = SumOver(f, S)
    <2>1. PICK h : Sums(h, e, S) /\ SumOver(e, S) = h[S]
      BY SumOverIs
    <2>2. S \subseteq S
      OBVIOUS
    <2>3. h[S] = g[S]
      BY <1>1, <1>3, <2>1, <2>2, SumsAgree
    <2>4. QED
      BY <1>1, <2>1, <2>3
  <1>4. QED
    BY <1>2, <1>3

(* One more element adds its summand.                                       *)
LEMMA SumAdds ==
    ASSUME NEW f, NEW S, IsFiniteSet(S), \A y \in S : f[y] \in Int,
           NEW x, x \notin S, f[x] \in Int
    PROVE  SumOver(f, S \cup {x}) = SumOver(f, S) + f[x]
  <1> DEFINE T == S \cup {x}
  <1>1. IsFiniteSet(T) /\ \A y \in T : f[y] \in Int
    BY FS_AddElement
  <1>2. T \ {x} = S /\ T \in SUBSET T /\ S \in SUBSET T /\ x \in T
    OBVIOUS
  <1> HIDE DEF T
  <1>3. PICK g : Sums(g, f, T) /\ SumOver(f, T) = g[T]
    BY <1>1, SumOverIs
  <1>4. PICK h : Sums(h, f, S) /\ SumOver(f, S) = h[S]
    BY SumOverIs
  <1>5. S \subseteq S /\ S \subseteq T /\ \A y \in S : f[y] = f[y]
    BY <1>2
  <1>6. g[S] = h[S]
    BY <1>3, <1>4, <1>5, SumsAgree
  <1>7. g[S] \in Int /\ g[T] = f[x] + g[T \ {x}]
    BY <1>1, <1>2, <1>3, SumsOut
  <1>8. g[T] = g[S] + f[x]
    <2>1. g[T] = f[x] + g[S]
      BY <1>2, <1>7, Zenon
    <2>2. QED
      BY <1>7, <2>1
  <1>9. QED
    BY <1>3, <1>4, <1>6, <1>8 DEF T

(* Raising one summand raises the sum by as much.                           *)
LEMMA SumRaised ==
    ASSUME NEW f, NEW e, NEW S, IsFiniteSet(S), \A y \in S : f[y] \in Int,
           NEW x \in S, NEW d \in Int, e[x] = f[x] + d, \A y \in S \ {x} : e[y] = f[y]
    PROVE  SumOver(e, S) = SumOver(f, S) + d
  <1> DEFINE R == S \ {x}
  <1>1. IsFiniteSet(R) /\ x \notin R /\ S = R \cup {x} /\ \A y \in R : f[y] \in Int
    BY FS_RemoveElement
  <1>2. f[x] \in Int /\ e[x] \in Int /\ \A y \in R : e[y] \in Int /\ e[y] = f[y]
    OBVIOUS
  <1> HIDE DEF R
  <1>3. SumOver(f, R \cup {x}) = SumOver(f, R) + f[x]
    BY <1>1, <1>2, SumAdds
  <1>4. SumOver(e, R \cup {x}) = SumOver(e, R) + e[x]
    BY <1>1, <1>2, SumAdds
  <1>5. SumOver(f, R) \in Int /\ SumOver(e, R) = SumOver(f, R)
    BY <1>1, <1>2, SumIs
  <1>6. QED
    BY <1>1, <1>2, <1>3, <1>4, <1>5

(* A sum of zeros is 0.                                                     *)
LEMMA SumOfZeros ==
    ASSUME NEW f, NEW S, IsFiniteSet(S), \A x \in S : f[x] = 0
    PROVE  SumOver(f, S) = 0
  <1> DEFINE Bad == {s \in SUBSET S : SumOver(f, s) # 0}
  <1> SUFFICES ASSUME Bad # {} PROVE FALSE
    OBVIOUS
  <1>1. \A s \in SUBSET S : IsFiniteSet(s)
    BY FS_Subset
  <1>2. PICK s \in Bad : \A r \in Bad : Cardinality(s) <= Cardinality(r)
    BY <1>1, SmallestSet
  <1>3. s # {} /\ s \in SUBSET S /\ SumOver(f, s) # 0
    BY SumOfNone
  <1>4. PICK x \in s : TRUE
    BY <1>3
  <1> DEFINE R == s \ {x}
  <1>5. Cardinality(s) \in Nat /\ Cardinality(R) = Cardinality(s) - 1 /\ IsFiniteSet(R)
    BY <1>1, <1>3, OneFewer
  <1>6. R \in SUBSET S /\ s = R \cup {x} /\ x \notin R /\ f[x] = 0 /\ \A y \in R : f[y] \in Int
    BY <1>3
  <1> HIDE DEF R
  <1>7. ~(Cardinality(s) <= Cardinality(R))
    BY <1>5
  <1>8. SumOver(f, R) = 0
    BY <1>2, <1>6, <1>7
  <1>9. f[x] \in Int
    BY <1>6
  <1>10. SumOver(f, R \cup {x}) = SumOver(f, R) + f[x]
    BY <1>5, <1>6, <1>9, SumAdds
  <1>11. QED
    BY <1>3, <1>6, <1>8, <1>10

=============================================================================
