-------------------------- MODULE NatFacts_proofs --------------------------
(***************************************************************************)
(* Facts that the proofs share: minima and maxima of numbers, and what the *)
(* sum over a finite set is, which least counterexamples show.             *)
(***************************************************************************)
EXTENDS Integers, FiniteSetsExt, TLAPS, FiniteSetTheorems, WellFoundedInduction

\* A nonempty set of naturals has a least element.
LEMMA LeastNat ==
    ASSUME NEW T \in SUBSET Nat, T # {}
    PROVE  \E x \in T : \A y \in T : x <= y
<1> DEFINE R == {ss \in Nat \X Nat : ss[1] < ss[2]}
<1>1. IsWellFoundedOn(R, Nat)
  BY NatLessThanWellFounded, Zenon DEF OpToRel
<1>2. \E x \in T : \A y \in T : <<y, x>> \notin R
  <2> HIDE DEF R
  <2> QED BY <1>1, WFMin
<1>3. PICK x \in T : \A y \in T : <<y, x>> \notin R
  BY <1>2
<1>4. \A y \in T : x <= y
  <2> TAKE y \in T
  <2>1. <<y, x>> \in Nat \X Nat /\ <<y, x>>[1] = y /\ <<y, x>>[2] = x
    OBVIOUS
  <2> QED
    BY <1>3, <2>1
<1> QED
  BY <1>4

\* Min picks it.
LEMMA MinNat ==
    ASSUME NEW T \in SUBSET Nat, T # {}
    PROVE  Min(T) \in T /\ \A y \in T : Min(T) <= y
  BY LeastNat DEF Min

\* The larger of an integer and a natural.
LEMMA MaxTwo ==
    ASSUME NEW i \in Int, NEW n \in Nat
    PROVE  Max({i, n}) \in Nat
<1>1. \E x \in {i, n} : \A y \in {i, n} : x >= y
  BY DEF Max
<1>2. Max({i, n}) \in {i, n} /\ \A y \in {i, n} : Max({i, n}) >= y
  BY <1>1 DEF Max
<1> QED
  BY <1>2

\* The smaller of two naturals.
LEMMA MinTwo ==
    ASSUME NEW m \in Nat, NEW n \in Nat
    PROVE  /\ Min({m, n}) \in Nat
           /\ Min({m, n}) <= m /\ Min({m, n}) <= n
           /\ Min({m, n}) = m \/ Min({m, n}) = n
<1>1. {m, n} \in SUBSET Nat /\ {m, n} # {}
  OBVIOUS
<1> QED
  BY <1>1, MinNat

\* The least of three naturals.
LEMMA MinThree ==
    ASSUME NEW l \in Nat, NEW m \in Nat, NEW n \in Nat
    PROVE  /\ Min({l, m, n}) \in Nat
           /\ Min({l, m, n}) <= l /\ Min({l, m, n}) <= m /\ Min({l, m, n}) <= n
           /\ Min({l, m, n}) = l \/ Min({l, m, n}) = m \/ Min({l, m, n}) = n
<1>1. {l, m, n} \in SUBSET Nat /\ {l, m, n} # {}
  OBVIOUS
<1> QED
  BY <1>1, MinNat

\* The smaller of two integers.
LEMMA MinInts ==
    ASSUME NEW i \in Int, NEW j \in Int
    PROVE  Min({i, j}) = IF i <= j THEN i ELSE j
<1>1. \E x \in {i, j} : \A y \in {i, j} : x <= y
  OBVIOUS
<1>2. Min({i, j}) \in {i, j} /\ \A y \in {i, j} : Min({i, j}) <= y
  BY <1>1 DEF Min
<1> QED
  BY <1>2

\* The larger of two integers.
LEMMA MaxInts ==
    ASSUME NEW i \in Int, NEW j \in Int
    PROVE  Max({i, j}) = IF i >= j THEN i ELSE j
<1>1. \E x \in {i, j} : \A y \in {i, j} : x >= y
  OBVIOUS
<1>2. Max({i, j}) \in {i, j} /\ \A y \in {i, j} : Max({i, j}) >= y
  BY <1>1 DEF Max
<1> QED
  BY <1>2

\* A number below the modulus is its own remainder.
LEMMA ModSmall ==
    ASSUME NEW x \in Nat, NEW n \in Nat, x < n
    PROVE  x % n = x
  OBVIOUS

\* Quotient and remainder.
LEMMA Euclid ==
    ASSUME NEW x \in Nat, NEW n \in Nat, n > 0
    PROVE  x = n * (x \div n) + (x % n) /\ x \div n \in Nat /\ x % n \in 0 .. n - 1
<1>1. x = n * (x \div n) + (x % n)
  OBVIOUS
<1>2. x \div n \in Nat
  OBVIOUS
<1>3. x % n \in 0 .. n - 1
  OBVIOUS
<1> QED
  BY <1>1, <1>2, <1>3

\* Going back from i by the remainder of i - s comes to the last number up to i that leaves the
\* remainder s.
LEMMA LastWithRemainder ==
    ASSUME NEW n \in Nat, n > 0, NEW s \in Nat, s < n, NEW i \in Nat, s <= i
    PROVE  /\ i - ((i - s) % n) \in Nat
           /\ i - ((i - s) % n) <= i /\ i < i - ((i - s) % n) + n
           /\ (i - ((i - s) % n)) % n = s
<1> DEFINE k == (i - s) \div n  r == (i - s) % n
<1>1. i - s = n * k + r /\ k \in Nat /\ r \in 0 .. n - 1
  BY i - s \in Nat, Euclid
<1> HIDE DEF k, r
<1>2. i - r = n * k + s /\ n * k \in Nat
  BY <1>1
<1>3. (n * k + s) % n = s
  BY <1>1
<1> QED
  BY <1>1, <1>2, <1>3 DEF r

\* The e values are shared out in equal parts to n owners: each part begins below e.
LEMMA PartBelow ==
    ASSUME NEW n \in Nat, n > 0, NEW e \in Nat, e > 0, e % n = 0,
           NEW s \in Nat, s < n
    PROVE  s * (e \div n) \in 0 .. e - 1 /\ n <= e
<1> DEFINE g == e \div n
<1>1. e = n * g + (e % n) /\ g \in Nat
  BY Euclid
<1> HIDE DEF g
<1>2. e = n * g /\ g > 0
  BY <1>1
<1>3. s * g < n * g /\ n <= n * g /\ s * g \in Nat
  BY <1>1, <1>2
<1> QED
  BY <1>2, <1>3 DEF g

-----------------------------------------------------------------------------
(* Sums over a finite set. *)

\* The sum of the values of g over S.
SumOf(g, S) == MapThenSumSet(LAMBDA x : g[x], S)

\* Its recursion, on the subsets of S that have at most m elements.
SumStep(g, u, s) == IF s = {} THEN 0 ELSE g[CHOOSE x \in s : TRUE] + u[s \ {CHOOSE x \in s : TRUE}]
SmallSets(S, m) == {s \in SUBSET S : Cardinality(s) <= m}
PartSumOf(g, S, m, u) ==
    /\ u \in [SmallSets(S, m) -> Int]
    /\ \A s \in SmallSets(S, m) : u[s] = SumStep(g, u, s)
IsSumOf(g, S, u) ==
    /\ u \in [SUBSET S -> Int]
    /\ \A s \in SUBSET S : u[s] = SumStep(g, u, s)

\* Every set but the empty one is an element added to a smaller set.
LEMMA LessOne ==
    ASSUME NEW S, IsFiniteSet(S), NEW s \in SUBSET S, s # {}
    PROVE  /\ (CHOOSE x \in s : TRUE) \in s
           /\ Cardinality(s) \in Nat \ {0}
           /\ s \ {CHOOSE x \in s : TRUE} \in SUBSET S
           /\ Cardinality(s \ {CHOOSE x \in s : TRUE}) = Cardinality(s) - 1
<1>1. (CHOOSE x \in s : TRUE) \in s
  OBVIOUS
<1>2. IsFiniteSet(s) /\ Cardinality(s) \in Nat /\ Cardinality(s) # 0
  BY FS_Subset, FS_CardinalityType, FS_EmptySet
<1>3. Cardinality(s \ {CHOOSE x \in s : TRUE}) = Cardinality(s) - 1
  BY <1>1, <1>2, FS_RemoveElement
<1> QED
  BY <1>1, <1>2, <1>3

\* The recursion goes on from the sets of m elements to those of one more.
LEMMA PartSumOfNext ==
    ASSUME NEW S, IsFiniteSet(S), NEW g, \A x \in S : g[x] \in Int,
           NEW m \in Nat, NEW u, PartSumOf(g, S, m, u)
    PROVE  \E v : PartSumOf(g, S, m + 1, v)
<1> DEFINE D == SmallSets(S, m)
           E == SmallSets(S, m + 1)
           v == [s \in E |-> SumStep(g, u, s)]
<1>1. \A s \in E : s \in SUBSET S /\ Cardinality(s) \in Nat /\ Cardinality(s) <= m + 1
  BY FS_Subset, FS_CardinalityType DEF SmallSets
<1>2. \A s \in E : s # {} => s \ {CHOOSE x \in s : TRUE} \in D
  BY <1>1, LessOne DEF SmallSets
<1>3. \A s \in E : SumStep(g, u, s) \in Int
  <2> SUFFICES ASSUME NEW s \in E
               PROVE  SumStep(g, u, s) \in Int
    OBVIOUS
  <2>1. CASE s = {}
    BY <2>1 DEF SumStep
  <2>2. CASE s # {}
    <3>1. g[CHOOSE x \in s : TRUE] \in Int
      BY <1>1, <2>2
    <3>2. u[s \ {CHOOSE x \in s : TRUE}] \in Int
      BY <1>2, <2>2 DEF PartSumOf
    <3> QED
      BY <2>2, <3>1, <3>2 DEF SumStep
  <2> QED
    BY <2>1, <2>2
<1>4. v \in [E -> Int]
  BY <1>3
<1>5. D \subseteq E
  <2>1. ASSUME NEW s \in SUBSET S, Cardinality(s) <= m
        PROVE  Cardinality(s) <= m + 1
    <3>1. Cardinality(s) \in Nat
      BY FS_Subset, FS_CardinalityType
    <3> QED
      BY <2>1, <3>1
  <2> QED
    BY <2>1 DEF SmallSets
<1>6. \A s \in D : v[s] = u[s]
  BY <1>5 DEF PartSumOf
<1>7. \A s \in E : v[s] = SumStep(g, v, s)
  <2> SUFFICES ASSUME NEW s \in E
               PROVE  v[s] = SumStep(g, v, s)
    OBVIOUS
  <2>1. v[s] = SumStep(g, u, s)
    OBVIOUS
  <2>2. s # {} => v[s \ {CHOOSE x \in s : TRUE}] = u[s \ {CHOOSE x \in s : TRUE}]
    BY <1>2, <1>6
  <2> HIDE DEF v
  <2> QED
    BY <2>1, <2>2 DEF SumStep
<1> HIDE DEF v
<1>8. PartSumOf(g, S, m + 1, v)
  BY <1>4, <1>7 DEF PartSumOf
<1> QED
  BY <1>8

\* The recursion has a solution, or there would be a least size of set up to which it has none.
LEMMA SumOfExists ==
    ASSUME NEW S, IsFiniteSet(S), NEW g, \A x \in S : g[x] \in Int
    PROVE  \E u : IsSumOf(g, S, u)
<1> DEFINE Bad == {m \in Nat : ~ \E u : PartSumOf(g, S, m, u)}
<1>1. Bad = {}
  <2> SUFFICES ASSUME Bad # {}
               PROVE  FALSE
    OBVIOUS
  <2>1. Bad \in SUBSET Nat
    OBVIOUS
  <2>2. PICK m \in Bad : \A k \in Bad : m <= k
    <3> HIDE DEF Bad
    <3> QED
      BY <2>1, LeastNat
  <2>3. m \in Nat /\ ~ \E u : PartSumOf(g, S, m, u)
    OBVIOUS
  <2>4. m # 0
    <3> DEFINE u == [s \in SmallSets(S, 0) |-> 0]
    <3>1. \A s \in SmallSets(S, 0) : s = {}
      BY FS_Subset, FS_CardinalityType, FS_EmptySet DEF SmallSets
    <3>2. PartSumOf(g, S, 0, u)
      BY <3>1 DEF PartSumOf, SumStep
    <3> QED
      BY <2>3, <3>2
  <2>5. m - 1 \in Nat /\ ~ (m <= m - 1) /\ m - 1 + 1 = m
    BY <2>3, <2>4
  <2>6. m - 1 \notin Bad
    <3> HIDE DEF Bad
    <3> QED
      BY <2>2, <2>5
  <2>7. PICK u : PartSumOf(g, S, m - 1, u)
    BY <2>5, <2>6
  <2>8. \E v : PartSumOf(g, S, m - 1 + 1, v)
    BY <2>5, <2>7, PartSumOfNext
  <2> QED
    BY <2>3, <2>5, <2>8
<1>2. Cardinality(S) \in Nat
  BY FS_CardinalityType
<1>3. PICK u : PartSumOf(g, S, Cardinality(S), u)
  BY <1>1, <1>2
<1>4. SmallSets(S, Cardinality(S)) = SUBSET S
  BY FS_Subset DEF SmallSets
<1> QED
  BY <1>3, <1>4 DEF PartSumOf, IsSumOf

\* The sum is the last value of its recursion.
LEMMA SumOfIs ==
    ASSUME NEW S, IsFiniteSet(S), NEW g, \A x \in S : g[x] \in Int
    PROVE  \E u : IsSumOf(g, S, u) /\ SumOf(g, S) = u[S]
<1> DEFINE Eq(u) == u = [s \in SUBSET S |-> IF s = {} THEN 0 ELSE
                           g[CHOOSE x \in s : TRUE] + u[s \ {CHOOSE x \in s : TRUE}]]
           iter == CHOOSE u : Eq(u)
<1>1. SumOf(g, S) = iter[S]
  BY DEF SumOf, MapThenSumSet, MapThenFoldSet
<1>2. PICK u : IsSumOf(g, S, u)
  BY SumOfExists
<1>3. Eq(u)
  BY <1>2 DEF IsSumOf, SumStep
<1>4. Eq(iter)
  BY <1>3
<1>5. \A s \in SUBSET S : iter[s] = SumStep(g, iter, s)
  <2> HIDE DEF iter
  <2> QED
    BY <1>4 DEF SumStep
<1> HIDE DEF iter
<1>6. \A s \in SUBSET S : iter[s] = u[s]
  <2> DEFINE Bad == {k \in Nat : \E s \in SUBSET S : Cardinality(s) = k /\ iter[s] # u[s]}
  <2>1. Bad = {}
    <3> SUFFICES ASSUME Bad # {}
                 PROVE  FALSE
      OBVIOUS
    <3>1. Bad \in SUBSET Nat
      OBVIOUS
    <3>2. PICK k \in Bad : \A j \in Bad : k <= j
      <4> HIDE DEF Bad
      <4> QED
        BY <3>1, LeastNat
    <3>3. PICK s \in SUBSET S : Cardinality(s) = k /\ iter[s] # u[s]
      OBVIOUS
    <3> DEFINE t == s \ {CHOOSE x \in s : TRUE}
    <3>4. s # {}
      BY <1>2, <1>5, <3>3 DEF IsSumOf, SumStep
    <3>5. t \in SUBSET S /\ Cardinality(t) \in Nat /\ Cardinality(t) = k - 1 /\ k \in Nat
      BY <3>3, <3>4, LessOne
    <3>6. Cardinality(t) \notin Bad
      <4> HIDE DEF Bad, t
      <4> QED
        BY <3>2, <3>5
    <3>7. iter[t] = u[t]
      <4> HIDE DEF t
      <4> QED
        BY <3>5, <3>6
    <3> QED
      BY <1>2, <1>5, <3>3, <3>4, <3>7 DEF IsSumOf, SumStep
  <2>2. \A s \in SUBSET S : Cardinality(s) \in Nat
    BY FS_Subset, FS_CardinalityType
  <2> QED
    BY <2>1, <2>2
<1> QED
  BY <1>1, <1>2, <1>6

\* The sum changes as its terms do.
LEMMA SumOfChange ==
    ASSUME NEW S, IsFiniteSet(S), NEW g, \A y \in S : g[y] \in Int,
           NEW h, \A y \in S : h[y] \in Int, NEW x \in S, \A y \in S : y # x => h[y] = g[y]
    PROVE  SumOf(g, S) \in Int /\ SumOf(h, S) = SumOf(g, S) + h[x] - g[x]
<1>1. PICK u : IsSumOf(g, S, u) /\ SumOf(g, S) = u[S]
  BY SumOfIs
<1>2. PICK v : IsSumOf(h, S, v) /\ SumOf(h, S) = v[S]
  BY SumOfIs
<1> DEFINE Diff(s) == IF x \in s THEN h[x] - g[x] ELSE 0
           Bad == {k \in Nat : \E s \in SUBSET S : Cardinality(s) = k /\ v[s] # u[s] + Diff(s)}
<1>3. Bad = {}
  <2> SUFFICES ASSUME Bad # {}
               PROVE  FALSE
    OBVIOUS
  <2>1. Bad \in SUBSET Nat
    OBVIOUS
  <2>2. PICK k \in Bad : \A j \in Bad : k <= j
    <3> HIDE DEF Bad
    <3> QED
      BY <2>1, LeastNat
  <2>3. PICK s \in SUBSET S : Cardinality(s) = k /\ v[s] # u[s] + Diff(s)
    OBVIOUS
  <2> DEFINE y == CHOOSE z \in s : TRUE
             t == s \ {y}
  <2>4. s # {}
    <3>1. s = {} => u[s] = 0 /\ v[s] = 0
      BY <1>1, <1>2 DEF IsSumOf, SumStep
    <3>2. s = {} => Diff(s) = 0
      OBVIOUS
    <3> HIDE DEF Diff
    <3> QED
      BY <2>3, <3>1, <3>2
  <2>5. t \in SUBSET S /\ Cardinality(t) \in Nat /\ Cardinality(t) = k - 1 /\ k \in Nat /\ y \in s
    BY <2>3, <2>4, LessOne
  <2>6. Cardinality(t) \notin Bad
    <3> HIDE DEF Bad, t
    <3> QED
      BY <2>2, <2>5
  <2>7. v[t] = u[t] + Diff(t)
    <3> HIDE DEF t
    <3> QED
      BY <2>5, <2>6
  <2>8. u[s] = g[y] + u[t] /\ v[s] = h[y] + v[t]
    BY <1>1, <1>2, <2>4 DEF IsSumOf, SumStep
  <2>9. u[t] \in Int /\ v[t] \in Int /\ g[y] \in Int /\ h[y] \in Int /\ g[x] \in Int /\ h[x] \in Int
    <3> HIDE DEF y, t
    <3> QED
      BY <1>1, <1>2, <2>5 DEF IsSumOf
  <2>10. y = x => Diff(s) = h[x] - g[x] /\ Diff(t) = 0
    BY <2>5
  <2>11. y # x => Diff(s) = Diff(t) /\ h[y] = g[y] /\ Diff(t) \in Int
    BY <2>5, <2>9
  <2> HIDE DEF y, t, Diff
  <2>12. v[s] = u[s] + Diff(s)
    <3>1. CASE y = x
      BY <2>7, <2>8, <2>9, <2>10, <3>1
    <3>2. CASE y # x
      BY <2>7, <2>8, <2>9, <2>11, <3>2
    <3> QED
      BY <3>1, <3>2
  <2> QED
    BY <2>3, <2>12
<1>4. v[S] = u[S] + (h[x] - g[x])
  <2>1. S \in SUBSET S /\ Cardinality(S) \in Nat
    BY FS_CardinalityType
  <2> QED
    BY <1>3, <2>1
<1>5. u[S] \in Int /\ h[x] \in Int /\ g[x] \in Int
  BY <1>1 DEF IsSumOf
<1> QED
  BY <1>1, <1>2, <1>4, <1>5

\* A sum of naturals is one, and bounds its terms; it is zero if all of them are.
LEMMA SumOfNat ==
    ASSUME NEW S, IsFiniteSet(S), NEW g, \A y \in S : g[y] \in Nat
    PROVE  /\ SumOf(g, S) \in Nat
           /\ \A y \in S : g[y] <= SumOf(g, S)
           /\ SumOf(g, S) = 0 <=> \A y \in S : g[y] = 0
<1>1. PICK u : IsSumOf(g, S, u) /\ SumOf(g, S) = u[S]
  BY SumOfIs
<1> DEFINE Fine(s) == /\ u[s] \in Nat
                      /\ \A y \in s : g[y] <= u[s]
                      /\ (\A y \in s : g[y] = 0) => u[s] = 0
           Bad == {k \in Nat : \E s \in SUBSET S : Cardinality(s) = k /\ ~ Fine(s)}
<1>2. Bad = {}
  <2> SUFFICES ASSUME Bad # {}
               PROVE  FALSE
    OBVIOUS
  <2>1. Bad \in SUBSET Nat
    OBVIOUS
  <2>2. PICK k \in Bad : \A j \in Bad : k <= j
    <3> HIDE DEF Bad
    <3> QED
      BY <2>1, LeastNat
  <2>3. PICK s \in SUBSET S : Cardinality(s) = k /\ ~ Fine(s)
    <3> HIDE DEF Fine
    <3> QED
      OBVIOUS
  <2> DEFINE y == CHOOSE z \in s : TRUE
             t == s \ {y}
  <2>4. s # {}
    BY <1>1, <2>3 DEF IsSumOf, SumStep
  <2>5. t \in SUBSET S /\ Cardinality(t) \in Nat /\ Cardinality(t) = k - 1 /\ k \in Nat /\ y \in s
    BY <2>3, <2>4, LessOne
  <2>6. Cardinality(t) \notin Bad
    <3> HIDE DEF Bad, t
    <3> QED
      BY <2>2, <2>5
  <2>7. Fine(t)
    <3> HIDE DEF t, Fine
    <3> QED
      BY <2>5, <2>6
  <2>8. u[s] = g[y] + u[t] /\ g[y] \in Nat
    BY <1>1, <2>4, <2>5 DEF IsSumOf, SumStep
  <2>9. \A z \in s : z = y \/ z \in t
    OBVIOUS
  <2>10. t \subseteq s
    OBVIOUS
  <2> HIDE DEF y, t
  <2>11. \A z \in s : g[z] \in Nat
    OBVIOUS
  <2>12. Fine(s)
    BY <2>5, <2>7, <2>8, <2>9, <2>10, <2>11
  <2> QED
    BY <2>3, <2>12
<1>3. Fine(S)
  <2>1. S \in SUBSET S /\ Cardinality(S) \in Nat
    BY FS_CardinalityType
  <2> HIDE DEF Fine
  <2> QED
    BY <1>2, <2>1
<1> QED
  BY <1>1, <1>3

\* Any element of a set may be the one that is added last.
LEMMA AnyLast ==
    ASSUME NEW S, IsFiniteSet(S), NEW g, \A y \in S : g[y] \in Int, NEW u, IsSumOf(g, S, u),
           NEW s \in SUBSET S, NEW x \in s
    PROVE  u[s] = g[x] + u[s \ {x}]
<1> DEFINE Fine(r) == \A y \in r : u[r] = g[y] + u[r \ {y}]
           Bad == {k \in Nat : \E r \in SUBSET S : Cardinality(r) = k /\ ~ Fine(r)}
<1>1. Bad = {}
  <2> SUFFICES ASSUME Bad # {}
               PROVE  FALSE
    OBVIOUS
  <2>1. Bad \in SUBSET Nat
    OBVIOUS
  <2>2. PICK k \in Bad : \A j \in Bad : k <= j
    <3> HIDE DEF Bad
    <3> QED
      BY <2>1, LeastNat
  <2>3. PICK r \in SUBSET S : Cardinality(r) = k /\ ~ Fine(r)
    <3> HIDE DEF Fine
    <3> QED
      OBVIOUS
  <2>4. PICK y \in r : u[r] # g[y] + u[r \ {y}]
    BY <2>3
  <2> DEFINE z == CHOOSE w \in r : TRUE
  <2>5. r # {}
    BY <2>4
  <2>6. z \in r /\ k \in Nat \ {0} /\ u[r] = g[z] + u[r \ {z}]
    BY <2>3, <2>5, LessOne DEF IsSumOf, SumStep
  <2> HIDE DEF z
  <2>7. y # z
    BY <2>4, <2>6
  <2>8. IsFiniteSet(r) /\ IsFiniteSet(r \ {y}) /\ IsFiniteSet(r \ {z})
    BY FS_Subset
  <2>9. Cardinality(r \ {y}) = k - 1 /\ Cardinality(r \ {z}) = k - 1
    BY <2>3, <2>6, <2>8, FS_RemoveElement
  <2>10. k - 1 \in Nat /\ k - 1 \notin Bad
    <3>1. k - 1 \in Nat /\ ~ (k <= k - 1)
      BY <2>6
    <3> HIDE DEF Bad
    <3> QED
      BY <2>2, <3>1
  <2>11. Fine(r \ {y}) /\ Fine(r \ {z})
    <3> HIDE DEF Fine
    <3> QED
      BY <2>9, <2>10
  <2>12. u[r \ {y}] = g[z] + u[(r \ {y}) \ {z}] /\ u[r \ {z}] = g[y] + u[(r \ {z}) \ {y}]
    BY <2>6, <2>7, <2>11
  <2>13. (r \ {y}) \ {z} = (r \ {z}) \ {y}
    OBVIOUS
  <2>14. g[y] \in Int /\ g[z] \in Int /\ u[(r \ {z}) \ {y}] \in Int
    BY <2>6 DEF IsSumOf
  <2> DEFINE rest == u[(r \ {z}) \ {y}]
  <2>15. u[r \ {y}] = g[z] + rest /\ u[r \ {z}] = g[y] + rest
    BY <2>12, <2>13
  <2>16. rest \in Int
    BY <2>14
  <2> HIDE DEF rest, Fine, Bad
  <2>17. u[r] = g[z] + (g[y] + rest) /\ u[r] # g[y] + (g[z] + rest)
    BY <2>4, <2>6, <2>15
  <2> QED
    BY <2>14, <2>16, <2>17
<1>2. Cardinality(s) \in Nat
  BY FS_Subset, FS_CardinalityType
<1>3. Fine(s)
  <2> HIDE DEF Fine
  <2> QED
    BY <1>1, <1>2
<1> QED
  BY <1>3

\* The sum over a part of a set is the value of the recursion over the whole set.
LEMMA PartOfSum ==
    ASSUME NEW S, IsFiniteSet(S), NEW g, \A y \in S : g[y] \in Int, NEW u, IsSumOf(g, S, u),
           NEW s \in SUBSET S
    PROVE  SumOf(g, s) = u[s]
<1>1. IsFiniteSet(s) /\ \A y \in s : g[y] \in Int
  BY FS_Subset
<1>2. PICK v : IsSumOf(g, s, v) /\ SumOf(g, s) = v[s]
  BY <1>1, SumOfIs
<1> DEFINE Bad == {k \in Nat : \E r \in SUBSET s : Cardinality(r) = k /\ v[r] # u[r]}
<1>3. Bad = {}
  <2> SUFFICES ASSUME Bad # {}
               PROVE  FALSE
    OBVIOUS
  <2>1. Bad \in SUBSET Nat
    OBVIOUS
  <2>2. PICK k \in Bad : \A j \in Bad : k <= j
    <3> HIDE DEF Bad
    <3> QED
      BY <2>1, LeastNat
  <2>3. PICK r \in SUBSET s : Cardinality(r) = k /\ v[r] # u[r]
    OBVIOUS
  <2> DEFINE t == r \ {CHOOSE y \in r : TRUE}
  <2>4. r # {}
    BY <1>2, <2>3 DEF IsSumOf, SumStep
  <2>5. t \in SUBSET s /\ Cardinality(t) = k - 1 /\ k \in Nat \ {0}
    BY <1>1, <2>3, <2>4, LessOne
  <2>6. k - 1 \in Nat /\ k - 1 \notin Bad
    <3>1. k - 1 \in Nat /\ ~ (k <= k - 1)
      BY <2>5
    <3> HIDE DEF Bad, t
    <3> QED
      BY <2>2, <3>1
  <2>7. v[t] = u[t]
    <3> HIDE DEF t
    <3> QED
      BY <2>5, <2>6
  <2> QED
    BY <1>2, <2>3, <2>4, <2>7 DEF IsSumOf, SumStep
<1>4. Cardinality(s) \in Nat
  BY <1>1, FS_CardinalityType
<1> QED
  BY <1>2, <1>3, <1>4

\* The sum over a set with one element more.
LEMMA SumOfMore ==
    ASSUME NEW S, IsFiniteSet(S), NEW x, x \notin S, NEW g, \A y \in S \cup {x} : g[y] \in Int
    PROVE  SumOf(g, S) \in Int /\ SumOf(g, S \cup {x}) = SumOf(g, S) + g[x]
<1> DEFINE T == S \cup {x}
<1>1. IsFiniteSet(T) /\ T \ {x} = S /\ S \in SUBSET T /\ x \in T
  BY FS_AddElement
<1>2. \A y \in T : g[y] \in Int
  OBVIOUS
<1> HIDE DEF T
<1>3. PICK u : IsSumOf(g, T, u) /\ SumOf(g, T) = u[T]
  BY <1>1, <1>2, SumOfIs
<1>4. u[T] = g[x] + u[S]
  BY <1>1, <1>2, <1>3, AnyLast
<1>5. SumOf(g, S) = u[S]
  BY <1>1, <1>2, <1>3, PartOfSum
<1>6. u[S] \in Int /\ g[x] \in Int
  BY <1>1, <1>2, <1>3 DEF IsSumOf
<1> QED
  BY <1>3, <1>4, <1>5, <1>6 DEF T

\* Only the values on the set matter.
LEMMA SumOfSame ==
    ASSUME NEW S, IsFiniteSet(S), NEW g, \A y \in S : g[y] \in Int, NEW h, \A y \in S : h[y] = g[y]
    PROVE  SumOf(h, S) = SumOf(g, S)
<1>1. CASE S = {}
  <2>1. PICK u : IsSumOf(g, S, u) /\ SumOf(g, S) = u[S]
    BY SumOfIs
  <2>2. PICK v : IsSumOf(h, S, v) /\ SumOf(h, S) = v[S]
    BY SumOfIs
  <2> QED
    BY <1>1, <2>1, <2>2 DEF IsSumOf, SumStep
<1>2. CASE S # {}
  <2>1. PICK x \in S : TRUE
    BY <1>2
  <2>2. SumOf(g, S) \in Int /\ SumOf(h, S) = SumOf(g, S) + h[x] - g[x]
    BY SumOfChange
  <2> QED
    BY <2>2
<1> QED
  BY <1>1, <1>2
=============================================================================
