----------------------------- MODULE FoldProofs -----------------------------
(***************************************************************************)
(* Facts about recursive functions and folds.  The functions behind them   *)
(* exist, and have the properties wanted, by induction on a natural number *)
(* or on a finite set: a smallest counterexample is excluded.  The sums    *)
(* are those of SumFunctionOnSet.                                          *)
(***************************************************************************)
EXTENDS Functions, FiniteSetTheorems, TLAPS

\* What holds of 0, and of the successor of whatever it holds of, holds of all.
LEMMA NatSetInduction ==
  ASSUME NEW T, 0 \in T, \A n \in Nat : n \in T => n + 1 \in T
  PROVE  Nat \subseteq T
<1> DEFINE Bad == Nat \ T
<1> SUFFICES ASSUME Bad # {} PROVE FALSE
  OBVIOUS
<1>1. PICK n \in Bad : \A m \in Bad : ~(<<m, n>> \in OpToRel(<, Nat))
  <2>1. Bad \subseteq Nat
    OBVIOUS
  <2> HIDE DEF Bad
  <2>2. QED
    BY <2>1, WFMin, NatLessThanWellFounded
<1>2. n # 0 /\ n - 1 \in Nat /\ (n - 1) + 1 = n
  OBVIOUS
<1>3. n - 1 \in Bad /\ <<n - 1, n>> \in OpToRel(<, Nat)
  BY <1>2 DEF OpToRel
<1>4. QED
  BY <1>1, <1>3

\* A nonempty set of naturals has a least element.
LEMMA LeastNatural ==
  ASSUME NEW T, T \subseteq Nat, T # {}
  PROVE  \E n \in T : \A m \in T : n <= m
<1>1. PICK n \in T : \A m \in T : ~(<<m, n>> \in OpToRel(<, Nat))
  BY WFMin, NatLessThanWellFounded
<1>2. \A m \in T : ~(m < n)
  BY <1>1 DEF OpToRel
<1>3. QED
  BY <1>2

\* g starts with c, and its n-th value is the n-th step of d from the one before.
Recursive(g, N, c, d) == \A n \in 0..N : g[n] = IF n = 0 THEN c ELSE d[n][g[n - 1]]

\* Such a function exists when each step stays in a set.
LEMMA RecursionExists ==
  ASSUME NEW S, NEW N \in Nat, NEW c \in S, NEW d \in [1..N -> [S -> S]]
  PROVE  \E g \in [0..N -> S] : Recursive(g, N, c, d)
<1> DEFINE Ok(g, m) == \A n \in 0..m :
                         n <= N => g[n] = IF n = 0 THEN c ELSE d[n][g[n - 1]]
           T == {m \in Nat : \E g \in [0..N -> S] : Ok(g, m)}
<1>1. 0 \in T
  <2>1. [n \in 0..N |-> c] \in [0..N -> S]
    OBVIOUS
  <2>2. Ok([n \in 0..N |-> c], 0)
    OBVIOUS
  <2> HIDE DEF Ok
  <2>3. QED
    BY <2>1, <2>2
<1>2. ASSUME NEW m \in Nat, m \in T PROVE m + 1 \in T
  <2>1. PICK g \in [0..N -> S] : Ok(g, m)
    BY <1>2
  <2>2. CASE m + 1 > N
    <3>1. Ok(g, m + 1)
      BY <2>1, <2>2
    <3> HIDE DEF Ok
    <3>2. QED
      BY <3>1
  <2>3. CASE m + 1 <= N
    <3>1. m \in 0..N /\ m + 1 \in 1..N /\ g[m] \in S
      BY <2>3
    <3>2. d[m + 1][g[m]] \in S
      BY <3>1
    <3> DEFINE h == [g EXCEPT ![m + 1] = d[m + 1][g[m]]]
    <3>3. h \in [0..N -> S]
      BY <3>2
    <3>4. h[m + 1] = d[m + 1][g[m]] /\ \A n \in 0..m : h[n] = g[n]
      BY <3>1
    <3> HIDE DEF h
    <3>5. ASSUME NEW n \in 0..(m + 1), n <= N
          PROVE  h[n] = IF n = 0 THEN c ELSE d[n][h[n - 1]]
      <4>1. CASE n = m + 1
        BY <4>1, <3>4
      <4>2. CASE n \in 0..m
        <5>1. h[n] = g[n] /\ (n # 0 => h[n - 1] = g[n - 1])
          BY <4>2, <3>4
        <5>2. QED
          BY <4>2, <5>1, <2>1, <3>5
      <4>3. QED
        BY <4>1, <4>2
    <3>6. Ok(h, m + 1)
      BY <3>5
    <3> HIDE DEF Ok
    <3>7. QED
      BY <3>3, <3>6
  <2>4. QED
    BY <2>2, <2>3
<1>3. N \in T
  <2> HIDE DEF T
  <2>1. QED
    BY <1>1, <1>2, NatSetInduction
<1>4. QED
  BY <1>3 DEF Recursive

-----------------------------------------------------------------------------
\* g adds up f over every subset of S, in the order of CHOOSE.
Chosen(T) == CHOOSE x \in T : TRUE
Body(f, g, T) == IF T = {} THEN 0 ELSE f[Chosen(T)] + g[T \ {Chosen(T)}]
Adds(f, S, g) == g = [T \in SUBSET S |-> Body(f, g, T)]

\* The sum is the value at S of a function that adds up over every subset.
LEMMA SumDef ==
  ASSUME NEW f, NEW S
  PROVE  SumFunctionOnSet(f, S) = (CHOOSE g : Adds(f, S, g))[S]
BY DEF SumFunctionOnSet, FoldFunctionOnSet, MapThenFoldSet, Adds, Body, Chosen

\* Such a function exists for a finite set.
LEMMA AddsExists ==
  ASSUME NEW S, IsFiniteSet(S), NEW f
  PROVE  \E g : Adds(f, S, g)
<1> DEFINE Upto(n) == {T \in SUBSET S : Cardinality(T) <= n}
           Good(n) == \E g : g = [T \in SUBSET S |-> g[T]] /\ \A T \in Upto(n) : g[T] = Body(f, g, T)
           Bad == {n \in Nat : ~Good(n)}
<1>1. Good(0)
  <2> DEFINE g == [T \in SUBSET S |-> 0]
  <2>1. \A T \in Upto(0) : T = {}
    BY FS_EmptySet, FS_Subset, FS_CardinalityType
  <2>2. g = [T \in SUBSET S |-> g[T]] /\ \A T \in Upto(0) : g[T] = Body(f, g, T)
    BY <2>1 DEF Body
  <2>3. QED
    BY <2>2
<1>2. ASSUME NEW n \in Nat, Good(n) PROVE Good(n + 1)
  <2>1. PICK h : h = [T \in SUBSET S |-> h[T]] /\ \A T \in Upto(n) : h[T] = Body(f, h, T)
    BY <1>2
  <2> DEFINE g == [T \in SUBSET S |-> Body(f, h, T)]
  <2>2. ASSUME NEW T \in Upto(n + 1) PROVE g[T] = Body(f, g, T)
    <3>1. CASE T = {}
      BY <3>1 DEF Body
    <3>2. CASE T # {}
      <4>1. Chosen(T) \in T
        BY <3>2 DEF Chosen
      <4>2. T \ {Chosen(T)} \in Upto(n)
        <5>1. IsFiniteSet(T) /\ Cardinality(T) \in Nat
          BY FS_Subset, FS_CardinalityType
        <5>2. Cardinality(T \ {Chosen(T)}) = Cardinality(T) - 1
          BY <4>1, <5>1, FS_RemoveElement
        <5>3. QED
          BY <5>1, <5>2
      <4> HIDE DEF Upto
      <4>3. g[T \ {Chosen(T)}] = h[T \ {Chosen(T)}]
        BY <4>2, <2>1 DEF Upto
      <4>4. QED
        BY <3>2, <4>3 DEF Body, Upto
    <3>3. QED
      BY <3>1, <3>2
  <2>3. g = [T \in SUBSET S |-> g[T]]
    OBVIOUS
  <2> HIDE DEF g
  <2>4. QED
    BY <2>2, <2>3
<1>3. Bad = {}
  <2> SUFFICES ASSUME Bad # {} PROVE FALSE
    OBVIOUS
  <2> HIDE DEF Good
  <2>1. PICK n \in Bad : \A m \in Bad : ~(<<m, n>> \in OpToRel(<, Nat))
    <3>1. Bad \subseteq Nat
      OBVIOUS
    <3> HIDE DEF Bad
    <3>2. QED
      BY <3>1, WFMin, NatLessThanWellFounded
  <2>2. n \in Nat /\ n # 0
    BY <1>1
  <2>3. n - 1 \in Nat /\ n - 1 \in Bad
    <3>1. n - 1 \in Nat /\ (n - 1) + 1 = n
      BY <2>2
    <3>2. ~Good(n - 1)
      BY <1>2, <3>1
    <3>3. QED
      BY <3>1, <3>2
  <2>4. <<n - 1, n>> \in OpToRel(<, Nat)
    BY <2>2, <2>3 DEF OpToRel
  <2>5. QED
    BY <2>1, <2>3, <2>4
<1>4. Good(Cardinality(S))
  BY <1>3, FS_CardinalityType
<1>5. PICK g : g = [T \in SUBSET S |-> g[T]] /\ \A T \in Upto(Cardinality(S)) : g[T] = Body(f, g, T)
  BY <1>4
<1>6. Upto(Cardinality(S)) = SUBSET S
  BY FS_Subset
<1>7. QED
  <2>1. g = [T \in SUBSET S |-> Body(f, g, T)]
    BY <1>5, <1>6
  <2>2. QED
    BY <2>1 DEF Adds

\* Two functions that add up agree on the sets over which their summands agree.
LEMMA AddsAgree ==
  ASSUME NEW S, NEW R, NEW f, NEW e, NEW g, NEW h,
         Adds(f, S, g), Adds(e, R, h),
         NEW T, T \subseteq S, T \subseteq R, IsFiniteSet(T),
         \A x \in T : f[x] = e[x]
  PROVE  g[T] = h[T]
<1> DEFINE Bad == {U \in SUBSET T : g[U] # h[U]}
           Order == StrictSubsetOrdering(T)
<1> SUFFICES ASSUME Bad # {} PROVE FALSE
  OBVIOUS
<1>1. PICK U \in Bad : \A V \in Bad : ~(<<V, U>> \in Order)
  <2>1. IsWellFoundedOn(Order, SUBSET T)
    BY FS_StrictSubsetOrderingWellFounded, FS_FiniteSubsetsOfFinite
  <2>2. Bad \subseteq SUBSET T
    OBVIOUS
  <2> HIDE DEF Bad, Order
  <2>3. QED
    BY <2>1, <2>2, WFMin
<1>2. g[U] = Body(f, g, U) /\ h[U] = Body(e, h, U)
  BY DEF Adds
<1>3. U # {}
  BY <1>2 DEF Body
<1>4. Chosen(U) \in U
  BY <1>3 DEF Chosen
<1> DEFINE V == U \ {Chosen(U)}
<1>5. V \in SUBSET T /\ <<V, U>> \in Order
  BY <1>4 DEF StrictSubsetOrdering
<1>6. g[V] = h[V]
  BY <1>1, <1>5
<1>7. f[Chosen(U)] = e[Chosen(U)]
  BY <1>4
<1>8. QED
  BY <1>2, <1>3, <1>6, <1>7 DEF Body

-----------------------------------------------------------------------------
\* The sum depends on the values at the elements of the set only.
LEMMA SumAgree ==
  ASSUME NEW S, IsFiniteSet(S), NEW f, NEW e, \A x \in S : f[x] = e[x]
  PROVE  SumFunctionOnSet(f, S) = SumFunctionOnSet(e, S)
<1>1. Adds(f, S, CHOOSE g : Adds(f, S, g)) /\ Adds(e, S, CHOOSE g : Adds(e, S, g))
  BY AddsExists
<1>2. (CHOOSE g : Adds(f, S, g))[S] = (CHOOSE g : Adds(e, S, g))[S]
  BY <1>1, AddsAgree
<1>3. QED
  BY <1>2, SumDef

\* The recursion the sum obeys, in the order of CHOOSE.
LEMMA SumUnfold ==
  ASSUME NEW S, IsFiniteSet(S), NEW f
  PROVE  SumFunctionOnSet(f, S) =
           IF S = {} THEN 0
           ELSE f[Chosen(S)] + SumFunctionOnSet(f, S \ {Chosen(S)})
<1> DEFINE sub == S \ {Chosen(S)}
           g == CHOOSE k : Adds(f, S, k)
           h == CHOOSE k : Adds(f, sub, k)
<1>1. IsFiniteSet(sub) /\ sub \subseteq S
  BY FS_Subset
<1>2. Adds(f, S, g) /\ Adds(f, sub, h)
  BY <1>1, AddsExists
<1>3. SumFunctionOnSet(f, S) = g[S] /\ SumFunctionOnSet(f, sub) = h[sub]
  BY SumDef
<1> HIDE DEF g, h
<1>4. g[sub] = h[sub]
  BY <1>1, <1>2, AddsAgree
<1>5. g[S] = Body(f, g, S)
  BY <1>2 DEF Adds
<1>6. QED
  BY <1>3, <1>4, <1>5 DEF Body

\* A sum of integers is one, and any element can be taken out of it.
LEMMA SumSplit ==
  ASSUME NEW S, IsFiniteSet(S), NEW f, \A x \in S : f[x] \in Int
  PROVE  /\ SumFunctionOnSet(f, S) \in Int
         /\ \A x \in S : SumFunctionOnSet(f, S) = f[x] + SumFunctionOnSet(f, S \ {x})
<1> DEFINE Sum(T) == SumFunctionOnSet(f, T)
           Good(T) == Sum(T) \in Int /\ \A x \in T : Sum(T) = f[x] + Sum(T \ {x})
           Bad == {T \in SUBSET S : ~Good(T)}
           Order == StrictSubsetOrdering(S)
<1> SUFFICES ASSUME Bad # {} PROVE FALSE
  OBVIOUS
<1>1. PICK U \in Bad : \A V \in Bad : ~(<<V, U>> \in Order)
  <2>1. IsWellFoundedOn(Order, SUBSET S)
    BY FS_StrictSubsetOrderingWellFounded, FS_FiniteSubsetsOfFinite
  <2>2. Bad \subseteq SUBSET S
    OBVIOUS
  <2> HIDE DEF Bad, Order
  <2>3. QED
    BY <2>1, <2>2, WFMin
<1>2. \A V \in SUBSET U : V # U => Good(V)
  <2> HIDE DEF Good
  <2>1. QED
    BY <1>1 DEF StrictSubsetOrdering
<1>3. \A V \in SUBSET S : IsFiniteSet(V)
  BY FS_Subset
<1>4. ASSUME NEW V \in SUBSET S, V # {}
      PROVE  Chosen(V) \in V /\ Sum(V) = f[Chosen(V)] + Sum(V \ {Chosen(V)})
  BY <1>3, <1>4, SumUnfold DEF Chosen
<1> DEFINE c == Chosen(U)
<1>5. U # {}
  BY <1>3, SumUnfold
<1>6. c \in U /\ Sum(U) = f[c] + Sum(U \ {c})
  BY <1>4, <1>5
<1>7. Good(U \ {c})
  BY <1>2, <1>6
<1>8. Sum(U) \in Int
  BY <1>6, <1>7
<1>9. ASSUME NEW x \in U PROVE Sum(U) = f[x] + Sum(U \ {x})
  <2>1. CASE x = c
    BY <1>6, <2>1
  <2>2. CASE x # c
    <3>1. Sum(U \ {c}) = f[x] + Sum((U \ {c}) \ {x})
      BY <1>7, <2>2
    <3>2. Good(U \ {x}) /\ c \in U \ {x}
      BY <1>2, <1>6, <2>2
    <3>3. Sum(U \ {x}) = f[c] + Sum((U \ {x}) \ {c})
      BY <3>2
    <3>4. (U \ {x}) \ {c} = (U \ {c}) \ {x}
      OBVIOUS
    <3>5. Good((U \ {c}) \ {x})
      BY <1>2, <1>6
    <3>6. /\ f[x] \in Int /\ f[c] \in Int
          /\ Sum((U \ {c}) \ {x}) \in Int
      BY <1>6, <3>5
    <3>7. Sum((U \ {x}) \ {c}) = Sum((U \ {c}) \ {x})
      BY <3>4
    <3>8. \A i, j, k, m, n, p, q \in Int :
             m = i + n /\ n = j + k /\ p = i + q /\ q = k => m = j + p
      OBVIOUS
    <3>9. /\ Sum(U) \in Int /\ Sum(U \ {c}) \in Int /\ Sum(U \ {x}) \in Int
          /\ Sum((U \ {x}) \ {c}) \in Int
      BY <1>7, <1>8, <3>2, <3>6, <3>7
    <3> HIDE DEF Sum, c
    <3>10. QED
      BY <1>6, <3>1, <3>3, <3>6, <3>7, <3>8, <3>9
  <2>3. QED
    BY <2>1, <2>2
<1>10. QED
  BY <1>8, <1>9

\* Changing one value changes the sum by as much.
LEMMA SumChange ==
  ASSUME NEW S, IsFiniteSet(S), NEW f, NEW e, NEW x \in S,
         \A y \in S : f[y] \in Int /\ e[y] \in Int,
         \A y \in S \ {x} : e[y] = f[y]
  PROVE  /\ SumFunctionOnSet(f, S) \in Int
         /\ SumFunctionOnSet(e, S) = SumFunctionOnSet(f, S) + e[x] - f[x]
<1>1. IsFiniteSet(S \ {x})
  BY FS_Subset
<1>2. SumFunctionOnSet(e, S \ {x}) = SumFunctionOnSet(f, S \ {x})
  BY <1>1, SumAgree
<1>3. SumFunctionOnSet(f, S) \in Int /\ SumFunctionOnSet(f, S \ {x}) \in Int
  BY <1>1, SumSplit
<1>4. /\ SumFunctionOnSet(f, S) = f[x] + SumFunctionOnSet(f, S \ {x})
      /\ SumFunctionOnSet(e, S) = e[x] + SumFunctionOnSet(e, S \ {x})
  BY SumSplit
<1>5. QED
  BY <1>2, <1>3, <1>4

\* The sum over a single element is its value, over none it is 0.
LEMMA SumSmall ==
  ASSUME NEW f
  PROVE  /\ SumFunctionOnSet(f, {}) = 0
         /\ \A x : f[x] \in Int => SumFunctionOnSet(f, {x}) = f[x]
<1>1. SumFunctionOnSet(f, {}) = 0
  BY FS_EmptySet, SumUnfold
<1>2. ASSUME NEW x, f[x] \in Int PROVE SumFunctionOnSet(f, {x}) = f[x]
  <2>1. IsFiniteSet({x}) /\ {x} \ {x} = {}
    BY FS_Singleton
  <2>2. SumFunctionOnSet(f, {x}) = f[x] + SumFunctionOnSet(f, {x} \ {x})
    BY <1>2, <2>1, SumSplit
  <2>3. QED
    BY <1>1, <1>2, <2>1, <2>2
<1>3. QED
  BY <1>1, <1>2

\* A sum of equal values is a product.
LEMMA SumConstant ==
  ASSUME NEW S, IsFiniteSet(S), NEW k \in Int, NEW f, \A x \in S : f[x] = k
  PROVE  SumFunctionOnSet(f, S) = Cardinality(S) * k
<1> DEFINE Sum(T) == SumFunctionOnSet(f, T)
           Bad == {T \in SUBSET S : Sum(T) # Cardinality(T) * k}
           Order == StrictSubsetOrdering(S)
<1> SUFFICES ASSUME Bad # {} PROVE FALSE
  OBVIOUS
<1>1. PICK U \in Bad : \A V \in Bad : ~(<<V, U>> \in Order)
  <2>1. IsWellFoundedOn(Order, SUBSET S)
    BY FS_StrictSubsetOrderingWellFounded, FS_FiniteSubsetsOfFinite
  <2>2. Bad \subseteq SUBSET S
    OBVIOUS
  <2> HIDE DEF Bad, Order
  <2>3. QED
    BY <2>1, <2>2, WFMin
<1>2. U # {}
  <2>1. Sum({}) = 0 /\ Cardinality({}) = 0
    BY SumSmall, FS_EmptySet
  <2>2. 0 * k = 0
    OBVIOUS
  <2>3. {} \notin Bad
    BY <2>1, <2>2
  <2>4. QED
    BY <2>3
<1>3. PICK x \in U : TRUE
  BY <1>2
<1>4. IsFiniteSet(U) /\ \A y \in U : f[y] \in Int
  BY FS_Subset
<1>5. Sum(U) = k + Sum(U \ {x})
  BY <1>4, SumSplit
<1>6. Sum(U \ {x}) = Cardinality(U \ {x}) * k
  <2>1. U \ {x} \in SUBSET S /\ <<U \ {x}, U>> \in Order
    BY <1>3 DEF StrictSubsetOrdering
  <2> HIDE DEF Order
  <2>2. U \ {x} \notin Bad
    BY <1>1, <2>1
  <2>3. QED
    BY <2>1, <2>2
<1>7. Cardinality(U) \in Nat /\ Cardinality(U \ {x}) = Cardinality(U) - 1
  BY <1>3, <1>4, FS_CardinalityType, FS_RemoveElement
<1>8. (Cardinality(U) - 1) * k = Cardinality(U) * k - k
  BY <1>7
<1>9. Cardinality(U) * k \in Int
  BY <1>7
<1> DEFINE n == Cardinality(U) * k
<1>10. Sum(U) = k + (n - k) /\ n \in Int
  BY <1>5, <1>6, <1>7, <1>8, <1>9
<1>11. Sum(U) = n
  <2> HIDE DEF n, Sum
  <2>1. QED
    BY <1>10
<1>12. QED
  BY <1>11

\* A sum of zeros is 0.
LEMMA SumZero ==
  ASSUME NEW S, IsFiniteSet(S), NEW f, \A x \in S : f[x] = 0
  PROVE  SumFunctionOnSet(f, S) = 0
<1>1. SumFunctionOnSet(f, S) = Cardinality(S) * 0 /\ Cardinality(S) \in Nat
  BY SumConstant, FS_CardinalityType
<1>2. QED
  BY <1>1

\* A sum of naturals is a natural, and none of them is larger.
LEMMA SumBounds ==
  ASSUME NEW S, IsFiniteSet(S), NEW f, \A x \in S : f[x] \in Nat
  PROVE  /\ SumFunctionOnSet(f, S) \in Nat
         /\ \A x \in S : f[x] <= SumFunctionOnSet(f, S)
<1> DEFINE Sum(T) == SumFunctionOnSet(f, T)
           Bad == {T \in SUBSET S : Sum(T) \notin Nat}
           Order == StrictSubsetOrdering(S)
<1>1. Bad = {}
  <2> SUFFICES ASSUME Bad # {} PROVE FALSE
    OBVIOUS
  <2>1. PICK U \in Bad : \A V \in Bad : ~(<<V, U>> \in Order)
    <3>1. IsWellFoundedOn(Order, SUBSET S)
      BY FS_StrictSubsetOrderingWellFounded, FS_FiniteSubsetsOfFinite
    <3>2. Bad \subseteq SUBSET S
      OBVIOUS
    <3> HIDE DEF Bad, Order
    <3>3. QED
      BY <3>1, <3>2, WFMin
  <2>2. U # {}
    BY SumSmall
  <2>3. PICK x \in U : TRUE
    BY <2>2
  <2>4. Sum(U) = f[x] + Sum(U \ {x})
    <3>1. IsFiniteSet(U) /\ \A y \in U : f[y] \in Int
      BY FS_Subset
    <3>2. QED
      BY <3>1, SumSplit
  <2>5. Sum(U \ {x}) \in Nat
    <3>1. U \ {x} \in SUBSET S /\ <<U \ {x}, U>> \in Order
      BY <2>3 DEF StrictSubsetOrdering
    <3> HIDE DEF Order
    <3>2. U \ {x} \notin Bad
      BY <2>1, <3>1
    <3>3. QED
      BY <3>1, <3>2
  <2>6. QED
    BY <2>4, <2>5
<1>2. ASSUME NEW x \in S PROVE f[x] <= Sum(S)
  <2>1. Sum(S) = f[x] + Sum(S \ {x})
    BY SumSplit
  <2>2. Sum(S \ {x}) \in Nat
    BY <1>1
  <2> HIDE DEF Sum
  <2>3. QED
    BY <2>1, <2>2
<1>3. QED
  BY <1>1, <1>2

\* The subsets of a finite set, by inclusion.
LEMMA InclusionWellFounded ==
  ASSUME NEW S, IsFiniteSet(S)
  PROVE  IsWellFoundedOn(StrictSubsetOrdering(S), SUBSET S)
BY FS_StrictSubsetOrderingWellFounded, FS_FiniteSubsetsOfFinite

\* What holds of the empty set, and of a set from which an element can be taken
\* so that it holds of the rest, holds of every subset of a finite set.
LEMMA SubsetInduction ==
  ASSUME NEW S, IsFiniteSet(S), NEW T, {} \in T,
         \A U \in SUBSET S : U # {} => \E x \in U : U \ {x} \in T => U \in T
  PROVE  \A U \in SUBSET S : U \in T
<1> DEFINE Bad == {U \in SUBSET S : U \notin T}
           Order == StrictSubsetOrdering(S)
<1> SUFFICES ASSUME Bad # {} PROVE FALSE
  OBVIOUS
<1>1. PICK U \in Bad : \A V \in Bad : ~(<<V, U>> \in Order)
  <2>1. IsWellFoundedOn(Order, SUBSET S)
    BY InclusionWellFounded
  <2>2. Bad \subseteq SUBSET S
    OBVIOUS
  <2> HIDE DEF Bad, Order
  <2>3. QED
    BY <2>1, <2>2, WFMin
<1>2. U # {} /\ U \in SUBSET S /\ U \notin T
  OBVIOUS
<1>3. PICK x \in U : U \ {x} \in T => U \in T
  BY <1>2
<1>4. U \ {x} \in SUBSET S /\ <<U \ {x}, U>> \in Order
  BY <1>2, <1>3 DEF StrictSubsetOrdering
<1> HIDE DEF Order
<1>5. U \ {x} \notin Bad
  BY <1>1, <1>4
<1>6. QED
  BY <1>2, <1>3, <1>4, <1>5

\* The sums over two disjoint sets add up.
LEMMA SumUnion ==
  ASSUME NEW S, NEW R, IsFiniteSet(S), IsFiniteSet(R), S \cap R = {},
         NEW f, \A x \in S \cup R : f[x] \in Int
  PROVE  SumFunctionOnSet(f, S \cup R) = SumFunctionOnSet(f, S) + SumFunctionOnSet(f, R)
<1> DEFINE Sum(U) == SumFunctionOnSet(f, U)
           T == {U \in SUBSET R : Sum(S \cup U) = Sum(S) + Sum(U)}
<1>1. \A U \in SUBSET (S \cup R) : IsFiniteSet(U) /\ Sum(U) \in Int
  <2>1. IsFiniteSet(S \cup R)
    BY FS_Union
  <2>2. \A U \in SUBSET (S \cup R) : IsFiniteSet(U)
    BY <2>1, FS_Subset
  <2>3. QED
    BY <2>2, SumSplit
<1>2. {} \in T
  <2>1. Sum({}) = 0 /\ S \cup {} = S /\ Sum(S) \in Int
    BY <1>1, SumSmall
  <2> HIDE DEF Sum
  <2>2. QED
    BY <2>1
<1>3. ASSUME NEW U \in SUBSET R, NEW x \in U, U \ {x} \in T PROVE U \in T
  <2> DEFINE V == U \ {x}
  <2>1. Sum(S \cup V) = Sum(S) + Sum(V)
    BY <1>3
  <2>2. Sum(U) = f[x] + Sum(V)
    BY <1>1, SumSplit
  <2>3. Sum(S \cup U) = f[x] + Sum(S \cup V)
    <3>1. (S \cup U) \ {x} = S \cup V /\ x \in S \cup U
      OBVIOUS
    <3>2. Sum(S \cup U) = f[x] + Sum((S \cup U) \ {x})
      BY <1>1, <3>1, SumSplit
    <3>3. QED
      BY <3>1, <3>2
  <2>4. f[x] \in Int /\ Sum(S) \in Int /\ Sum(V) \in Int
    BY <1>1
  <2> HIDE DEF Sum, V
  <2>5. Sum(S \cup U) = Sum(S) + Sum(U)
    BY <2>1, <2>2, <2>3, <2>4
  <2>6. QED
    BY <2>5
<1>4. \A U \in SUBSET R : U \in T
  <2>1. \A U \in SUBSET R : U # {} => \E x \in U : U \ {x} \in T => U \in T
    BY <1>3
  <2> HIDE DEF T
  <2>2. QED
    BY <1>2, <2>1, SubsetInduction
<1>5. QED
  BY <1>4

\* A sum over a part of the set is one over all of it, with 0 for the others.
LEMMA SumWhere ==
  ASSUME NEW S, IsFiniteSet(S), NEW R \in SUBSET S, NEW f, \A x \in R : f[x] \in Int,
         NEW e, \A x \in S : e[x] = IF x \in R THEN f[x] ELSE 0
  PROVE  SumFunctionOnSet(e, S) = SumFunctionOnSet(f, R)
<1>1. IsFiniteSet(R) /\ IsFiniteSet(S \ R) /\ R \cup (S \ R) = S /\ R \cap (S \ R) = {}
  BY FS_Subset
<1>2. SumFunctionOnSet(e, S) = SumFunctionOnSet(e, R) + SumFunctionOnSet(e, S \ R)
  <2>1. \A x \in R \cup (S \ R) : e[x] \in Int
    OBVIOUS
  <2>2. SumFunctionOnSet(e, R \cup (S \ R))
          = SumFunctionOnSet(e, R) + SumFunctionOnSet(e, S \ R)
    BY <1>1, <2>1, SumUnion
  <2>3. QED
    BY <1>1, <2>2
<1>3. SumFunctionOnSet(e, R) = SumFunctionOnSet(f, R)
  BY <1>1, SumAgree
<1>4. SumFunctionOnSet(e, S \ R) = 0
  BY <1>1, SumZero
<1>5. SumFunctionOnSet(f, R) \in Int
  BY <1>1, SumSplit
<1>6. QED
  BY <1>2, <1>3, <1>4, <1>5

\* The sum of two functions.
LEMMA SumPlus ==
  ASSUME NEW S, IsFiniteSet(S), NEW f, NEW e, NEW h,
         \A x \in S : f[x] \in Int /\ e[x] \in Int /\ h[x] = f[x] + e[x]
  PROVE  SumFunctionOnSet(h, S) = SumFunctionOnSet(f, S) + SumFunctionOnSet(e, S)
<1> DEFINE Sum(g, U) == SumFunctionOnSet(g, U)
           T == {U \in SUBSET S : Sum(h, U) = Sum(f, U) + Sum(e, U)}
<1>1. \A U \in SUBSET S : IsFiniteSet(U)
  BY FS_Subset
<1>2. {} \in T
  BY SumSmall
<1>3. ASSUME NEW U \in SUBSET S, NEW x \in U, U \ {x} \in T PROVE U \in T
  <2> DEFINE V == U \ {x}
  <2>1. Sum(h, V) = Sum(f, V) + Sum(e, V)
    BY <1>3
  <2>2. \A y \in U : f[y] \in Int /\ e[y] \in Int /\ h[y] \in Int
    OBVIOUS
  <2>3. /\ Sum(h, U) = h[x] + Sum(h, V) /\ Sum(f, U) = f[x] + Sum(f, V)
        /\ Sum(e, U) = e[x] + Sum(e, V)
    BY <1>1, <2>2, SumSplit
  <2>4. Sum(f, V) \in Int /\ Sum(e, V) \in Int
    <3>1. IsFiniteSet(V) /\ \A y \in V : f[y] \in Int /\ e[y] \in Int
      BY <1>1
    <3>2. QED
      BY <3>1, SumSplit
  <2>5. f[x] \in Int /\ e[x] \in Int /\ h[x] = f[x] + e[x]
    OBVIOUS
  <2> HIDE DEF Sum, V
  <2>6. Sum(h, U) = Sum(f, U) + Sum(e, U)
    BY <2>1, <2>3, <2>4, <2>5
  <2>7. QED
    BY <2>6
<1>4. \A U \in SUBSET S : U \in T
  <2>1. \A U \in SUBSET S : U # {} => \E x \in U : U \ {x} \in T => U \in T
    BY <1>3
  <2> HIDE DEF T
  <2>2. QED
    BY <1>2, <2>1, SubsetInduction
<1>5. QED
  BY <1>4

\* Larger values have a larger sum.
LEMMA SumAtMost ==
  ASSUME NEW S, IsFiniteSet(S), NEW f, NEW e,
         \A x \in S : f[x] \in Int /\ e[x] \in Int /\ f[x] <= e[x]
  PROVE  SumFunctionOnSet(f, S) <= SumFunctionOnSet(e, S)
<1> DEFINE d == [x \in S |-> e[x] - f[x]]
<1>1. \A x \in S : d[x] \in Nat /\ e[x] = f[x] + d[x]
  OBVIOUS
<1> HIDE DEF d
<1>2. SumFunctionOnSet(e, S) = SumFunctionOnSet(f, S) + SumFunctionOnSet(d, S)
  BY <1>1, SumPlus
<1>3. SumFunctionOnSet(d, S) \in Nat /\ SumFunctionOnSet(f, S) \in Int
  BY <1>1, SumBounds, SumSplit
<1>4. QED
  BY <1>2, <1>3

\* A larger set has a larger sum, of naturals.
LEMMA SumSubset ==
  ASSUME NEW S, IsFiniteSet(S), NEW R \in SUBSET S, NEW f, \A x \in S : f[x] \in Nat
  PROVE  /\ SumFunctionOnSet(f, R) \in Nat
         /\ SumFunctionOnSet(f, R) <= SumFunctionOnSet(f, S)
<1>1. IsFiniteSet(R) /\ IsFiniteSet(S \ R) /\ R \cup (S \ R) = S /\ R \cap (S \ R) = {}
  BY FS_Subset
<1>2. \A x \in R \cup (S \ R) : f[x] \in Int
  OBVIOUS
<1>3. SumFunctionOnSet(f, R \cup (S \ R)) = SumFunctionOnSet(f, R) + SumFunctionOnSet(f, S \ R)
  BY <1>1, <1>2, SumUnion
<1>4. SumFunctionOnSet(f, R) \in Nat /\ SumFunctionOnSet(f, S \ R) \in Nat
  BY <1>1, SumBounds
<1> DEFINE all == SumFunctionOnSet(f, S)
           part == SumFunctionOnSet(f, R)
           rest == SumFunctionOnSet(f, S \ R)
<1>5. all = part + rest
  BY <1>1, <1>3
<1> HIDE DEF all, part, rest
<1>6. part \in Nat /\ rest \in Nat
  BY <1>4 DEF part, rest
<1>7. part \in Nat /\ part <= all
  BY <1>5, <1>6
<1>8. QED
  BY <1>7 DEF part, all

\* Those in S whose group, which n says, is in W.
Group(S, n, W) == {k \in S : n[k] \in W}

\* Of each group in W, e is the sum of f.
Grouped(e, f, S, n, W) == \A w \in W : e[w] = SumFunctionOnSet(f, Group(S, n, {w}))

\* A sum can be taken group by group.
LEMMA SumByGroup ==
  ASSUME NEW S, IsFiniteSet(S), NEW f, \A k \in S : f[k] \in Int, NEW n,
         NEW W, IsFiniteSet(W), NEW e, Grouped(e, f, S, n, W)
  PROVE  SumFunctionOnSet(e, W) = SumFunctionOnSet(f, Group(S, n, W))
<1> DEFINE In(U) == Group(S, n, U)
           T == {U \in SUBSET W : SumFunctionOnSet(e, U) = SumFunctionOnSet(f, In(U))}
<1>1. \A U \in SUBSET W : IsFiniteSet(U) /\ IsFiniteSet(In(U)) /\ In(U) \in SUBSET S
  <2>1. \A U : In(U) \in SUBSET S
    BY DEF Group
  <2> HIDE DEF In
  <2>2. QED
    BY <2>1, FS_Subset
<1>2. \A w \in W : e[w] \in Int
  <2>1. \A w \in W : IsFiniteSet(In({w})) /\ In({w}) \in SUBSET S
    BY <1>1
  <2>2. \A w \in W : e[w] = SumFunctionOnSet(f, In({w}))
    BY DEF Grouped
  <2> HIDE DEF In
  <2>3. QED
    BY <2>1, <2>2, SumSplit
<1>3. {} \in T
  <2>1. In({}) = {}
    BY DEF Group
  <2>2. QED
    BY <2>1, SumSmall
<1>4. ASSUME NEW U \in SUBSET W, NEW x \in U, U \ {x} \in T PROVE U \in T
  <2> DEFINE V == U \ {x}
  <2>1. SumFunctionOnSet(e, V) = SumFunctionOnSet(f, In(V))
    BY <1>4
  <2>2. SumFunctionOnSet(e, U) = e[x] + SumFunctionOnSet(e, V)
    <3>1. IsFiniteSet(U) /\ \A w \in U : e[w] \in Int
      BY <1>1, <1>2
    <3>2. QED
      BY <3>1, SumSplit
  <2>3. /\ In(U) = In({x}) \cup In(V) /\ In({x}) \cap In(V) = {}
        /\ \A k \in In({x}) \cup In(V) : f[k] \in Int
    BY DEF Group
  <2>4. IsFiniteSet(In({x})) /\ IsFiniteSet(In(V)) /\ In(V) \in SUBSET S
    <3>1. {x} \in SUBSET W /\ V \in SUBSET W
      BY <1>4
    <3>2. QED
      BY <1>1, <3>1
  <2>5. e[x] = SumFunctionOnSet(f, In({x}))
    BY DEF Grouped
  <2> HIDE DEF In, V
  <2>6. SumFunctionOnSet(f, In({x}) \cup In(V))
          = SumFunctionOnSet(f, In({x})) + SumFunctionOnSet(f, In(V))
    BY <2>3, <2>4, SumUnion
  <2>7. SumFunctionOnSet(e, U) = SumFunctionOnSet(f, In(U))
    BY <2>1, <2>2, <2>3, <2>5, <2>6
  <2>8. QED
    BY <2>7
<1>5. \A U \in SUBSET W : U \in T
  <2>1. \A U \in SUBSET W : U # {} => \E x \in U : U \ {x} \in T => U \in T
    BY <1>4
  <2> HIDE DEF T
  <2>2. QED
    BY <1>3, <2>1, SubsetInduction
<1>6. QED
  BY <1>5

\* The sum of e over all pairs.
PairSum(e, S) == SumFunctionOnSet([x \in S |-> SumFunctionOnSet(e[x], S)], S)

\* One more element adds its own pair, and the two it is in with each of the others.
LEMMA PairSumSplit ==
  ASSUME NEW S, IsFiniteSet(S), NEW e, \A x, y \in S : e[x][y] \in Int, NEW z \in S,
         NEW both, \A x \in S \ {z} : both[x] = e[z][x] + e[x][z]
  PROVE  /\ PairSum(e, S) = e[z][z] + SumFunctionOnSet(both, S \ {z}) + PairSum(e, S \ {z})
         /\ PairSum(e, S) \in Int /\ PairSum(e, S \ {z}) \in Int
         /\ SumFunctionOnSet(both, S \ {z}) \in Int
<1> DEFINE Sum(f, U) == SumFunctionOnSet(f, U)
           R == S \ {z}
           f == [x \in S |-> Sum(e[x], S)]
           h == [x \in R |-> Sum(e[x], R)]
           to == [x \in R |-> e[x][z]]
<1>1. IsFiniteSet(R) /\ R \in SUBSET S
  BY FS_Subset
<1>2. ASSUME NEW x \in S
      PROVE  /\ Sum(e[x], S) = e[x][z] + Sum(e[x], R)
             /\ Sum(e[x], S) \in Int /\ Sum(e[x], R) \in Int
  <2>1. \A y \in S : e[x][y] \in Int
    OBVIOUS
  <2>2. Sum(e[x], S) \in Int /\ Sum(e[x], S) = e[x][z] + Sum(e[x], R)
    BY <2>1, SumSplit
  <2>3. Sum(e[x], R) \in Int
    BY <1>1, <2>1, SumSplit
  <2>4. QED
    BY <2>2, <2>3
<1>3. /\ \A x \in S : f[x] = Sum(e[x], S) /\ f[x] \in Int
      /\ \A x \in R : /\ h[x] = Sum(e[x], R) /\ h[x] \in Int
                      /\ to[x] = e[x][z] /\ to[x] \in Int /\ e[z][x] \in Int
                      /\ f[x] = to[x] + h[x] /\ both[x] = e[z][x] + to[x] /\ both[x] \in Int
  <2>1. \A x \in S : f[x] = Sum(e[x], S) /\ f[x] \in Int
    BY <1>2
  <2>2. \A x \in R : /\ h[x] = Sum(e[x], R) /\ h[x] \in Int
                     /\ f[x] = e[x][z] + h[x]
    BY <1>1, <1>2
  <2>3. \A x \in R : to[x] = e[x][z] /\ to[x] \in Int /\ e[z][x] \in Int
    OBVIOUS
  <2>4. \A x \in R : both[x] = e[z][x] + to[x]
    BY <2>3
  <2> HIDE DEF f, h, to, R
  <2>5. \A x \in R : f[x] = to[x] + h[x] /\ both[x] \in Int
    BY <2>2, <2>3, <2>4
  <2>6. QED
    BY <2>1, <2>2, <2>3, <2>4, <2>5
<1>4. PairSum(e, S) = Sum(f, S) /\ PairSum(e, R) = Sum(h, R)
  BY DEF PairSum
<1> HIDE DEF f, h, to
<1>5. Sum(f, S) = f[z] + Sum(f, R) /\ Sum(f, S) \in Int
  <2>1. \A x \in S : f[x] \in Int
    BY <1>3
  <2>2. SumFunctionOnSet(f, S) = f[z] + SumFunctionOnSet(f, S \ {z})
    BY <2>1, SumSplit
  <2>3. SumFunctionOnSet(f, S) \in Int
    BY <2>1, SumSplit
  <2>4. QED
    BY <2>2, <2>3
<1>6. Sum(f, R) = Sum(to, R) + Sum(h, R)
  BY <1>1, <1>3, SumPlus
<1>7. Sum(both, R) = Sum(e[z], R) + Sum(to, R)
  BY <1>1, <1>3, SumPlus
<1>8. f[z] = e[z][z] + Sum(e[z], R) /\ Sum(e[z], R) \in Int /\ e[z][z] \in Int
  BY <1>2, <1>3
<1>9. Sum(to, R) \in Int /\ Sum(h, R) \in Int /\ Sum(both, R) \in Int
  BY <1>1, <1>3, SumSplit
<1> HIDE DEF Sum, R
<1>10. Sum(f, S) = e[z][z] + Sum(both, R) + Sum(h, R)
  BY <1>5, <1>6, <1>7, <1>8, <1>9
<1>11. QED
  BY <1>4, <1>5, <1>9, <1>10 DEF Sum, R

\* If e is at least r on each pair taken both ways, it is so on all of them.
LEMMA PairSumAtLeast ==
  ASSUME NEW S, IsFiniteSet(S), NEW e, NEW r,
         \A x, y \in S : e[x][y] \in Int /\ r[x][y] \in Int,
         \A x, y \in S : r[x][y] + r[y][x] <= e[x][y] + e[y][x]
  PROVE  PairSum(r, S) <= PairSum(e, S)
<1> DEFINE T == {U \in SUBSET S : PairSum(r, U) <= PairSum(e, U)}
<1>1. {} \in T
  <2>1. PairSum(r, {}) = 0 /\ PairSum(e, {}) = 0
    BY SumSmall DEF PairSum
  <2>2. QED
    BY <2>1
<1>2. ASSUME NEW U \in SUBSET S, NEW z \in U, U \ {z} \in T PROVE U \in T
  <2> DEFINE V == U \ {z}
             eBoth == [x \in V |-> e[z][x] + e[x][z]]
             rBoth == [x \in V |-> r[z][x] + r[x][z]]
  <2>1. IsFiniteSet(U) /\ IsFiniteSet(V)
    BY FS_Subset
  <2>2. /\ \A x, y \in U : e[x][y] \in Int /\ r[x][y] \in Int
        /\ \A x \in V : eBoth[x] = e[z][x] + e[x][z] /\ rBoth[x] = r[z][x] + r[x][z]
        /\ \A x \in V : rBoth[x] \in Int /\ eBoth[x] \in Int /\ rBoth[x] <= eBoth[x]
    OBVIOUS
  <2>3. r[z][z] <= e[z][z] /\ e[z][z] \in Int /\ r[z][z] \in Int
    <3>1. /\ e[z][z] \in Int /\ r[z][z] \in Int
          /\ r[z][z] + r[z][z] <= e[z][z] + e[z][z]
      OBVIOUS
    <3>2. QED
      BY <3>1
  <2> HIDE DEF eBoth, rBoth
  <2>4. /\ PairSum(e, U) = e[z][z] + SumFunctionOnSet(eBoth, V) + PairSum(e, V)
        /\ PairSum(e, U) \in Int /\ PairSum(e, V) \in Int
        /\ SumFunctionOnSet(eBoth, V) \in Int
    BY <2>1, <2>2, PairSumSplit
  <2>5. /\ PairSum(r, U) = r[z][z] + SumFunctionOnSet(rBoth, V) + PairSum(r, V)
        /\ PairSum(r, U) \in Int /\ PairSum(r, V) \in Int
        /\ SumFunctionOnSet(rBoth, V) \in Int
    BY <2>1, <2>2, PairSumSplit
  <2>6. SumFunctionOnSet(rBoth, V) <= SumFunctionOnSet(eBoth, V)
    BY <2>1, <2>2, SumAtMost
  <2>7. PairSum(r, V) <= PairSum(e, V)
    BY <1>2
  <2> HIDE DEF V
  <2>8. PairSum(r, U) <= PairSum(e, U)
    BY <2>3, <2>4, <2>5, <2>6, <2>7
  <2>9. QED
    BY <2>8
<1>3. \A U \in SUBSET S : U \in T
  <2>1. \A U \in SUBSET S : U # {} => \E x \in U : U \ {x} \in T => U \in T
    BY <1>2
  <2> HIDE DEF T
  <2>2. QED
    BY <1>1, <2>1, SubsetInduction
<1>4. QED
  BY <1>3
=============================================================================
