-------------------------------- MODULE Sums --------------------------------
(***************************************************************************)
(* What SumFunctionOnSet of the community module Functions computes: facts *)
(* about the sum of a function over a finite set, for the proofs about     *)
(* totals and balances.  They hold whatever order the sum is taken in.     *)
(*                                                                         *)
(* The library's induction theorems have an operator as a parameter, which *)
(* no prover here can instantiate.  An induction is a least counterexample *)
(* instead: WFMin, on the naturals or on the subsets of the set.           *)
(***************************************************************************)
EXTENDS Integers, FiniteSets, Functions, FiniteSetTheorems, WellFoundedInduction, TLAPS

\* What any sum is computed from: an element, and the sum of the others.
Pick(s) == CHOOSE x \in s : TRUE

\* g is computed so on every set of D.
Adds(g, f, D) ==
  g = [s \in D |-> IF s = {} THEN 0 ELSE f[Pick(s)] + g[s \ {Pick(s)}]]

\* g adds f up over the subsets of S.
AddsUp(g, f, S) == Adds(g, f, SUBSET S)

\* A set of naturals has a least element.
LEMMA LeastNat ==
  ASSUME NEW A, A \subseteq Nat, A # {}
  PROVE  \E m \in A : \A n \in A : m <= n
<1>1. PICK m \in A : \A n \in A : ~(<<n, m>> \in OpToRel(<, Nat))
  BY WFMin, NatLessThanWellFounded
<1>2. \A n \in A : <<n, m>> \in Nat \X Nat /\ <<n, m>>[1] = n /\ <<n, m>>[2] = m
  BY Zenon
<1>3. \A n \in A : ~(n < m)
  BY <1>1, <1>2, Zenon DEF OpToRel
<1> QED BY <1>3

\* The definition of the community module, written out.
LEMMA SumUnfolds ==
  ASSUME NEW f, NEW S
  PROVE  SumFunctionOnSet(f, S) = (CHOOSE g : Adds(g, f, SUBSET S))[S]
  BY Zenon DEF SumFunctionOnSet, FoldFunctionOnSet, MapThenFoldSet, Adds, Pick

\* The sets of at most n elements.
Upto(S, n) == {s \in SUBSET S : Cardinality(s) <= n}

\* The element that is picked is one.
LEMMA PickIn == \A s : s # {} => Pick(s) \in s
  BY DEF Pick

\* Without it a set has one element less.
LEMMA SmallerIn ==
  ASSUME NEW S, IsFiniteSet(S), NEW n \in Nat, NEW s \in Upto(S, n + 1), s # {}
  PROVE  s \ {Pick(s)} \in Upto(S, n)
<1>1. IsFiniteSet(s) /\ Cardinality(s) \in Nat
  BY FS_Subset, FS_CardinalityType DEF Upto
<1>2. Pick(s) \in s
  BY PickIn
<1>3. Cardinality(s \ {Pick(s)}) = Cardinality(s) - 1
  BY <1>1, <1>2, FS_RemoveElement
<1> QED BY <1>1, <1>3 DEF Upto

\* The recursion has a solution on the sets of at most n elements, for every n.
LEMMA SumExists ==
  ASSUME NEW f, NEW S, IsFiniteSet(S)
  PROVE  \A n \in Nat : \E g : Adds(g, f, Upto(S, n))
<1> DEFINE Bad == {n \in Nat : ~ \E g : Adds(g, f, Upto(S, n))}
<1> SUFFICES ASSUME Bad # {} PROVE FALSE
  OBVIOUS
<1>1. PICK n \in Bad : \A k \in Bad : n <= k
  BY LeastNat
<1>2. CASE n = 0
  <2>1. Upto(S, 0) = {{}}
    <3>1. \A s \in SUBSET S : Cardinality(s) \in Nat /\ (Cardinality(s) = 0 <=> s = {})
      BY FS_EmptySet, FS_Subset, FS_CardinalityType
    <3> QED BY <3>1 DEF Upto
  <2>2. Adds([s \in Upto(S, 0) |-> 0], f, Upto(S, 0))
    BY <2>1 DEF Adds
  <2> QED BY <1>2, <2>2
<1>3. CASE n # 0
  <2>1. n - 1 \in Nat /\ n - 1 \notin Bad /\ (n - 1) + 1 = n
    BY <1>1, <1>3
  <2>2. PICK g : Adds(g, f, Upto(S, n - 1))
    BY <2>1
  <2> DEFINE h == [s \in Upto(S, n) |->
                     IF s \in Upto(S, n - 1) THEN g[s] 
                     ELSE IF s = {} THEN 0 ELSE f[Pick(s)] + g[s \ {Pick(s)}]]
  <2>3. \A s \in Upto(S, n) : s # {} => s \ {Pick(s)} \in Upto(S, n - 1)
    BY <2>1, SmallerIn
  <2>4. Upto(S, n - 1) \subseteq Upto(S, n)
    <3>1. \A s \in SUBSET S : Cardinality(s) \in Nat
      BY FS_Subset, FS_CardinalityType
    <3> QED BY <1>1, <3>1 DEF Upto
  <2>5. ASSUME NEW s \in Upto(S, n)
        PROVE  h[s] = IF s = {} THEN 0 ELSE f[Pick(s)] + h[s \ {Pick(s)}]
    BY <2>2, <2>3, <2>4 DEF Adds
  <2>6. Adds(h, f, Upto(S, n))
    BY <2>5 DEF Adds
  <2> QED BY <2>6
<1> QED BY <1>2, <1>3

\* So it has one on all subsets, and CHOOSE finds it.
LEMMA SumComputed ==
  ASSUME NEW f, NEW S, IsFiniteSet(S)
  PROVE  Adds(CHOOSE g : Adds(g, f, SUBSET S), f, SUBSET S)
<1>1. Cardinality(S) \in Nat /\ Upto(S, Cardinality(S)) = SUBSET S
  BY FS_Subset, FS_CardinalityType DEF Upto
<1>2. \E g : Adds(g, f, Upto(S, Cardinality(S)))
  BY <1>1, SumExists
<1>3. \E g : Adds(g, f, SUBSET S)
  BY <1>1, <1>2
<1> QED BY <1>3, Zenon

\* Two computations agree where both are defined.
LEMMA SumsAgree ==
  ASSUME NEW f, NEW S, IsFiniteSet(S), NEW T \in SUBSET S, NEW g, NEW h,
         AddsUp(g, f, S), AddsUp(h, f, T)
  PROVE  g[T] = h[T]
<1> DEFINE Bad == {s \in SUBSET T : g[s] # h[s]}
<1> SUFFICES ASSUME Bad # {} PROVE FALSE
  OBVIOUS
<1>1. IsFiniteSet(T) /\ FiniteSubsetsOf(T) = SUBSET T
  BY FS_Subset, FS_FiniteSubsetsOfFinite
<1>2. PICK s \in Bad : \A t \in Bad : <<t, s>> \notin StrictSubsetOrdering(T)
  <2>1. IsWellFoundedOn(StrictSubsetOrdering(T), SUBSET T) /\ Bad \subseteq SUBSET T
    BY <1>1, FS_StrictSubsetOrderingWellFounded
  <2> HIDE DEF Bad
  <2> QED BY <2>1, WFMin
<1>3. s # {}
  BY DEF Adds, AddsUp
<1>4. s \ {Pick(s)} \in SUBSET T /\ s \ {Pick(s)} \notin Bad
  BY <1>2, <1>3, PickIn DEF StrictSubsetOrdering
<1> QED BY <1>3, <1>4 DEF Adds, AddsUp

\* A sum is the value of such a computation.
LEMMA SumUnique ==
  ASSUME NEW f, NEW S, IsFiniteSet(S)
  PROVE  \E g : AddsUp(g, f, S) /\ SumFunctionOnSet(f, S) = g[S]
  BY SumUnfolds, SumComputed DEF AddsUp

\* The sum over the empty set.
LEMMA SumEmpty == ASSUME NEW f PROVE SumFunctionOnSet(f, {}) = 0
<1>1. PICK g : AddsUp(g, f, {}) /\ SumFunctionOnSet(f, {}) = g[{}]
  BY SumUnique, FS_EmptySet
<1>2. g[{}] = 0
  BY <1>1 DEF Adds, AddsUp
<1> QED BY <1>1, <1>2

\* A sum is the picked element and the sum of the others.
LEMMA SumPick ==
  ASSUME NEW f, NEW S, IsFiniteSet(S), S # {}
  PROVE  SumFunctionOnSet(f, S) = f[Pick(S)] + SumFunctionOnSet(f, S \ {Pick(S)})
<1>t. PICK T : T = S \ {Pick(S)}
  OBVIOUS
<1>1. T \in SUBSET S /\ IsFiniteSet(T)
  BY <1>t, FS_Subset
<1>g. PICK g : AddsUp(g, f, S) /\ SumFunctionOnSet(f, S) = g[S]
  BY SumUnique
<1>h. PICK h : AddsUp(h, f, T) /\ SumFunctionOnSet(f, T) = h[T]
  BY <1>1, SumUnique
<1>2. g[T] = h[T]
  BY <1>1, <1>g, <1>h, SumsAgree
<1>3. g[S] = f[Pick(S)] + g[T]
  BY <1>t, <1>1, <1>g DEF Adds, AddsUp
<1> QED BY <1>t, <1>g, <1>h, <1>2, <1>3

\* A proper subset that refutes something has a least one that does.
LEMMA LeastSubset ==
  ASSUME NEW S, IsFiniteSet(S), NEW Bad, Bad \subseteq SUBSET S, Bad # {}
  PROVE  \E T \in Bad : \A U \in Bad : U \subseteq T => U = T
<1>1. IsWellFoundedOn(StrictSubsetOrdering(S), SUBSET S)
  BY FS_FiniteSubsetsOfFinite, FS_StrictSubsetOrderingWellFounded
<1>2. PICK T \in Bad : \A U \in Bad : <<U, T>> \notin StrictSubsetOrdering(S)
  BY <1>1, WFMin
<1> QED BY <1>2 DEF StrictSubsetOrdering

\* The summands are integers.
Integral(f, S) == \A x \in S : f[x] \in Int

\* A sum of integers is an integer, and any element can be taken out of it first.
LEMMA SumRemoves ==
  ASSUME NEW f, NEW S, IsFiniteSet(S), Integral(f, S)
  PROVE  /\ SumFunctionOnSet(f, S) \in Int
         /\ \A x \in S : SumFunctionOnSet(f, S) = f[x] + SumFunctionOnSet(f, S \ {x})
<1> DEFINE Good(T) ==
             /\ SumFunctionOnSet(f, T) \in Int
             /\ \A x \in T : SumFunctionOnSet(f, T) = f[x] + SumFunctionOnSet(f, T \ {x})
           Bad == {T \in SUBSET S : ~Good(T)}
<1> SUFFICES ASSUME Bad # {} PROVE FALSE
  BY DEF Bad
<1>1. PICK T \in Bad : \A U \in Bad : U \subseteq T => U = T
  <2> HIDE DEF Bad
  <2>1. Bad \subseteq SUBSET S
    BY DEF Bad
  <2> QED BY <2>1, LeastSubset
<1>2. \A U \in SUBSET T : U # T => Good(U)
  BY <1>1
<1>3. T # {} /\ IsFiniteSet(T) /\ ~Good(T) /\ T \subseteq S
  <2>1. T # {}
    <3>1. Good({})
      BY SumEmpty
    <3>2. ~Good(T)
      OBVIOUS
    <3> QED BY <3>1, <3>2
  <2> QED BY <2>1, FS_Subset
<1> DEFINE y == Pick(T)
<1>4. y \in T /\ SumFunctionOnSet(f, T) = f[y] + SumFunctionOnSet(f, T \ {y})
  BY <1>3, SumPick, PickIn
<1> HIDE DEF y
<1>5. f[y] \in Int /\ Good(T \ {y})
  BY <1>2, <1>3, <1>4 DEF Integral
<1>6. SumFunctionOnSet(f, T) \in Int
  BY <1>4, <1>5
<1>7. ASSUME NEW x \in T
      PROVE  SumFunctionOnSet(f, T) = f[x] + SumFunctionOnSet(f, T \ {x})
  <2>1. CASE x = y
    BY <1>4, <2>1
  <2>2. CASE x # y
    <3>1. Good(T \ {x}) /\ f[x] \in Int
      BY <1>2, <1>3 DEF Integral
    <3>2. (T \ {x}) \ {y} = (T \ {y}) \ {x}
      OBVIOUS
    <3>3. Good((T \ {y}) \ {x})
      BY <1>2, <1>4
    <3>4. SumFunctionOnSet(f, T \ {x}) = f[y] + SumFunctionOnSet(f, (T \ {x}) \ {y})
      BY <1>4, <2>2, <3>1
    <3>5. SumFunctionOnSet(f, T \ {y}) = f[x] + SumFunctionOnSet(f, (T \ {y}) \ {x})
      BY <1>5, <2>2
    <3>6. SumFunctionOnSet(f, (T \ {y}) \ {x}) \in Int
      BY <3>3
    <3>7. SumFunctionOnSet(f, T) = f[y] + (f[x] + SumFunctionOnSet(f, (T \ {y}) \ {x}))
      BY <1>4, <3>5
    <3>8. SumFunctionOnSet(f, T \ {x}) = f[y] + SumFunctionOnSet(f, (T \ {y}) \ {x})
      BY <3>2, <3>4
    <3> HIDE DEF Good, Bad
    <3> QED BY <1>5, <3>1, <3>6, <3>7, <3>8
  <2> QED BY <2>1, <2>2
<1> QED BY <1>3, <1>6, <1>7

\* Functions that agree on a set have the same sum over it.
LEMMA SumCongruent ==
  ASSUME NEW f, NEW g, NEW S, IsFiniteSet(S), \A x \in S : f[x] = g[x]
  PROVE  SumFunctionOnSet(f, S) = SumFunctionOnSet(g, S)
<1> DEFINE Bad == {T \in SUBSET S : SumFunctionOnSet(f, T) # SumFunctionOnSet(g, T)}
<1> SUFFICES ASSUME Bad # {} PROVE FALSE
  BY DEF Bad
<1>1. PICK T \in Bad : \A U \in Bad : U \subseteq T => U = T
  <2> HIDE DEF Bad
  <2>1. Bad \subseteq SUBSET S
    BY DEF Bad
  <2> QED BY <2>1, LeastSubset
<1>2. T # {} /\ IsFiniteSet(T) /\ T \subseteq S
  <2>1. T # {}
    BY SumEmpty
  <2> QED BY <2>1, FS_Subset
<1>3. Pick(T) \in T
  BY <1>2, PickIn
<1>4. SumFunctionOnSet(f, T \ {Pick(T)}) = SumFunctionOnSet(g, T \ {Pick(T)})
  BY <1>1, <1>2, <1>3
<1> QED BY <1>2, <1>3, <1>4, SumPick

\* An element more.
LEMMA SumAdds ==
  ASSUME NEW f, NEW S, IsFiniteSet(S), NEW x, x \notin S, Integral(f, S \cup {x})
  PROVE  SumFunctionOnSet(f, S \cup {x}) = f[x] + SumFunctionOnSet(f, S)
<1>1. (S \cup {x}) \ {x} = S
  OBVIOUS
<1> QED BY <1>1, FS_AddElement, SumRemoves

\* The sum over one element.
LEMMA SumSingle ==
  ASSUME NEW f, NEW x
  PROVE  SumFunctionOnSet(f, {x}) = f[x] + 0
<1>1. Pick({x}) = x /\ {x} \ {x} = {}
  BY PickIn
<1>2. IsFiniteSet({x}) /\ {x} # {}
  BY FS_Singleton
<1>3. SumFunctionOnSet(f, {x}) = f[Pick({x})] + SumFunctionOnSet(f, {x} \ {Pick({x})})
  BY <1>2, SumPick
<1> QED BY <1>1, <1>3, SumEmpty

\* Two functions that differ at one place.
LEMMA SumChanges ==
  ASSUME NEW f, NEW g, NEW S, IsFiniteSet(S), Integral(f, S), Integral(g, S),
         NEW x \in S, \A y \in S \ {x} : f[y] = g[y]
  PROVE  SumFunctionOnSet(g, S) = SumFunctionOnSet(f, S) - f[x] + g[x]
<1> DEFINE rest == S \ {x}
<1>1. IsFiniteSet(rest) /\ Integral(f, rest)
  BY FS_RemoveElement DEF Integral
<1>2. SumFunctionOnSet(f, rest) = SumFunctionOnSet(g, rest) /\ SumFunctionOnSet(f, rest) \in Int
  BY <1>1, SumCongruent, SumRemoves
<1>3. /\ SumFunctionOnSet(f, S) = f[x] + SumFunctionOnSet(f, rest)
      /\ SumFunctionOnSet(g, S) = g[x] + SumFunctionOnSet(g, rest)
      /\ f[x] \in Int /\ g[x] \in Int
  BY SumRemoves DEF Integral
<1> QED BY <1>2, <1>3

\* The sum of the negated values.
LEMMA SumNegates ==
  ASSUME NEW f, NEW g, NEW S, IsFiniteSet(S), Integral(f, S), \A x \in S : g[x] = -f[x]
  PROVE  SumFunctionOnSet(g, S) = -SumFunctionOnSet(f, S)
<1> DEFINE Bad == {T \in SUBSET S : SumFunctionOnSet(g, T) # -SumFunctionOnSet(f, T)}
<1> SUFFICES ASSUME Bad # {} PROVE FALSE
  BY DEF Bad
<1>1. PICK T \in Bad : \A U \in Bad : U \subseteq T => U = T
  <2> HIDE DEF Bad
  <2>1. Bad \subseteq SUBSET S
    BY DEF Bad
  <2> QED BY <2>1, LeastSubset
<1>2. T # {} /\ IsFiniteSet(T) /\ T \subseteq S
  <2>1. T # {}
    BY SumEmpty
  <2> QED BY <2>1, FS_Subset
<1> DEFINE x == Pick(T)
           rest == T \ {x}
<1>3. x \in T /\ f[x] \in Int /\ g[x] = -f[x] /\ IsFiniteSet(rest) /\ Integral(f, rest)
  BY <1>2, PickIn, FS_RemoveElement DEF Integral
<1>4. /\ SumFunctionOnSet(g, rest) = -SumFunctionOnSet(f, rest)
      /\ SumFunctionOnSet(f, rest) \in Int
  BY <1>1, <1>2, <1>3, SumRemoves
<1>5. /\ SumFunctionOnSet(f, T) = f[x] + SumFunctionOnSet(f, rest)
      /\ SumFunctionOnSet(g, T) = g[x] + SumFunctionOnSet(g, rest)
  BY <1>2, SumPick
<1>6. SumFunctionOnSet(g, T) # -SumFunctionOnSet(f, T)
  OBVIOUS
<1> HIDE DEF x, rest, Bad
<1> QED BY <1>3, <1>4, <1>5, <1>6

\* A set of at most one element.
LEMMA AtMostOne ==
  ASSUME NEW S, IsFiniteSet(S), Cardinality(S) <= 1, NEW x \in S, NEW y \in S
  PROVE  x = y
<1> SUFFICES ASSUME x # y PROVE FALSE
  OBVIOUS
<1>1. /\ IsFiniteSet(S \ {x}) /\ Cardinality(S \ {x}) = Cardinality(S) - 1
      /\ IsFiniteSet((S \ {x}) \ {y}) /\ Cardinality((S \ {x}) \ {y}) = Cardinality(S \ {x}) - 1
  BY FS_RemoveElement
<1>2. Cardinality(S) \in Nat /\ Cardinality((S \ {x}) \ {y}) \in Nat
  BY <1>1, FS_CardinalityType
<1> QED BY <1>1, <1>2

\* A sum of zeros.
LEMMA SumOfZeros ==
  ASSUME NEW S, IsFiniteSet(S)
  PROVE  SumFunctionOnSet([x \in S |-> 0], S) = 0
<1> DEFINE f == [x \in S |-> 0]
           Bad == {T \in SUBSET S : SumFunctionOnSet(f, T) # 0}
<1>0. \A x \in S : f[x] = 0
  OBVIOUS
<1> HIDE DEF f
<1> SUFFICES ASSUME Bad # {} PROVE FALSE
  BY DEF f
<1>1. PICK T \in Bad : \A U \in Bad : U \subseteq T => U = T
  <2>1. Bad \subseteq SUBSET S
    OBVIOUS
  <2> HIDE DEF Bad
  <2> QED BY <2>1, LeastSubset
<1>2. T # {} /\ IsFiniteSet(T)
  BY <1>1, SumEmpty, FS_Subset
<1>3. PICK x \in T : x = Pick(T)
  BY <1>2, PickIn
<1>4. SumFunctionOnSet(f, T) = f[x] + SumFunctionOnSet(f, T \ {x})
  BY <1>2, <1>3, SumPick
<1>5. SumFunctionOnSet(f, T \ {x}) = 0
  BY <1>1
<1>6. f[x] = 0
  BY <1>0, <1>1
<1> QED BY <1>1, <1>4, <1>5, <1>6

\* A sum of numbers that are not negative.
LEMMA SumNonNegative ==
  ASSUME NEW f, NEW S, IsFiniteSet(S), \A x \in S : f[x] \in Int /\ f[x] >= 0
  PROVE  SumFunctionOnSet(f, S) \in Int /\ SumFunctionOnSet(f, S) >= 0
<1> DEFINE Bad == {T \in SUBSET S : ~(SumFunctionOnSet(f, T) >= 0)}
<1>0. SumFunctionOnSet(f, S) \in Int
  BY SumRemoves DEF Integral
<1> SUFFICES ASSUME Bad # {} PROVE FALSE
  BY <1>0 DEF Bad
<1>1. PICK T \in Bad : \A U \in Bad : U \subseteq T => U = T
  <2> HIDE DEF Bad
  <2>1. Bad \subseteq SUBSET S
    BY DEF Bad
  <2> QED BY <2>1, LeastSubset
<1>2. T # {} /\ IsFiniteSet(T) /\ T \subseteq S
  <2>1. T # {}
    BY SumEmpty
  <2> QED BY <2>1, FS_Subset
<1>3. PICK x \in T : x = Pick(T)
  BY <1>2, PickIn
<1>4. SumFunctionOnSet(f, T) = f[x] + SumFunctionOnSet(f, T \ {x})
  BY <1>2, <1>3, SumPick
<1>5. SumFunctionOnSet(f, T \ {x}) \in Int /\ SumFunctionOnSet(f, T \ {x}) >= 0
  <2>1. IsFiniteSet(T \ {x}) /\ Integral(f, T \ {x})
    BY <1>2, FS_Subset DEF Integral
  <2>2. SumFunctionOnSet(f, T \ {x}) >= 0
    BY <1>1, <1>2
  <2> QED BY <2>1, <2>2, SumRemoves
<1>6. f[x] \in Int /\ f[x] >= 0 /\ ~(SumFunctionOnSet(f, T) >= 0)
  BY <1>1, <1>2
<1> HIDE DEF Bad
<1> QED BY <1>4, <1>5, <1>6
=============================================================================
