------------------------------- MODULE SumProofs -------------------------------
(***************************************************************************)
(* Sums over finite sets of buyers, for every set and every amounts.       *)
(***************************************************************************)
EXTENDS Functions, FiniteSetTheorems, Integers, TLAPS, WellFoundedInduction

\* The units that the elements of S own under f: as many of each element as f
\* says. The sum of f over S is their number.
Units(f, S) == UNION {{u} \X (1 .. f[u]) : u \in S}

\* The recursion that defines the sum, as a condition on a function.
Sums(f, S, g) ==
  g = [T \in SUBSET S |->
         IF T = {} THEN 0
         ELSE LET x == CHOOSE x \in T : TRUE IN f[x] + g[T \ {x}]]

LEMMA SumIsChosen ==
  ASSUME NEW f, NEW S
  PROVE  SumFunctionOnSet(f, S) = (CHOOSE g : Sums(f, S, g))[S]
  BY DEF SumFunctionOnSet, FoldFunctionOnSet, MapThenFoldSet, Sums

\* Taking an element out of a set takes its units out.
LEMMA UnitsOfOneMore ==
  ASSUME NEW f, NEW S, NEW x \in S, f[x] \in Nat,
         IsFiniteSet(Units(f, S \ {x}))
  PROVE  /\ IsFiniteSet(Units(f, S))
         /\ Cardinality(Units(f, S)) = f[x] + Cardinality(Units(f, S \ {x}))
  <1> DEFINE one == {x} \X (1 .. f[x])
             rest == Units(f, S \ {x})
  <1>1. Units(f, S) = one \cup rest
    BY DEF Units
  <1>2. one \cap rest = {}
    BY DEF Units
  <1>3. IsFiniteSet(1 .. f[x]) /\ Cardinality(1 .. f[x]) = f[x]
    BY FS_Interval
  <1>4. IsFiniteSet({x}) /\ Cardinality({x}) = 1
    BY FS_Singleton
  <1>5. IsFiniteSet(one) /\ Cardinality(one) = 1 * f[x]
    <2> DEFINE count == 1 .. f[x]
               it == {x}
    <2>1. IsFiniteSet(count) /\ Cardinality(count) = f[x]
      BY <1>3
    <2>2. IsFiniteSet(it) /\ Cardinality(it) = 1
      BY <1>4
    <2> HIDE DEF count, it
    <2>3. /\ IsFiniteSet(it \X count)
          /\ Cardinality(it \X count) = 1 * f[x]
      BY <2>1, <2>2, FS_Product
    <2> QED
      BY <2>3 DEF count, it
  <1>6. IsFiniteSet(rest) /\ Cardinality(rest) \in Nat
    BY FS_CardinalityType
  <1> HIDE DEF one, rest
  <1>7. /\ IsFiniteSet(one \cup rest)
        /\ Cardinality(one \cup rest)
             = Cardinality(one) + Cardinality(rest) - Cardinality(one \cap rest)
    BY <1>5, <1>6, FS_Union
  <1>8. Cardinality(one \cap rest) = 0
    BY <1>2, FS_EmptySet
  <1> QED
    BY <1>1, <1>5, <1>6, <1>7, <1>8 DEF rest

\* Among bad subsets of a finite set there is a smallest one: take any element
\* away from it and what is left is not bad.
LEMMA SmallestOf ==
  ASSUME NEW S, IsFiniteSet(S), NEW Bad, Bad \subseteq SUBSET S, Bad # {}
  PROVE  \E T \in Bad : \A x \in T : T \ {x} \notin Bad
  <1>1. FiniteSubsetsOf(S) = SUBSET S
    BY FS_FiniteSubsetsOfFinite
  <1>2. IsWellFoundedOn(StrictSubsetOrdering(S), SUBSET S)
    BY <1>1, FS_StrictSubsetOrderingWellFounded
  <1>3. PICK T \in Bad : \A U \in Bad : <<U, T>> \notin StrictSubsetOrdering(S)
    BY <1>2, WFMin
  <1>4. ASSUME NEW x \in T
        PROVE  T \ {x} \notin Bad
    BY <1>3, <1>4 DEF StrictSubsetOrdering
  <1> QED
    BY <1>4

\* The units of finitely many elements are finitely many.
LEMMA UnitsFinite ==
  ASSUME NEW f, NEW S, IsFiniteSet(S), \A x \in S : f[x] \in Nat
  PROVE  \A T \in SUBSET S : IsFiniteSet(Units(f, T))
  <1> DEFINE Bad == {T \in SUBSET S : ~IsFiniteSet(Units(f, T))}
  <1>1. SUFFICES ASSUME Bad # {} PROVE FALSE
    OBVIOUS
  <1>2. PICK T \in Bad : \A x \in T : T \ {x} \notin Bad
    <2> HIDE DEF Bad
    <2>1. Bad \subseteq SUBSET S
      BY DEF Bad
    <2> QED
      BY <1>1, <2>1, SmallestOf
  <1>3. CASE T = {}
    <2>1. Units(f, {}) = {}
      BY DEF Units
    <2> QED
      BY <1>2, <1>3, <2>1, FS_EmptySet
  <1>4. CASE T # {}
    <2>1. PICK x \in T : TRUE
      BY <1>4
    <2>2. T \in SUBSET S /\ IsFiniteSet(Units(f, T \ {x}))
      BY <1>2, <2>1
    <2>3. IsFiniteSet(Units(f, T))
      BY <2>1, <2>2, UnitsOfOneMore
    <2> QED
      BY <1>2, <2>3
  <1> QED
    BY <1>3, <1>4

\* Counting units solves the recursion.
LEMMA CountingSums ==
  ASSUME NEW f, NEW S, IsFiniteSet(S), \A x \in S : f[x] \in Nat
  PROVE  Sums(f, S, [T \in SUBSET S |-> Cardinality(Units(f, T))])
  <1> DEFINE g == [T \in SUBSET S |-> Cardinality(Units(f, T))]
  <1>1. ASSUME NEW T \in SUBSET S
        PROVE  g[T] = IF T = {} THEN 0
                      ELSE LET x == CHOOSE x \in T : TRUE
                           IN  f[x] + g[T \ {x}]
    <2>1. CASE T = {}
      <3>1. Units(f, {}) = {}
        BY DEF Units
      <3> QED
        BY <2>1, <3>1, FS_EmptySet
    <2>2. CASE T # {}
      <3> DEFINE x == CHOOSE x \in T : TRUE
      <3>1. x \in T /\ x \in S /\ f[x] \in Nat
        BY <2>2
      <3>2. T \ {x} \in SUBSET S
        OBVIOUS
      <3>3. IsFiniteSet(Units(f, T \ {x}))
        BY <3>2, UnitsFinite
      <3> HIDE DEF x
      <3>4. Cardinality(Units(f, T)) = f[x] + Cardinality(Units(f, T \ {x}))
        BY <3>1, <3>3, UnitsOfOneMore
      <3>5. g[T] = f[x] + g[T \ {x}]
        BY <3>2, <3>4
      <3> QED
        BY <2>2, <3>5 DEF x
    <2> QED
      BY <2>1, <2>2
  <1> HIDE DEF g
  <1>2. g = [T \in SUBSET S |-> g[T]]
    BY DEF g
  <1>3. Sums(f, S, g)
    BY <1>1, <1>2 DEF Sums
  <1> QED
    BY <1>3 DEF g

\* Nothing else does.
LEMMA SumsUnique ==
  ASSUME NEW f, NEW S, IsFiniteSet(S), NEW g, NEW h,
         Sums(f, S, g), Sums(f, S, h)
  PROVE  g[S] = h[S]
  <1> DEFINE Bad == {T \in SUBSET S : g[T] # h[T]}
  <1>1. SUFFICES ASSUME Bad # {} PROVE FALSE
    OBVIOUS
  <1>2. PICK T \in Bad : \A x \in T : T \ {x} \notin Bad
    <2> HIDE DEF Bad
    <2>1. Bad \subseteq SUBSET S
      BY DEF Bad
    <2> QED
      BY <1>1, <2>1, SmallestOf
  <1> DEFINE x == CHOOSE x \in T : TRUE
  <1>3. /\ g[T] = IF T = {} THEN 0 ELSE f[x] + g[T \ {x}]
        /\ h[T] = IF T = {} THEN 0 ELSE f[x] + h[T \ {x}]
    BY <1>2 DEF Sums
  <1>4. T # {} => x \in T /\ g[T \ {x}] = h[T \ {x}]
    BY <1>2
  <1> HIDE DEF x
  <1> QED
    BY <1>2, <1>3, <1>4

\* The sum of f over a finite set is the number of units.
LEMMA SumCounts ==
  ASSUME NEW f, NEW S, IsFiniteSet(S), \A x \in S : f[x] \in Nat
  PROVE  /\ SumFunctionOnSet(f, S) = Cardinality(Units(f, S))
         /\ SumFunctionOnSet(f, S) \in Nat
  <1> DEFINE g == [T \in SUBSET S |-> Cardinality(Units(f, T))]
             h == CHOOSE h : Sums(f, S, h)
  <1>1. Sums(f, S, g)
    BY CountingSums
  <1> HIDE DEF g
  <1>2. Sums(f, S, h)
    BY <1>1
  <1> HIDE DEF h
  <1>3. g[S] = h[S]
    BY <1>1, <1>2, SumsUnique
  <1>4. SumFunctionOnSet(f, S) = h[S]
    BY SumIsChosen DEF h
  <1>5. g[S] = Cardinality(Units(f, S))
    BY DEF g
  <1>6. IsFiniteSet(Units(f, S))
    BY UnitsFinite
  <1> QED
    BY <1>3, <1>4, <1>5, <1>6, FS_CardinalityType

-----------------------------------------------------------------------------
(* What the proofs about a presale need of sums *)

\* Nothing adds up to nothing.
LEMMA SumOfNothing ==
  ASSUME NEW f, NEW S, IsFiniteSet(S), \A x \in S : f[x] = 0
  PROVE  SumFunctionOnSet(f, S) = 0
  <1>1. SumFunctionOnSet(f, S) = Cardinality(Units(f, S))
    BY SumCounts
  <1>2. Units(f, S) = {}
    BY DEF Units
  <1> QED
    BY <1>1, <1>2, FS_EmptySet

\* Functions that agree on a set have the same sum over it.
LEMMA SumOfSame ==
  ASSUME NEW f, NEW g, NEW S, IsFiniteSet(S),
         \A x \in S : f[x] \in Nat /\ g[x] = f[x]
  PROVE  SumFunctionOnSet(g, S) = SumFunctionOnSet(f, S)
  <1>1. SumFunctionOnSet(f, S) = Cardinality(Units(f, S))
    BY SumCounts
  <1>2. SumFunctionOnSet(g, S) = Cardinality(Units(g, S))
    BY SumCounts
  <1>3. Units(g, S) = Units(f, S)
    BY DEF Units
  <1> QED
    BY <1>1, <1>2, <1>3

\* A sum is one of its terms and the sum of the others.
LEMMA SumSplits ==
  ASSUME NEW f, NEW S, IsFiniteSet(S), \A x \in S : f[x] \in Nat, NEW x \in S
  PROVE  /\ SumFunctionOnSet(f, S) = f[x] + SumFunctionOnSet(f, S \ {x})
         /\ SumFunctionOnSet(f, S) \in Nat
         /\ SumFunctionOnSet(f, S \ {x}) \in Nat
  <1>1. IsFiniteSet(S \ {x})
    BY FS_RemoveElement
  <1>2. /\ SumFunctionOnSet(f, S) = Cardinality(Units(f, S))
        /\ SumFunctionOnSet(f, S) \in Nat
    BY SumCounts
  <1>3. /\ SumFunctionOnSet(f, S \ {x}) = Cardinality(Units(f, S \ {x}))
        /\ SumFunctionOnSet(f, S \ {x}) \in Nat
    BY <1>1, SumCounts
  <1>4. IsFiniteSet(Units(f, S \ {x}))
    <2>1. S \ {x} \in SUBSET S
      OBVIOUS
    <2> QED
      BY <2>1, UnitsFinite
  <1>5. Cardinality(Units(f, S)) = f[x] + Cardinality(Units(f, S \ {x}))
    BY <1>4, UnitsOfOneMore
  <1> QED
    BY <1>2, <1>3, <1>5

\* Changing one term changes the sum by as much.
LEMMA SumChanges ==
  ASSUME NEW f, NEW g, NEW S, IsFiniteSet(S), NEW x \in S,
         \A y \in S : f[y] \in Nat /\ g[y] \in Nat,
         \A y \in S \ {x} : g[y] = f[y]
  PROVE  SumFunctionOnSet(g, S) = SumFunctionOnSet(f, S) + g[x] - f[x]
  <1>1. /\ SumFunctionOnSet(f, S) = f[x] + SumFunctionOnSet(f, S \ {x})
        /\ SumFunctionOnSet(f, S \ {x}) \in Nat
    BY SumSplits
  <1>2. SumFunctionOnSet(g, S) = g[x] + SumFunctionOnSet(g, S \ {x})
    BY SumSplits
  <1>3. SumFunctionOnSet(g, S \ {x}) = SumFunctionOnSet(f, S \ {x})
    BY FS_RemoveElement, SumOfSame
  <1>4. f[x] \in Nat /\ g[x] \in Nat
    OBVIOUS
  <1> QED
    BY <1>1, <1>2, <1>3, <1>4

\* A sum is at most a sum of terms none of which is smaller.
LEMMA SumAtMost ==
  ASSUME NEW f, NEW g, NEW S, IsFiniteSet(S),
         \A x \in S : f[x] \in Nat /\ g[x] \in Nat /\ f[x] <= g[x]
  PROVE  SumFunctionOnSet(f, S) <= SumFunctionOnSet(g, S)
  <1>1. /\ SumFunctionOnSet(f, S) = Cardinality(Units(f, S))
        /\ SumFunctionOnSet(g, S) = Cardinality(Units(g, S))
    BY SumCounts
  <1>2. Units(f, S) \subseteq Units(g, S)
    <2> SUFFICES ASSUME NEW x \in S, NEW i \in 1 .. f[x]
                 PROVE  i \in 1 .. g[x]
      BY DEF Units
    <2> QED
      OBVIOUS
  <1>3. IsFiniteSet(Units(g, S))
    BY UnitsFinite
  <1> QED
    BY <1>1, <1>2, <1>3, FS_Subset
=============================================================================
