----------------------------- MODULE FoldLemmas -----------------------------
(* What the community modules' operators over sets and sequences compute:    *)
(* Max and Min, sums over a set, FlattenSeq, Range, and sorting.  They are    *)
(* defined by recursive functions and CHOOSE; each induction runs over the   *)
(* size of a set and is stated for a set of numbers, InductionOnNumbers.     *)
EXTENDS Integers, Sequences, FiniteSets, FiniteSetsExt, SequencesExt,
        FiniteSetTheorems, WellFoundedInduction, TLAPS

\* Every non-empty set of numbers has a least one.
LEMMA LeastNumber ==
    ASSUME NEW T, T \subseteq Nat, T # {}
    PROVE  \E x \in T : \A y \in T : x <= y
  <1> DEFINE R == OpToRel(<, Nat)
  <1>1. IsWellFoundedOn(R, Nat)
    BY NatLessThanWellFounded
  <1>2. \A x, y \in Nat : <<y, x>> \in R <=> y < x
    BY DEF OpToRel
  <1> HIDE DEF R
  <1>3. \E x \in T : \A y \in T : ~(<<y, x>> \in R)
    BY <1>1, WFMin
  <1>4. PICK x \in T : \A y \in T : ~(<<y, x>> \in R)
    BY <1>3
  <1>5. ASSUME NEW y \in T PROVE x <= y
    <2>1. x \in Nat /\ y \in Nat /\ ~(y < x)
      BY <1>2, <1>4
    <2> QED BY <2>1
  <1> QED BY <1>5

\* Induction over the numbers, for a set instead of a formula.
LEMMA InductionOnNumbers ==
    ASSUME NEW S, 0 \in S, \A n \in Nat : n \in S => n + 1 \in S
    PROVE  Nat \subseteq S
  <1> SUFFICES ASSUME Nat \ S # {} PROVE FALSE
    OBVIOUS
  <1> DEFINE T == Nat \ S
  <1>1. T \subseteq Nat /\ T # {}
    OBVIOUS
  <1> HIDE DEF T
  <1>2. PICK x \in T : \A y \in T : x <= y
    BY <1>1, LeastNumber
  <1>3. x \in Nat /\ x \notin S /\ x # 0
    BY <1>2 DEF T
  <1>4. x - 1 \in Nat /\ x - 1 \notin T
    BY <1>2, <1>3
  <1> QED BY <1>3, <1>4 DEF T

\* A non-empty finite set of integers has a greatest and a least element.
LEMMA Extremes ==
    ASSUME NEW S, S \subseteq Int, IsFiniteSet(S), S # {}
    PROVE  /\ Max(S) \in S /\ \A x \in S : x <= Max(S)
           /\ Min(S) \in S /\ \A x \in S : Min(S) <= x
  <1> DEFINE hasBoth(T) == /\ \E m \in T : \A x \in T : x <= m
                           /\ \E m \in T : \A x \in T : m <= x
             G == {n \in Nat : \A T \in SUBSET S : T # {} /\ Cardinality(T) <= n => hasBoth(T)}
  <1>1. 0 \in G
    <2>1. ASSUME NEW T \in SUBSET S, Cardinality(T) <= 0 PROVE T = {}
      <3>1. IsFiniteSet(T) /\ Cardinality(T) \in Nat
        BY FS_Subset, FS_CardinalityType
      <3> QED BY <2>1, <3>1, FS_EmptySet
    <2> QED BY <2>1
  <1>2. ASSUME NEW n \in Nat, n \in G PROVE n + 1 \in G
    <2> SUFFICES ASSUME NEW T \in SUBSET S, T # {}, Cardinality(T) <= n + 1 PROVE hasBoth(T)
      OBVIOUS
    <2>1. PICK y \in T : TRUE
      OBVIOUS
    <2>2. IsFiniteSet(T) /\ Cardinality(T) \in Nat
      BY FS_Subset, FS_CardinalityType
    <2>3. Cardinality(T \ {y}) <= n
      <3>1. Cardinality(T \ {y}) = Cardinality(T) - 1
        BY <2>1, <2>2, FS_RemoveElement
      <3> QED BY <2>2, <3>1
    <2>4. CASE T \ {y} = {}
      BY <2>1, <2>4
    <2>5. CASE T \ {y} # {}
      <3>1. hasBoth(T \ {y})
        BY <1>2, <2>3, <2>5
      <3>2. PICK m \in T \ {y} : \A x \in T \ {y} : x <= m
        BY <3>1
      <3>3. PICK l \in T \ {y} : \A x \in T \ {y} : l <= x
        BY <3>1
      <3>4. \E k \in T : \A x \in T : x <= k
        <4>1. CASE m <= y
          BY <2>1, <3>2, <4>1
        <4>2. CASE ~(m <= y)
          BY <2>1, <3>2, <4>2
        <4> QED BY <4>1, <4>2
      <3>5. \E k \in T : \A x \in T : k <= x
        <4>1. CASE y <= l
          BY <2>1, <3>3, <4>1
        <4>2. CASE ~(y <= l)
          BY <2>1, <3>3, <4>2
        <4> QED BY <4>1, <4>2
      <3> QED BY <3>4, <3>5
    <2> QED BY <2>4, <2>5
  <1> HIDE DEF G
  <1>3. Nat \subseteq G
    BY <1>1, <1>2, InductionOnNumbers
  <1>4. Cardinality(S) \in G
    BY <1>3, FS_CardinalityType
  <1>5. hasBoth(S)
    BY <1>4, FS_CardinalityType DEF G
  <1>6. \E m \in S : \A y \in S : m >= y
    BY <1>5
  <1>7. \E m \in S : \A y \in S : m =< y
    BY <1>5
  <1> QED BY <1>6, <1>7 DEF Max, Min
-----------------------------------------------------------------------------
\* The element that a sum takes next.
AnyOf(s) == CHOOSE x \in s : TRUE

\* g adds up fun over the subsets of S of at most n elements.
Adds(g, fun, S, n) ==
    g = [s \in {t \in SUBSET S : Cardinality(t) <= n} |->
            IF s = {} THEN 0 ELSE fun[AnyOf(s)] + g[s \ {AnyOf(s)}]]

LEMMA AnyIsIn == \A s : s # {} => AnyOf(s) \in s
  BY DEF AnyOf

LEMMA SumExists ==
    ASSUME NEW fun, NEW S, IsFiniteSet(S), NEW n \in Nat
    PROVE  \E g : Adds(g, fun, S, n)
  <1> DEFINE G == {k \in Nat : \E g : Adds(g, fun, S, k)}
             small(k) == {t \in SUBSET S : Cardinality(t) <= k}
  <1>1. 0 \in G
    <2> DEFINE g == [s \in small(0) |-> 0]
    <2>1. \A s \in small(0) : s = {}
      BY FS_Subset, FS_EmptySet, FS_CardinalityType
    <2>2. Adds(g, fun, S, 0)
      BY <2>1 DEF Adds
    <2> QED BY <2>2
  <1>2. ASSUME NEW k \in Nat, k \in G PROVE k + 1 \in G
    <2>1. PICK g : Adds(g, fun, S, k)
      BY <1>2
    <2> DEFINE h == [s \in small(k + 1) |->
                        IF s = {} THEN 0 ELSE fun[AnyOf(s)] + g[s \ {AnyOf(s)}]]
    <2>2. ASSUME NEW s \in small(k) PROVE h[s] = g[s] /\ s \in small(k + 1)
      <3>1. s \in small(k + 1)
        BY FS_Subset, FS_CardinalityType
      <3>2. g[s] = IF s = {} THEN 0 ELSE fun[AnyOf(s)] + g[s \ {AnyOf(s)}]
        BY <2>1 DEF Adds
      <3> QED BY <3>1, <3>2
    <2>3. ASSUME NEW s \in small(k + 1), s # {} PROVE s \ {AnyOf(s)} \in small(k)
      <3>1. AnyOf(s) \in s /\ IsFiniteSet(s) /\ Cardinality(s) \in Nat
        BY <2>3, AnyIsIn, FS_Subset, FS_CardinalityType
      <3>2. Cardinality(s \ {AnyOf(s)}) = Cardinality(s) - 1
        BY <3>1, FS_RemoveElement
      <3> QED BY <3>1, <3>2
    <2>4. h = [s \in small(k + 1) |-> IF s = {} THEN 0 ELSE fun[AnyOf(s)] + h[s \ {AnyOf(s)}]]
      BY <2>2, <2>3
    <2>5. Adds(h, fun, S, k + 1)
      BY <2>4 DEF Adds
    <2> QED BY <2>5
  <1> HIDE DEF G
  <1>3. Nat \subseteq G
    BY <1>1, <1>2, InductionOnNumbers
  <1> QED BY <1>3 DEF G
\* What SumFunctionOnSet picks a function for.
AddsAll(g, fun, S) ==
    g = [s \in SUBSET S |-> IF s = {} THEN 0 ELSE fun[AnyOf(s)] + g[s \ {AnyOf(s)}]]

LEMMA SumIsFound ==
    ASSUME NEW fun, NEW S, IsFiniteSet(S)
    PROVE  \E g : AddsAll(g, fun, S) /\ SumFunctionOnSet(fun, S) = g[S]
  <1> DEFINE g == CHOOSE g : AddsAll(g, fun, S)
  <1>1. \E h : AddsAll(h, fun, S)
    <2>1. Cardinality(S) \in Nat /\ {t \in SUBSET S : Cardinality(t) <= Cardinality(S)} = SUBSET S
      BY FS_CardinalityType, FS_Subset
    <2>2. PICK h : Adds(h, fun, S, Cardinality(S))
      BY <2>1, SumExists
    <2> QED BY <2>1, <2>2 DEF Adds, AddsAll
  <1>2. SumFunctionOnSet(fun, S) = g[S]
    BY Zenon DEF SumFunctionOnSet, FoldFunctionOnSet, MapThenFoldSet, AddsAll, AnyOf
  <1>3. AddsAll(g, fun, S)
    BY <1>1
  <1> QED BY <1>2, <1>3

\* Over a smaller set the same function is found.
LEMMA SumIsOne ==
    ASSUME NEW fun, NEW S, IsFiniteSet(S), NEW U \in SUBSET S,
           NEW g, AddsAll(g, fun, S), NEW h, AddsAll(h, fun, U)
    PROVE  g[U] = h[U]
  <1> DEFINE G == {n \in Nat : \A t \in SUBSET U : Cardinality(t) <= n => g[t] = h[t]}
  <1>f. IsFiniteSet(U) /\ Cardinality(U) \in Nat
    BY FS_Subset, FS_CardinalityType
  <1>1. 0 \in G
    <2>1. ASSUME NEW t \in SUBSET U, Cardinality(t) <= 0 PROVE t = {}
      <3>1. IsFiniteSet(t) /\ Cardinality(t) \in Nat
        BY <1>f, FS_Subset, FS_CardinalityType
      <3> QED BY <2>1, <3>1, FS_EmptySet
    <2>2. g[{}] = 0 /\ h[{}] = 0
      BY DEF AddsAll
    <2> QED BY <2>1, <2>2
  <1>2. ASSUME NEW n \in Nat, n \in G PROVE n + 1 \in G
    <2> SUFFICES ASSUME NEW t \in SUBSET U, Cardinality(t) <= n + 1 PROVE g[t] = h[t]
      OBVIOUS
    <2>1. CASE t = {}
      BY <2>1 DEF AddsAll
    <2>2. CASE t # {}
      <3>1. AnyOf(t) \in t /\ IsFiniteSet(t) /\ Cardinality(t) \in Nat
        BY <1>f, <2>2, AnyIsIn, FS_Subset, FS_CardinalityType
      <3>2. Cardinality(t \ {AnyOf(t)}) = Cardinality(t) - 1
        BY <3>1, FS_RemoveElement
      <3>3. g[t \ {AnyOf(t)}] = h[t \ {AnyOf(t)}]
        BY <1>2, <3>1, <3>2
      <3> QED BY <2>2, <3>3 DEF AddsAll
    <2> QED BY <2>1, <2>2
  <1> HIDE DEF G
  <1>3. Nat \subseteq G
    BY <1>1, <1>2, InductionOnNumbers
  <1> QED BY <1>3, <1>f DEF G

LEMMA SumUnfolds ==
    ASSUME NEW fun, NEW S, IsFiniteSet(S)
    PROVE  /\ S = {} => SumFunctionOnSet(fun, S) = 0
           /\ S # {} => /\ AnyOf(S) \in S
                        /\ SumFunctionOnSet(fun, S) =
                             fun[AnyOf(S)] + SumFunctionOnSet(fun, S \ {AnyOf(S)})
  <1>1. PICK g : AddsAll(g, fun, S) /\ SumFunctionOnSet(fun, S) = g[S]
    BY SumIsFound
  <1>2. CASE S = {}
    BY <1>1, <1>2 DEF AddsAll
  <1>3. CASE S # {}
    <2> DEFINE U == S \ {AnyOf(S)}
    <2>1. IsFiniteSet(U)
      BY FS_Subset
    <2>2. PICK h : AddsAll(h, fun, U) /\ SumFunctionOnSet(fun, U) = h[U]
      BY <2>1, SumIsFound
    <2>3. g[U] = h[U]
      BY <1>1, <2>2, SumIsOne
    <2>4. g[S] = fun[AnyOf(S)] + g[U]
      BY <1>1, <1>3 DEF AddsAll
    <2> QED BY <1>1, <1>3, <2>2, <2>3, <2>4, AnyIsIn
  <1> QED BY <1>2, <1>3

\* A sum over a set is the number of any one element and the sum over the others.
LEMMA SumRemoves ==
    ASSUME NEW S, IsFiniteSet(S), NEW fun, \A x \in S : fun[x] \in Int
    PROVE  /\ SumFunctionOnSet(fun, S) \in Int
           /\ \A x \in S : SumFunctionOnSet(fun, S) = fun[x] + SumFunctionOnSet(fun, S \ {x})
  <1> DEFINE sum(T) == SumFunctionOnSet(fun, T)
             fair(T) == sum(T) \in Int /\ \A x \in T : sum(T) = fun[x] + sum(T \ {x})
             G == {n \in Nat : \A T \in SUBSET S : Cardinality(T) <= n => fair(T)}
  <1>f. \A T \in SUBSET S : IsFiniteSet(T) /\ Cardinality(T) \in Nat
    BY FS_Subset, FS_CardinalityType
  <1>u. \A T \in SUBSET S : /\ T = {} => sum(T) = 0
                            /\ T # {} => /\ AnyOf(T) \in T
                                         /\ sum(T) = fun[AnyOf(T)] + sum(T \ {AnyOf(T)})
    BY <1>f, SumUnfolds
  <1>r. ASSUME NEW T \in SUBSET S, NEW x \in T
        PROVE  T \ {x} \in SUBSET S /\ Cardinality(T \ {x}) = Cardinality(T) - 1
    BY <1>f, FS_RemoveElement
  <1> HIDE DEF sum
  <1>1. 0 \in G
    <2>1. ASSUME NEW T \in SUBSET S, Cardinality(T) <= 0 PROVE fair(T)
      <3>1. T = {}
        BY <1>f, <2>1, FS_EmptySet
      <3> QED BY <1>u, <3>1
    <2> QED BY <2>1
  <1>2. ASSUME NEW n \in Nat, n \in G PROVE n + 1 \in G
    <2> SUFFICES ASSUME NEW T \in SUBSET S, Cardinality(T) <= n + 1, T # {} PROVE fair(T)
      BY <1>u
    <2> DEFINE a == AnyOf(T)
    <2>1. a \in T /\ sum(T) = fun[a] + sum(T \ {a})
      BY <1>u
    <2>2. \A x \in T : Cardinality(T \ {x}) <= n
      BY <1>r, <1>f
    <2>3. \A x \in T : fair(T \ {x})
      BY <1>2, <2>2
    <2>4. fun[a] \in Int /\ sum(T \ {a}) \in Int
      BY <2>1, <2>3
    <2> HIDE DEF a
    <2>5. ASSUME NEW x \in T PROVE sum(T) = fun[x] + sum(T \ {x})
      <3>1. CASE x = a
        BY <2>1, <3>1
      <3>2. CASE x # a
        <4>1. sum(T \ {a}) = fun[x] + sum((T \ {a}) \ {x})
          BY <2>1, <2>3, <3>2
        <4>2. sum(T \ {x}) = fun[a] + sum((T \ {x}) \ {a})
          BY <2>1, <2>3, <3>2
        <4>3. (T \ {a}) \ {x} = (T \ {x}) \ {a}
          OBVIOUS
        <4>4. x \in T \ {a} /\ (T \ {a}) \ {x} \in SUBSET S
          BY <3>2
        <4>5. sum((T \ {a}) \ {x}) \in Int
          <5>1. (T \ {a}) \ {x} \in SUBSET S /\ Cardinality((T \ {a}) \ {x}) = Cardinality(T \ {a}) - 1
            BY <1>r, <2>1, <4>4
          <5>2. Cardinality(T \ {a}) <= n /\ Cardinality(T \ {a}) \in Nat
            BY <1>f, <2>1, <2>2
          <5>3. Cardinality((T \ {a}) \ {x}) <= n
            BY <1>f, <5>1, <5>2
          <5> QED BY <1>2, <5>1, <5>3
        <4>6. fun[x] \in Int
          OBVIOUS
        <4>7. sum(T \ {x}) = fun[a] + sum((T \ {a}) \ {x})
          BY <4>2, <4>3
        <4> HIDE <4>3
        <4> DEFINE rest == sum((T \ {a}) \ {x})
        <4>8. rest \in Int /\ sum(T \ {a}) = fun[x] + rest /\ sum(T \ {x}) = fun[a] + rest
          BY <4>1, <4>5, <4>7
        <4> HIDE DEF rest
        <4>9. fun[a] + (fun[x] + rest) = fun[x] + (fun[a] + rest)
          BY <2>4, <4>6, <4>8
        <4> QED BY <2>1, <4>8, <4>9
      <3> QED BY <3>1, <3>2
    <2> QED BY <2>1, <2>4, <2>5
  <1> HIDE DEF G
  <1>3. Nat \subseteq G
    BY <1>1, <1>2, InductionOnNumbers
  <1>4. fair(S)
    BY <1>3, <1>f DEF G
  <1> QED BY <1>4 DEF sum
\* What an induction over the size of the subsets of S needs to know.
LEMMA SumParts ==
    ASSUME NEW S, IsFiniteSet(S), NEW f, \A x \in S : f[x] \in Int, NEW T \in SUBSET S
    PROVE  /\ IsFiniteSet(T) /\ Cardinality(T) \in Nat
           /\ Cardinality(T) <= 0 => T = {}
           /\ T = {} => Cardinality(T) = 0 /\ SumFunctionOnSet(f, T) = 0
           /\ SumFunctionOnSet(f, T) \in Int
           /\ \A x \in T : /\ Cardinality(T \ {x}) = Cardinality(T) - 1
                           /\ SumFunctionOnSet(f, T) = f[x] + SumFunctionOnSet(f, T \ {x})
  <1>1. IsFiniteSet(T) /\ Cardinality(T) \in Nat
    BY FS_Subset, FS_CardinalityType
  <1>2. Cardinality(T) <= 0 => T = {}
    BY <1>1, FS_EmptySet
  <1>3. T = {} => Cardinality(T) = 0 /\ SumFunctionOnSet(f, T) = 0
    BY <1>1, FS_EmptySet, SumUnfolds
  <1>4. \A x \in T : f[x] \in Int
    OBVIOUS
  <1>5. /\ SumFunctionOnSet(f, T) \in Int
        /\ \A x \in T : SumFunctionOnSet(f, T) = f[x] + SumFunctionOnSet(f, T \ {x})
    BY <1>1, <1>4, SumRemoves
  <1>6. \A x \in T : Cardinality(T \ {x}) = Cardinality(T) - 1
    BY <1>1, FS_RemoveElement
  <1> QED BY <1>1, <1>2, <1>3, <1>5, <1>6

\* A sum of smaller numbers is smaller.
LEMMA SumMonotone ==
    ASSUME NEW S, IsFiniteSet(S), NEW f, NEW g,
           \A x \in S : f[x] \in Int /\ g[x] \in Int /\ f[x] <= g[x]
    PROVE  SumFunctionOnSet(f, S) <= SumFunctionOnSet(g, S)
  <1> DEFINE less(T) == SumFunctionOnSet(f, T) <= SumFunctionOnSet(g, T)
             G == {n \in Nat : \A T \in SUBSET S : Cardinality(T) <= n => less(T)}
  <1>i. \A x \in S : f[x] \in Int /\ g[x] \in Int
    OBVIOUS
  <1>f. ASSUME NEW T \in SUBSET S
        PROVE  /\ Cardinality(T) \in Nat
               /\ Cardinality(T) <= 0 => T = {}
               /\ T = {} => Cardinality(T) = 0 /\ SumFunctionOnSet(f, T) = 0
               /\ SumFunctionOnSet(f, T) \in Int
               /\ \A x \in T : /\ Cardinality(T \ {x}) = Cardinality(T) - 1
                               /\ SumFunctionOnSet(f, T) = f[x] + SumFunctionOnSet(f, T \ {x})
    BY <1>i, SumParts
  <1>g. ASSUME NEW T \in SUBSET S
        PROVE  /\ T = {} => SumFunctionOnSet(g, T) = 0
               /\ SumFunctionOnSet(g, T) \in Int
               /\ \A x \in T : SumFunctionOnSet(g, T) = g[x] + SumFunctionOnSet(g, T \ {x})
    BY <1>i, SumParts
  <1>e. ASSUME NEW T \in SUBSET S, T = {} PROVE less(T)
    BY <1>e, <1>f, <1>g
  <1>1. 0 \in G
    BY <1>e, <1>f
  <1>2. ASSUME NEW n \in Nat, n \in G PROVE n + 1 \in G
    <2> SUFFICES ASSUME NEW T \in SUBSET S, Cardinality(T) <= n + 1, NEW x \in T PROVE less(T)
      BY <1>e
    <2>1. T \ {x} \in SUBSET S /\ Cardinality(T \ {x}) <= n
      BY <1>f
    <2>2. less(T \ {x})
      BY <1>2, <2>1
    <2>3. f[x] \in Int /\ g[x] \in Int /\ f[x] <= g[x]
      OBVIOUS
    <2>4. /\ SumFunctionOnSet(f, T \ {x}) \in Int /\ SumFunctionOnSet(g, T \ {x}) \in Int
          /\ SumFunctionOnSet(f, T) = f[x] + SumFunctionOnSet(f, T \ {x})
          /\ SumFunctionOnSet(g, T) = g[x] + SumFunctionOnSet(g, T \ {x})
      BY <1>f, <1>g, <2>1
    <2> QED BY <2>2, <2>3, <2>4
  <1> HIDE DEF G
  <1>3. Nat \subseteq G
    BY <1>1, <1>2, InductionOnNumbers
  <1> QED BY <1>3, <1>f DEF G

\* A common factor, and bounds of all that is added up.
Scales(g, m, f, S) == \A x \in S : f[x] \in Int /\ g[x] = m * f[x]

LEMMA SumScaled ==
    ASSUME NEW S, IsFiniteSet(S), NEW m \in Int, NEW f, NEW g, Scales(g, m, f, S)
    PROVE  SumFunctionOnSet(g, S) = m * SumFunctionOnSet(f, S)
  <1> DEFINE scaled(T) == SumFunctionOnSet(g, T) = m * SumFunctionOnSet(f, T)
             G == {n \in Nat : \A T \in SUBSET S : Cardinality(T) <= n => scaled(T)}
  <1>i. \A x \in S : f[x] \in Int /\ g[x] \in Int
    BY DEF Scales
  <1>f. ASSUME NEW T \in SUBSET S
        PROVE  /\ Cardinality(T) \in Nat
               /\ Cardinality(T) <= 0 => T = {}
               /\ T = {} => Cardinality(T) = 0 /\ SumFunctionOnSet(f, T) = 0
               /\ SumFunctionOnSet(f, T) \in Int
               /\ \A x \in T : /\ Cardinality(T \ {x}) = Cardinality(T) - 1
                               /\ SumFunctionOnSet(f, T) = f[x] + SumFunctionOnSet(f, T \ {x})
    BY <1>i, SumParts
  <1>g. ASSUME NEW T \in SUBSET S
        PROVE  /\ T = {} => SumFunctionOnSet(g, T) = 0
               /\ SumFunctionOnSet(g, T) \in Int
               /\ \A x \in T : SumFunctionOnSet(g, T) = g[x] + SumFunctionOnSet(g, T \ {x})
    BY <1>i, SumParts
  <1>e. ASSUME NEW T \in SUBSET S, T = {} PROVE scaled(T)
    BY <1>e, <1>f, <1>g
  <1>1. 0 \in G
    BY <1>e, <1>f
  <1>2. ASSUME NEW n \in Nat, n \in G PROVE n + 1 \in G
    <2> SUFFICES ASSUME NEW T \in SUBSET S, Cardinality(T) <= n + 1, NEW x \in T PROVE scaled(T)
      BY <1>e
    <2>1. T \ {x} \in SUBSET S /\ Cardinality(T \ {x}) <= n
      BY <1>f
    <2>2. scaled(T \ {x})
      BY <1>2, <2>1
    <2> DEFINE a == SumFunctionOnSet(f, T \ {x})
               b == SumFunctionOnSet(g, T \ {x})
    <2>3. a \in Int /\ f[x] \in Int /\ b = m * a /\ g[x] = m * f[x]
      BY <1>i, <1>f, <1>g, <2>1, <2>2 DEF Scales
    <2>4. SumFunctionOnSet(f, T) = f[x] + a /\ SumFunctionOnSet(g, T) = g[x] + b
      BY <1>i, <1>f, <1>g
    <2> HIDE DEF a, b
    <2>5. m * f[x] + m * a = m * (f[x] + a)
      BY <2>3
    <2> QED BY <2>3, <2>4, <2>5
  <1> HIDE DEF G
  <1>3. Nat \subseteq G
    BY <1>1, <1>2, InductionOnNumbers
  <1> QED BY <1>3, <1>f DEF G

LEMMA SumBounds ==
    ASSUME NEW S, IsFiniteSet(S), NEW f, NEW lo \in Int, NEW hi \in Int,
           \A x \in S : f[x] \in Int /\ lo <= f[x] /\ f[x] <= hi
    PROVE  /\ lo * Cardinality(S) <= SumFunctionOnSet(f, S)
           /\ SumFunctionOnSet(f, S) <= hi * Cardinality(S)
  <1> DEFINE fits(T) == /\ lo * Cardinality(T) <= SumFunctionOnSet(f, T)
                        /\ SumFunctionOnSet(f, T) <= hi * Cardinality(T)
             G == {n \in Nat : \A T \in SUBSET S : Cardinality(T) <= n => fits(T)}
  <1>i. \A x \in S : f[x] \in Int
    OBVIOUS
  <1>f. ASSUME NEW T \in SUBSET S
        PROVE  /\ Cardinality(T) \in Nat
               /\ Cardinality(T) <= 0 => T = {}
               /\ T = {} => Cardinality(T) = 0 /\ SumFunctionOnSet(f, T) = 0
               /\ SumFunctionOnSet(f, T) \in Int
               /\ \A x \in T : /\ Cardinality(T \ {x}) = Cardinality(T) - 1
                               /\ SumFunctionOnSet(f, T) = f[x] + SumFunctionOnSet(f, T \ {x})
    BY <1>i, SumParts
  <1>e. ASSUME NEW T \in SUBSET S, T = {} PROVE fits(T)
    BY <1>e, <1>f
  <1>1. 0 \in G
    BY <1>e, <1>f
  <1>2. ASSUME NEW n \in Nat, n \in G PROVE n + 1 \in G
    <2> SUFFICES ASSUME NEW T \in SUBSET S, Cardinality(T) <= n + 1, NEW x \in T PROVE fits(T)
      BY <1>e
    <2> DEFINE a == SumFunctionOnSet(f, T \ {x})
               c == Cardinality(T \ {x})
    <2>1. Cardinality(T) = c + 1 /\ c \in Nat /\ c <= n
      BY <1>f
    <2>2. lo * c <= a /\ a <= hi * c
      BY <1>2, <2>1
    <2>3. /\ a \in Int /\ f[x] \in Int /\ lo <= f[x] /\ f[x] <= hi
          /\ SumFunctionOnSet(f, T) = f[x] + a
      BY <1>i, <1>f
    <2> HIDE DEF a, c
    <2>4. lo * (c + 1) = lo * c + lo /\ hi * (c + 1) = hi * c + hi
      BY <2>1
    <2> QED BY <2>1, <2>2, <2>3, <2>4
  <1> HIDE DEF G
  <1>3. Nat \subseteq G
    BY <1>1, <1>2, InductionOnNumbers
  <1> QED BY <1>3, <1>f DEF G
-----------------------------------------------------------------------------
\* The elements of a sequence.
LEMMA RangeOf ==
    ASSUME NEW S, NEW s \in Seq(S), NEW t \in Seq(S)
    PROVE  /\ Range(s) \subseteq S
           /\ Range(s \o t) = Range(s) \cup Range(t)
           /\ s = <<>> <=> Range(s) = {}
  <1>1. DOMAIN s = 1..Len(s) /\ DOMAIN t = 1..Len(t) /\ \A i \in 1..Len(s) : s[i] \in S
    OBVIOUS
  <1>2. Range(s) \subseteq S
    BY <1>1 DEF Range
  <1>3. Range(s \o t) = Range(s) \cup Range(t)
    <2>1. /\ Len(s \o t) = Len(s) + Len(t) /\ DOMAIN (s \o t) = 1..(Len(s) + Len(t))
          /\ \A i \in 1..Len(s) : (s \o t)[i] = s[i]
          /\ \A i \in 1..Len(t) : (s \o t)[Len(s) + i] = t[i]
          /\ Len(s) \in Nat /\ Len(t) \in Nat
      OBVIOUS
    <2>2. ASSUME NEW y \in Range(s \o t) PROVE y \in Range(s) \cup Range(t)
      <3>1. PICK i \in 1..(Len(s) + Len(t)) : y = (s \o t)[i]
        BY <2>1 DEF Range
      <3>2. CASE i <= Len(s)
        BY <1>1, <2>1, <3>1, <3>2 DEF Range
      <3>3. CASE ~(i <= Len(s))
        <4>1. i - Len(s) \in 1..Len(t) /\ i = Len(s) + (i - Len(s))
          BY <2>1, <3>3
        <4>2. y = t[i - Len(s)]
          BY <2>1, <3>1, <4>1
        <4> QED BY <1>1, <4>1, <4>2 DEF Range
      <3> QED BY <3>2, <3>3
    <2>3. ASSUME NEW y \in Range(s) PROVE y \in Range(s \o t)
      <3>1. PICK i \in 1..Len(s) : y = s[i]
        BY <1>1 DEF Range
      <3>2. i \in 1..(Len(s) + Len(t)) /\ y = (s \o t)[i]
        BY <2>1, <3>1
      <3> QED BY <2>1, <3>2 DEF Range
    <2>4. ASSUME NEW y \in Range(t) PROVE y \in Range(s \o t)
      <3>1. PICK i \in 1..Len(t) : y = t[i]
        BY <1>1 DEF Range
      <3>2. Len(s) + i \in 1..(Len(s) + Len(t)) /\ y = (s \o t)[Len(s) + i]
        BY <2>1, <3>1
      <3> QED BY <2>1, <3>2 DEF Range
    <2> QED BY <2>2, <2>3, <2>4
  <1>4. s = <<>> <=> Range(s) = {}
    <2>1. s = <<>> => Range(s) = {}
      BY DEF Range
    <2>2. s # <<>> => 1 \in 1..Len(s)
      OBVIOUS
    <2> QED BY <1>1, <2>1, <2>2 DEF Range
  <1> QED BY <1>2, <1>3, <1>4

\* g puts the first k of seqs together.
Joins(g, seqs, k) == g = [i \in 1..k |-> IF i = 1 THEN seqs[i] ELSE g[i - 1] \o seqs[i]]

\* A sequence of sequences put together has the elements of all of them.
LEMMA Flattened ==
    ASSUME NEW S, NEW seqs \in Seq(Seq(S))
    PROVE  /\ FlattenSeq(seqs) \in Seq(S)
           /\ Range(FlattenSeq(seqs)) = UNION {Range(seqs[i]) : i \in 1..Len(seqs)}
  <1> DEFINE G == {k \in Nat : \E f : Joins(f, seqs, k)}
             g == CHOOSE f : Joins(f, seqs, Len(seqs))
             upTo(k) == UNION {Range(seqs[i]) : i \in 1..k}
  <1>1. 0 \in G
    <2>1. Joins(<<>>, seqs, 0)
      BY DEF Joins
    <2> QED BY <2>1
  <1>2. ASSUME NEW k \in Nat, k \in G PROVE k + 1 \in G
    <2>1. PICK f : Joins(f, seqs, k)
      BY <1>2
    <2> DEFINE h == [i \in 1..(k + 1) |-> IF i = 1 THEN seqs[i] ELSE f[i - 1] \o seqs[i]]
    <2>2. ASSUME NEW i \in 1..k PROVE h[i] = f[i]
      <3>1. i \in 1..(k + 1)
        OBVIOUS
      <3>2. f[i] = IF i = 1 THEN seqs[i] ELSE f[i - 1] \o seqs[i]
        BY <2>1 DEF Joins
      <3> QED BY <3>1, <3>2
    <2>3. \A i \in 1..(k + 1) : i # 1 => i - 1 \in 1..k
      OBVIOUS
    <2>4. Joins(h, seqs, k + 1)
      BY <2>2, <2>3 DEF Joins
    <2> HIDE DEF h
    <2> QED BY <2>4
  <1>3. Nat \subseteq G
    <2> HIDE DEF G
    <2> QED BY <1>1, <1>2, InductionOnNumbers
  <1>4. Len(seqs) \in Nat /\ \A i \in 1..Len(seqs) : seqs[i] \in Seq(S)
    OBVIOUS
  <1>5. Joins(g, seqs, Len(seqs))
    BY <1>3, <1>4
  <1>6. Len(seqs) # 0 => FlattenSeq(seqs) = g[Len(seqs)]
    BY Zenon DEF FlattenSeq, Joins
  <1> HIDE DEF g
  <1>7. ASSUME NEW k \in 1..Len(seqs)
        PROVE  g[k] = IF k = 1 THEN seqs[k] ELSE g[k - 1] \o seqs[k]
    BY <1>5 DEF Joins
  <1> HIDE DEF G
  <1> DEFINE good(k) == k \in 1..Len(seqs) => g[k] \in Seq(S) /\ Range(g[k]) = upTo(k)
             H == {k \in Nat : good(k)}
  <1>8. Nat \subseteq H
    <2>1. 0 \in H
      BY <1>4
    <2>2. ASSUME NEW k \in Nat, k \in H PROVE good(k + 1)
      <3> SUFFICES ASSUME k + 1 \in 1..Len(seqs)
                   PROVE  g[k + 1] \in Seq(S) /\ Range(g[k + 1]) = upTo(k + 1)
        OBVIOUS
      <3>1. CASE k = 0
        <4>1. g[k + 1] = seqs[1] /\ upTo(k + 1) = Range(seqs[1])
          BY SMTT(30), <1>7, <2>2, <3>1
        <4> QED BY <1>4, <2>2, <3>1, <4>1
      <3>2. CASE k # 0
        <4>1. k \in 1..Len(seqs) /\ k + 1 # 1 /\ (k + 1) - 1 = k
          BY <1>4, <2>2, <3>2
        <4>2. g[k + 1] = g[k] \o seqs[k + 1]
          BY <1>7, <2>2, <4>1
        <4>3. g[k] \in Seq(S) /\ Range(g[k]) = upTo(k) /\ seqs[k + 1] \in Seq(S)
          BY <1>4, <2>2, <4>1
        <4>4. upTo(k + 1) = upTo(k) \cup Range(seqs[k + 1])
          <5>1. \A i : i \in 1..(k + 1) <=> i \in 1..k \/ i = k + 1
            OBVIOUS
          <5> QED BY <5>1
        <4>5. g[k] \o seqs[k + 1] \in Seq(S) /\ Range(g[k] \o seqs[k + 1]) = Range(g[k]) \cup Range(seqs[k + 1])
          BY <4>3, RangeOf
        <4> QED BY <4>2, <4>3, <4>4, <4>5
      <3> QED BY <3>1, <3>2
    <2>3. ASSUME NEW k \in Nat, k \in H PROVE k + 1 \in H
      <3> HIDE DEF good
      <3> QED BY <2>2, <2>3
    <2> HIDE DEF H
    <2> QED BY <2>1, <2>3, InductionOnNumbers
  <1>9. CASE Len(seqs) = 0
    <2>1. FlattenSeq(seqs) = seqs
      BY <1>9 DEF FlattenSeq
    <2>2. seqs = <<>> /\ Range(seqs) = {} /\ 1..Len(seqs) = {} /\ <<>> \in Seq(S)
      BY <1>9 DEF Range
    <2> QED BY <2>1, <2>2
  <1>10. CASE Len(seqs) # 0
    <2>1. Len(seqs) \in 1..Len(seqs)
      BY <1>4, <1>10
    <2>2. Len(seqs) \in H
      <3> HIDE DEF H
      <3> QED BY <1>4, <1>8
    <2> QED BY <1>6, <1>10, <2>1, <2>2
  <1> QED BY <1>9, <1>10
-----------------------------------------------------------------------------
\* R orders P: of two elements one comes first.
Orders(R, P) ==
    /\ \A x, y \in P : x # y => <<x, y>> \in R \/ <<y, x>> \in R
    /\ \A x, y, z \in P : <<x, y>> \in R /\ <<y, z>> \in R => <<x, z>> \in R

\* s has the elements of T in the order of R.
Sorts(s, R, T) ==
    /\ s \in [1..Cardinality(T) -> T] /\ Range(s) = T
    /\ \A i, k \in 1..Cardinality(T) : i < k => <<s[i], s[k]>> \in R

LEMMA FirstExists ==
    ASSUME NEW P, IsFiniteSet(P), NEW R, Orders(R, P), P # {}
    PROVE  \E m \in P : \A x \in P \ {m} : <<m, x>> \in R
  <1> DEFINE first(T) == \E m \in T : \A x \in T \ {m} : <<m, x>> \in R
             G == {n \in Nat : \A T \in SUBSET P : T # {} /\ Cardinality(T) <= n => first(T)}
  <1>f. \A T \in SUBSET P : IsFiniteSet(T) /\ Cardinality(T) \in Nat
    BY FS_Subset, FS_CardinalityType
  <1>1. 0 \in G
    <2>1. ASSUME NEW T \in SUBSET P, Cardinality(T) <= 0 PROVE T = {}
      BY <1>f, <2>1, FS_EmptySet
    <2> QED BY <2>1
  <1>2. ASSUME NEW n \in Nat, n \in G PROVE n + 1 \in G
    <2> SUFFICES ASSUME NEW T \in SUBSET P, NEW y \in T, Cardinality(T) <= n + 1 PROVE first(T)
      OBVIOUS
    <2>1. Cardinality(T \ {y}) <= n
      <3>1. Cardinality(T \ {y}) = Cardinality(T) - 1
        BY <1>f, FS_RemoveElement
      <3> QED BY <1>f, <3>1
    <2>2. CASE T \ {y} = {}
      BY <2>2
    <2>3. CASE T \ {y} # {}
      <3>1. PICK m \in T \ {y} : \A x \in (T \ {y}) \ {m} : <<m, x>> \in R
        BY <1>2, <2>1, <2>3
      <3>2. CASE <<m, y>> \in R
        BY <3>1, <3>2
      <3>3. CASE <<y, m>> \in R
        <4>1. \A x \in T \ {y} : <<y, x>> \in R
          BY <3>1, <3>3 DEF Orders
        <4> QED BY <4>1
      <3> QED BY <3>1, <3>2, <3>3 DEF Orders
    <2> QED BY <2>2, <2>3
  <1> HIDE DEF G
  <1>3. Nat \subseteq G
    BY <1>1, <1>2, InductionOnNumbers
  <1> QED BY <1>3, <1>f DEF G

\* Every finite set can be sorted.
LEMMA SortExists ==
    ASSUME NEW P, IsFiniteSet(P), NEW R, Orders(R, P)
    PROVE  \E s : Sorts(s, R, P)
  <1> DEFINE G == {n \in Nat : \A T \in SUBSET P : Cardinality(T) = n => \E s : Sorts(s, R, T)}
  <1>f. \A T \in SUBSET P : IsFiniteSet(T) /\ Cardinality(T) \in Nat
    BY FS_Subset, FS_CardinalityType
  <1>1. 0 \in G
    <2>1. ASSUME NEW T \in SUBSET P, Cardinality(T) = 0 PROVE Sorts([i \in 1..0 |-> 0], R, T)
      <3>1. T = {}
        BY <1>f, <2>1, FS_EmptySet
      <3> QED BY <2>1, <3>1 DEF Sorts, Range
    <2> QED BY <2>1
  <1>2. ASSUME NEW n \in Nat, n \in G PROVE n + 1 \in G
    <2> SUFFICES ASSUME NEW T \in SUBSET P, Cardinality(T) = n + 1 PROVE \E s : Sorts(s, R, T)
      OBVIOUS
    <2>1. T # {} /\ IsFiniteSet(T) /\ Orders(R, T)
      BY <1>f, FS_EmptySet DEF Orders
    <2>2. PICK m \in T : \A x \in T \ {m} : <<m, x>> \in R
      BY <2>1, FirstExists
    <2> DEFINE U == T \ {m}
    <2>3. Cardinality(U) = n /\ U \in SUBSET P
      <3>1. Cardinality(U) = Cardinality(T) - 1
        BY <2>1, FS_RemoveElement
      <3> QED BY <3>1
    <2>4. PICK s : Sorts(s, R, U)
      BY <1>2, <2>3
    <2> DEFINE t == [i \in 1..(n + 1) |-> IF i = 1 THEN m ELSE s[i - 1]]
    <2>5. /\ DOMAIN s = 1..n /\ Range(s) = U /\ \A i \in 1..n : s[i] \in U
          /\ \A i, k \in 1..n : i < k => <<s[i], s[k]>> \in R
      BY <2>3, <2>4 DEF Sorts
    <2>6. ASSUME NEW i \in 1..(n + 1), i # 1 PROVE i - 1 \in 1..n /\ t[i] = s[i - 1]
      BY <2>6
    <2>7. t[1] = m /\ 1 \in 1..(n + 1)
      OBVIOUS
    <2> HIDE DEF U
    <2>8. t \in [1..(n + 1) -> T]
      BY <2>5, <2>6 DEF U
    <2>9. Range(t) = T
      <3>1. ASSUME NEW x \in T PROVE x \in Range(t)
        <4>1. CASE x = m
          BY <2>7, <4>1 DEF Range
        <4>2. CASE x # m
          <5>1. PICK i \in 1..n : x = s[i]
            BY <2>5, <4>2 DEF U, Range
          <5>2. i + 1 \in 1..(n + 1) /\ i + 1 # 1 /\ (i + 1) - 1 = i
            OBVIOUS
          <5>3. t[i + 1] = x
            BY <2>6, <5>1, <5>2
          <5> QED BY <5>2, <5>3 DEF Range
        <4> QED BY <4>1, <4>2
      <3> QED BY <2>8, <3>1 DEF Range
    <2>10. ASSUME NEW i \in 1..(n + 1), NEW k \in 1..(n + 1), i < k PROVE <<t[i], t[k]>> \in R
      <3>1. k # 1 /\ k - 1 \in 1..n /\ t[k] = s[k - 1]
        BY <2>6, <2>10
      <3>2. CASE i = 1
        <4>1. t[i] = m /\ t[k] \in U
          BY <2>5, <2>7, <3>1, <3>2
        <4> QED BY <2>2, <4>1 DEF U
      <3>3. CASE i # 1
        <4>1. i - 1 \in 1..n /\ t[i] = s[i - 1] /\ i - 1 < k - 1
          BY <2>6, <2>10, <3>3
        <4> QED BY <2>5, <3>1, <4>1
      <3> QED BY <3>2, <3>3
    <2> HIDE DEF t
    <2>11. Sorts(t, R, T)
      BY <2>8, <2>9, <2>10 DEF Sorts
    <2> QED BY <2>11
  <1> HIDE DEF G
  <1>3. Nat \subseteq G
    BY <1>1, <1>2, InductionOnNumbers
  <1> QED BY <1>3, <1>f DEF G
=============================================================================
