----------------------------- MODULE SetLemmas -----------------------------
(***************************************************************************)
(* Lemmas about finite sets several proofs share: least elements (stream    *)
(* entries and signatures are taken in order), induction over naturals and  *)
(* subsets, and sums (amounts of money over the rows of a table).           *)
(***************************************************************************)
EXTENDS Integers, FiniteSets, FiniteSetsExt, FiniteSetTheorems, WellFoundedInduction, TLAPS

\* A set of naturals that is not empty has a least element.
LEMMA LeastNatural ==
    ASSUME NEW S \in SUBSET Nat, S # {}
    PROVE  \E i \in S : \A j \in S : i <= j
<1> DEFINE R == OpToRel(<, Nat)
<1>1. \A x, y \in Nat : <<y, x>> \in R <=> y < x
  BY DEF OpToRel
<1>2. PICK x \in S : \A y \in S : ~(<<y, x>> \in R)
  <2> HIDE DEF R
  <2>1. IsWellFoundedOn(R, Nat)
    BY NatLessThanWellFounded DEF R
  <2> QED BY <2>1, WFMin
<1>3. \E i \in S : \A j \in S : ~(j < i)
  <2> HIDE DEF R
  <2> QED BY <1>1, <1>2
<1> QED BY <1>3

----------------------------------------------------------------------------
(* Induction, with the set of what is good in the place of a predicate.     *)

\* A set that has 0, and with each natural the next, has them all.
LEMMA NaturalInduction ==
    ASSUME NEW Good, 0 \in Good, \A n \in Nat : n \in Good => n + 1 \in Good
    PROVE  Nat \subseteq Good
<1> DEFINE Bad == Nat \ Good
<1> SUFFICES ASSUME Bad # {} PROVE FALSE
  OBVIOUS
<1>1. PICK n \in Bad : \A m \in Bad : n <= m
  BY LeastNatural
<1>2. n # 0 /\ n - 1 \in Nat
  BY <1>1
<1>3. n - 1 \in Good
  BY <1>1, <1>2
<1> QED BY <1>1, <1>2, <1>3

\* If a subset of a finite set is good whenever every set with one element less
\* is, then every subset is good.
LEMMA SubsetInduction ==
    ASSUME NEW S, IsFiniteSet(S), NEW Good,
           \A T \in SUBSET S : (\A x \in T : T \ {x} \in Good) => T \in Good
    PROVE  SUBSET S \subseteq Good
<1> DEFINE Sized == {n \in Nat : \A T \in SUBSET S : Cardinality(T) = n => T \in Good}
<1>1. \A T \in SUBSET S : IsFiniteSet(T) /\ Cardinality(T) \in Nat
  BY FS_Subset, FS_CardinalityType
<1>2. 0 \in Sized
  <2> SUFFICES ASSUME NEW T \in SUBSET S, Cardinality(T) = 0 PROVE T \in Good
    OBVIOUS
  <2>1. T = {}
    BY <1>1, FS_EmptySet
  <2> QED BY <2>1
<1>3. ASSUME NEW n \in Nat, n \in Sized
      PROVE  n + 1 \in Sized
  <2> SUFFICES ASSUME NEW T \in SUBSET S, Cardinality(T) = n + 1 PROVE T \in Good
    OBVIOUS
  <2> SUFFICES ASSUME NEW x \in T PROVE T \ {x} \in Good
    OBVIOUS
  <2>1. IsFiniteSet(T) /\ T \ {x} \in SUBSET S
    BY <1>1
  <2>2. Cardinality(T \ {x}) = Cardinality(T) - 1
    BY <2>1, FS_RemoveElement
  <2>3. Cardinality(T \ {x}) = n
    BY <2>2
  <2> QED BY <1>3, <2>1, <2>3
<1>4. Nat \subseteq Sized
  <2> HIDE DEF Sized
  <2> QED BY <1>2, <1>3, NaturalInduction
<1>5. \A T \in SUBSET S : Cardinality(T) \in Sized
  <2> HIDE DEF Sized
  <2> QED BY <1>1, <1>4
<1> QED BY <1>5

----------------------------------------------------------------------------
(* Sums over a finite set                                                   *)

\* The function MapThenSumSet is made of: take an element, add up the rest.
Pick(s) == CHOOSE x \in s : TRUE

AddStep(f, g, s) == IF s = {} THEN 0 ELSE f[Pick(s)] + g[s \ {Pick(s)}]

Adds(f, S, g) == g = [s \in SUBSET S |-> AddStep(f, g, s)]

Adder(f, S) == CHOOSE g : Adds(f, S, g)

\* The sum of the values of a function over a set.
SumOf(f, S) == MapThenSumSet(LAMBDA x : f[x], S)

\* SumOf is the value of that function on the whole set.
LEMMA SumIsAdder ==
    ASSUME NEW f, NEW S
    PROVE  SumOf(f, S) = Adder(f, S)[S]
BY Zenon DEF SumOf, MapThenSumSet, MapThenFoldSet, Adder, Adds, AddStep, Pick

\* What is picked is an element.
LEMMA PickIn == \A s : s # {} => Pick(s) \in s
BY DEF Pick

\* There is such a function: one for the subsets of n elements gives one for n + 1.
LEMMA AdderExists ==
    ASSUME NEW S, IsFiniteSet(S), NEW f, \A x \in S : f[x] \in Int
    PROVE  \E g \in [SUBSET S -> Int] : Adds(f, S, g)
<1> DEFINE Small(n) == {s \in SUBSET S : Cardinality(s) <= n}
           AddsUpTo(n) == \E g \in [Small(n) -> Int] : \A s \in Small(n) : g[s] = AddStep(f, g, s)
           Good == {n \in Nat : AddsUpTo(n)}
<1>1. \A T \in SUBSET S : IsFiniteSet(T) /\ Cardinality(T) \in Nat
  BY FS_Subset, FS_CardinalityType
<1>2. 0 \in Good
  <2>1. \A s \in Small(0) : s = {}
    BY <1>1, FS_EmptySet
  <2> DEFINE g == [s \in Small(0) |-> 0]
  <2>2. g \in [Small(0) -> Int] /\ \A s \in Small(0) : g[s] = AddStep(f, g, s)
    BY <2>1 DEF AddStep
  <2> HIDE DEF Small
  <2> QED BY <2>2
<1>3. ASSUME NEW n \in Nat, n \in Good
      PROVE  n + 1 \in Good
  <2>1. PICK g \in [Small(n) -> Int] : \A s \in Small(n) : g[s] = AddStep(f, g, s)
    BY <1>3
  <2> DEFINE h == [s \in Small(n + 1) |-> AddStep(f, g, s)]
  <2>2. \A s \in Small(n + 1) : s # {} => Pick(s) \in S /\ s \ {Pick(s)} \in Small(n)
    <3> SUFFICES ASSUME NEW s \in Small(n + 1), s # {}
                 PROVE  Pick(s) \in S /\ s \ {Pick(s)} \in Small(n)
      OBVIOUS
    <3>1. Pick(s) \in s
      BY PickIn
    <3>2. Cardinality(s \ {Pick(s)}) = Cardinality(s) - 1
      BY <1>1, <3>1, FS_RemoveElement
    <3> QED BY <1>1, <3>1, <3>2
  <2>3. Small(n) \subseteq Small(n + 1)
    BY <1>1
  <2> HIDE DEF Small
  <2>4. \A s \in Small(n + 1) : h[s] = AddStep(f, g, s)
    OBVIOUS
  <2>5. \A s \in Small(n) : h[s] = g[s]
    BY <2>1, <2>3, <2>4
  <2> HIDE DEF h
  <2>6. \A s \in Small(n + 1) : AddStep(f, h, s) = AddStep(f, g, s) /\ AddStep(f, g, s) \in Int
    BY <2>2, <2>5 DEF AddStep
  <2>7. h \in [Small(n + 1) -> Int]
    BY <2>6 DEF h
  <2> QED BY <2>4, <2>6, <2>7
<1>4. Cardinality(S) \in Good
  <2>1. Nat \subseteq Good
    <3> HIDE DEF Good
    <3> QED BY <1>2, <1>3, NaturalInduction
  <2> QED BY <1>1, <2>1
<1>5. Small(Cardinality(S)) = SUBSET S
  BY <1>1, FS_Subset
<1>6. PICK g \in [SUBSET S -> Int] : \A s \in SUBSET S : g[s] = AddStep(f, g, s)
  <2> HIDE DEF Small
  <2> QED BY <1>4, <1>5
<1> QED BY <1>6 DEF Adds

\* Two of them, for two sets and two functions that agree on both, agree on both.
LEMMA AddersAgree ==
    ASSUME NEW S, IsFiniteSet(S), NEW T, IsFiniteSet(T), NEW f, NEW h,
           \A x \in S \cap T : f[x] = h[x],
           NEW g, Adds(f, S, g), NEW k, Adds(h, T, k)
    PROVE  \A s \in SUBSET (S \cap T) : g[s] = k[s]
<1> DEFINE Good == {s \in SUBSET (S \cap T) : g[s] = k[s]}
<1>1. ASSUME NEW s \in SUBSET (S \cap T), \A x \in s : s \ {x} \in Good
      PROVE  s \in Good
  <2>1. g[s] = AddStep(f, g, s) /\ k[s] = AddStep(h, k, s)
    BY DEF Adds
  <2>2. CASE s = {}
    BY <2>1, <2>2 DEF AddStep
  <2>3. CASE s # {}
    <3>1. Pick(s) \in s
      BY <2>3, PickIn
    <3>2. g[s \ {Pick(s)}] = k[s \ {Pick(s)}]
      BY <1>1, <3>1
    <3> QED BY <2>1, <2>3, <3>1, <3>2 DEF AddStep
  <2> QED BY <2>2, <2>3
<1>2. IsFiniteSet(S \cap T)
  BY FS_Subset
<1>3. SUBSET (S \cap T) \subseteq Good
  <2> HIDE DEF Good
  <2> QED BY <1>1, <1>2, SubsetInduction
<1> QED BY <1>3

\* It is a function from the subsets to the integers, and it does add up.
LEMMA AdderType ==
    ASSUME NEW S, IsFiniteSet(S), NEW f, \A x \in S : f[x] \in Int
    PROVE  Adder(f, S) \in [SUBSET S -> Int] /\ Adds(f, S, Adder(f, S))
<1>1. PICK g \in [SUBSET S -> Int] : Adds(f, S, g)
  BY AdderExists
<1>2. Adds(f, S, Adder(f, S))
  BY <1>1, Zenon DEF Adder
<1> DEFINE a == Adder(f, S)
<1>3. \A s \in SUBSET (S \cap S) : g[s] = a[s]
  <2> HIDE DEF a
  <2>1. Adds(f, S, a)
    BY <1>2 DEF a
  <2> QED BY <1>1, <2>1, AddersAgree
<1>4. \A s \in SUBSET S : a[s] \in Int
  BY <1>1, <1>3
<1>5. a = [s \in SUBSET S |-> AddStep(f, a, s)]
  BY <1>2 DEF Adds
<1>6. a \in [SUBSET S -> Int]
  <2> HIDE DEF a
  <2> QED BY <1>4, <1>5
<1> QED BY <1>2, <1>6

\* Whichever element is taken first, the sum is the same.
LEMMA AdderTakesAny ==
    ASSUME NEW S, IsFiniteSet(S), NEW f, \A x \in S : f[x] \in Int,
           NEW g, Adds(f, S, g), \A s \in SUBSET S : g[s] \in Int
    PROVE  \A s \in SUBSET S : \A y \in s : g[s] = f[y] + g[s \ {y}]
<1> DEFINE Good == {s \in SUBSET S : \A y \in s : g[s] = f[y] + g[s \ {y}]}
<1>1. ASSUME NEW s \in SUBSET S, \A x \in s : s \ {x} \in Good
      PROVE  s \in Good
  <2> SUFFICES ASSUME NEW y \in s PROVE g[s] = f[y] + g[s \ {y}]
    OBVIOUS
  <2> DEFINE c == Pick(s)
  <2>1. c \in s
    BY PickIn
  <2>2. g[s] = f[c] + g[s \ {c}]
    <3>1. g[s] = AddStep(f, g, s)
      BY DEF Adds
    <3> QED BY <3>1 DEF AddStep
  <2> HIDE DEF c
  <2>3. CASE c = y
    BY <2>2, <2>3, Zenon
  <2>4. CASE c # y
    <3> DEFINE r == (s \ {c}) \ {y}
    <3>1. r = (s \ {y}) \ {c} /\ r \in SUBSET S
      OBVIOUS
    <3>2. g[s \ {c}] = f[y] + g[r]
      BY <1>1, <2>1, <2>4
    <3>3. g[s \ {y}] = f[c] + g[(s \ {y}) \ {c}]
      BY <1>1, <2>1, <2>4
    <3>4. f[c] \in Int /\ f[y] \in Int /\ g[r] \in Int
      BY <2>1, <3>1
    <3>5. g[s] = f[c] + (f[y] + g[r]) /\ g[s \ {y}] = f[c] + g[r]
      BY <2>2, <3>1, <3>2, <3>3, Zenon
    <3> HIDE DEF r
    <3>6. f[c] + (f[y] + g[r]) = f[y] + (f[c] + g[r])
      BY <3>4
    <3> QED BY <3>5, <3>6, Zenon
  <2> QED BY <2>3, <2>4
<1>2. SUBSET S \subseteq Good
  <2> HIDE DEF Good
  <2> QED BY <1>1, SubsetInduction
<1> QED BY <1>2

----------------------------------------------------------------------------
(* The facts about sums                                                     *)

\* Nothing sums up to nothing.
LEMMA SumEmpty ==
    ASSUME NEW f
    PROVE  SumOf(f, {}) = 0
<1>1. IsFiniteSet({})
  BY FS_EmptySet
<1>2. Adds(f, {}, Adder(f, {}))
  BY <1>1, AdderType
<1>3. Adder(f, {})[{}] = AddStep(f, Adder(f, {}), {})
  BY <1>2 DEF Adds
<1> QED BY <1>3, SumIsAdder DEF AddStep

\* A sum of integers is one.
LEMMA SumType ==
    ASSUME NEW S, IsFiniteSet(S), NEW f, \A x \in S : f[x] \in Int
    PROVE  SumOf(f, S) \in Int
<1>1. Adder(f, S) \in [SUBSET S -> Int] /\ S \in SUBSET S
  BY AdderType
<1> QED BY <1>1, SumIsAdder

\* A sum over a subset does not depend on the set it is a subset of.
LEMMA SumWithin ==
    ASSUME NEW S, IsFiniteSet(S), NEW f, \A x \in S : f[x] \in Int, NEW T \in SUBSET S
    PROVE  Adder(f, S)[T] = SumOf(f, T)
<1>1. IsFiniteSet(T) /\ T \in SUBSET (S \cap T)
  BY FS_Subset
<1>2. Adds(f, S, Adder(f, S)) /\ Adds(f, T, Adder(f, T))
  BY <1>1, AdderType
<1>3. \A s \in SUBSET (S \cap T) : Adder(f, S)[s] = Adder(f, T)[s]
  BY <1>1, <1>2, AddersAgree
<1> QED BY <1>1, <1>3, SumIsAdder

\* One element less.
LEMMA SumRemove ==
    ASSUME NEW S, IsFiniteSet(S), NEW f, \A x \in S : f[x] \in Int, NEW y \in S
    PROVE  SumOf(f, S) = f[y] + SumOf(f, S \ {y})
<1>0. Adder(f, S) \in [SUBSET S -> Int] /\ Adds(f, S, Adder(f, S))
  BY AdderType
<1>1. Adds(f, S, Adder(f, S)) /\ \A s \in SUBSET S : Adder(f, S)[s] \in Int
  BY <1>0
<1>2. Adder(f, S)[S] = f[y] + Adder(f, S)[S \ {y}]
  BY <1>1, AdderTakesAny
<1>3. Adder(f, S)[S \ {y}] = SumOf(f, S \ {y})
  BY SumWithin
<1> QED BY <1>2, <1>3, SumIsAdder, Zenon

\* One element more.
LEMMA SumAdd ==
    ASSUME NEW S, IsFiniteSet(S), NEW f, \A x \in S : f[x] \in Int,
           NEW y, y \notin S, f[y] \in Int
    PROVE  SumOf(f, S \cup {y}) = f[y] + SumOf(f, S)
<1> DEFINE T == S \cup {y}
<1>1. IsFiniteSet(T) /\ \A x \in T : f[x] \in Int
  BY FS_AddElement
<1>2. T \ {y} = S /\ y \in T
  OBVIOUS
<1> HIDE DEF T
<1>3. SumOf(f, T) = f[y] + SumOf(f, T \ {y})
  BY <1>1, <1>2, SumRemove
<1> QED BY <1>2, <1>3 DEF T

\* A sum of values of one sign has that sign.
LEMMA SumNatural ==
    ASSUME NEW S, IsFiniteSet(S), NEW f, \A x \in S : f[x] \in Nat
    PROVE  SumOf(f, S) \in Nat
<1> DEFINE Good == {T \in SUBSET S : SumOf(f, T) \in Nat}
<1>1. ASSUME NEW T \in SUBSET S, \A x \in T : T \ {x} \in Good
      PROVE  T \in Good
  <2>1. CASE T = {}
    BY <2>1, SumEmpty
  <2>2. CASE T # {}
    <3>1. PICK x \in T : TRUE
      BY <2>2
    <3>2. IsFiniteSet(T) /\ \A y \in T : f[y] \in Int
      BY FS_Subset
    <3>3. SumOf(f, T) = f[x] + SumOf(f, T \ {x})
      BY <3>2, SumRemove
    <3>4. SumOf(f, T \ {x}) \in Nat /\ f[x] \in Nat
      BY <1>1, <3>1
    <3> QED BY <3>3, <3>4
  <2> QED BY <2>1, <2>2
<1>2. SUBSET S \subseteq Good
  <2> HIDE DEF Good
  <2> QED BY <1>1, SubsetInduction
<1> QED BY <1>2

LEMMA SumNotPositive ==
    ASSUME NEW S, IsFiniteSet(S), NEW f, \A x \in S : f[x] \in Int /\ f[x] <= 0
    PROVE  SumOf(f, S) \in Int /\ SumOf(f, S) <= 0
<1> DEFINE Good == {T \in SUBSET S : SumOf(f, T) \in Int /\ SumOf(f, T) <= 0}
<1>1. ASSUME NEW T \in SUBSET S, \A x \in T : T \ {x} \in Good
      PROVE  T \in Good
  <2>1. CASE T = {}
    BY <2>1, SumEmpty
  <2>2. CASE T # {}
    <3>1. PICK x \in T : TRUE
      BY <2>2
    <3>2. IsFiniteSet(T) /\ \A y \in T : f[y] \in Int
      BY FS_Subset
    <3>3. SumOf(f, T) = f[x] + SumOf(f, T \ {x})
      BY <3>2, SumRemove
    <3>4. SumOf(f, T \ {x}) \in Int /\ SumOf(f, T \ {x}) <= 0 /\ f[x] \in Int /\ f[x] <= 0
      BY <1>1, <3>1
    <3> QED BY <3>3, <3>4
  <2> QED BY <2>1, <2>2
<1>2. SUBSET S \subseteq Good
  <2> HIDE DEF Good
  <2> QED BY <1>1, SubsetInduction
<1> QED BY <1>2

\* A part sums up to no more than the whole.
LEMMA SumMonotone ==
    ASSUME NEW S, IsFiniteSet(S), NEW f, \A x \in S : f[x] \in Nat
    PROVE  \A T \in SUBSET S : SumOf(f, T) <= SumOf(f, S)
<1> DEFINE Good == {U \in SUBSET S : \A T \in SUBSET U : SumOf(f, T) <= SumOf(f, U)}
<1>1. ASSUME NEW U \in SUBSET S, \A x \in U : U \ {x} \in Good
      PROVE  U \in Good
  <2>1. IsFiniteSet(U) /\ \A x \in U : f[x] \in Nat
    BY FS_Subset
  <2> SUFFICES ASSUME NEW T \in SUBSET U PROVE SumOf(f, T) <= SumOf(f, U)
    OBVIOUS
  <2>2. CASE T = U
    <3>1. SumOf(f, U) \in Nat
      BY <2>1, SumNatural
    <3> QED BY <2>2, <3>1
  <2>3. CASE T # U
    <3>1. PICK x \in U : x \notin T
      BY <2>3
    <3>2. SumOf(f, T) <= SumOf(f, U \ {x})
      BY <1>1, <3>1
    <3>3. SumOf(f, U) = f[x] + SumOf(f, U \ {x})
      BY <2>1, <3>1, SumRemove
    <3>4. IsFiniteSet(T) /\ IsFiniteSet(U \ {x})
      BY <2>1, FS_Subset
    <3>5. SumOf(f, T) \in Nat /\ SumOf(f, U \ {x}) \in Nat /\ f[x] \in Nat
      BY <2>1, <3>4, SumNatural
    <3> QED BY <3>2, <3>3, <3>5
  <2> QED BY <2>2, <2>3
<1>2. SUBSET S \subseteq Good
  <2> HIDE DEF Good
  <2> QED BY <1>1, SubsetInduction
<1> QED BY <1>2

\* Only what the function is on the set matters.
LEMMA SumCongruent ==
    ASSUME NEW S, IsFiniteSet(S), NEW f, \A x \in S : f[x] \in Int,
           NEW h, \A x \in S : f[x] = h[x]
    PROVE  SumOf(f, S) = SumOf(h, S)
<1>1. Adds(f, S, Adder(f, S)) /\ Adds(h, S, Adder(h, S))
  BY AdderType
<1>2. \A s \in SUBSET (S \cap S) : Adder(f, S)[s] = Adder(h, S)[s]
  BY <1>1, AddersAgree
<1> QED BY <1>2, SumIsAdder

\* A value many times over is a product.
LEMMA SumAlike ==
    ASSUME NEW S, IsFiniteSet(S), NEW c \in Int, NEW f, \A x \in S : f[x] = c
    PROVE  SumOf(f, S) = c * Cardinality(S)
<1> DEFINE Good == {T \in SUBSET S : SumOf(f, T) = c * Cardinality(T)}
<1>1. ASSUME NEW T \in SUBSET S, \A x \in T : T \ {x} \in Good
      PROVE  T \in Good
  <2>1. IsFiniteSet(T) /\ Cardinality(T) \in Nat
    BY FS_Subset, FS_CardinalityType
  <2>2. CASE T = {}
    <3>1. SumOf(f, T) = 0 /\ Cardinality(T) = 0
      BY <2>2, SumEmpty, FS_EmptySet
    <3> QED BY <3>1
  <2>3. CASE T # {}
    <3>1. PICK x \in T : TRUE
      BY <2>3
    <3>2. SumOf(f, T \ {x}) = c * Cardinality(T \ {x})
      BY <1>1
    <3>3. Cardinality(T \ {x}) = Cardinality(T) - 1
      BY <2>1, FS_RemoveElement
    <3>4. SumOf(f, T) = c + SumOf(f, T \ {x})
      <4>1. f[x] = c /\ \A z \in T : f[z] \in Int
        OBVIOUS
      <4>2. SumOf(f, T) = f[x] + SumOf(f, T \ {x})
        BY <2>1, <4>1, SumRemove
      <4> QED BY <4>1, <4>2
    <3>5. c * Cardinality(T) = c + c * (Cardinality(T) - 1)
      BY <2>1
    <3> QED BY <3>2, <3>3, <3>4, <3>5
  <2> QED BY <2>2, <2>3
<1>2. SUBSET S \subseteq Good
  <2> HIDE DEF Good
  <2> QED BY <1>1, SubsetInduction
<1> QED BY <1>2

\* If no value is more than one, and at most one is not zero, nor is the sum.
LEMMA SumAtMostOne ==
    ASSUME NEW S, IsFiniteSet(S), NEW f, \A x \in S : f[x] \in {0, 1},
           \A x, y \in S : f[x] = 1 /\ f[y] = 1 => x = y
    PROVE  SumOf(f, S) <= 1
<1>1. CASE \A x \in S : f[x] = 0
  <2>1. SumOf(f, S) = 0 * Cardinality(S) /\ Cardinality(S) \in Nat
    BY <1>1, SumAlike, FS_CardinalityType
  <2> QED BY <2>1
<1>2. CASE \E x \in S : f[x] = 1
  <2>1. PICK x \in S : f[x] = 1
    BY <1>2
  <2>2. SumOf(f, S) = f[x] + SumOf(f, S \ {x})
    BY SumRemove
  <2>3. IsFiniteSet(S \ {x}) /\ \A y \in S \ {x} : f[y] = 0
    BY <2>1, FS_Subset
  <2>4. SumOf(f, S \ {x}) = 0 * Cardinality(S \ {x}) /\ Cardinality(S \ {x}) \in Nat
    BY <2>3, SumAlike, FS_CardinalityType
  <2> QED BY <2>1, <2>2, <2>4
<1> QED BY <1>1, <1>2
=============================================================================
