--------------------------------- MODULE Sums ----------------------------------
(****************************************************************************)
(* Sums over finite sets, SumFunctionOnSet of the community modules: what   *)
(* the proofs about money need to know of them.                             *)
(*                                                                          *)
(* A sum is defined by recursion over the set, and the provers cannot be    *)
(* given an induction rule, which has a predicate for a parameter.  The     *)
(* rule is therefore stated for the set of the subsets that have the        *)
(* property, SubsetInduction, and follows from the fact that strict         *)
(* inclusion of finite sets is well founded.                                *)
(****************************************************************************)
EXTENDS Integers, FiniteSets, Functions, FiniteSetTheorems, WellFoundedInduction, TLAPS

(* If a subset is in G whenever its strict subsets are, all subsets are.    *)
LEMMA SubsetInduction ==
  ASSUME NEW S, IsFiniteSet(S), NEW G,
         \A T \in SUBSET S : (\A U \in SUBSET T : U # T => U \in G) => T \in G
  PROVE  \A T \in SUBSET S : T \in G
<1> DEFINE R == StrictSubsetOrdering(S)
           F == FiniteSubsetsOf(S)
           B == (SUBSET S) \ G
<1>1. SUFFICES ASSUME B # {} PROVE FALSE
  OBVIOUS
<1>2. IsWellFoundedOn(R, F)
  BY FS_StrictSubsetOrderingWellFounded
<1>3. B \subseteq F
  BY FS_Subset DEF FiniteSubsetsOf
<1>4. PICK T \in B : \A U \in B : <<U, T>> \notin R
  <2> HIDE DEF R, F, B
  <2> QED BY <1>1, <1>2, <1>3, WFMin
<1>5. \A U \in SUBSET T : U # T => U \in G
  BY <1>4 DEF StrictSubsetOrdering
<1> QED BY <1>4, <1>5

--------------------------------------------------------------------------------
(****************************************************************************)
(* A fold is defined as the value of the function on the subsets that the   *)
(* recursion describes, and there is one such function.  It is the same for *)
(* sums and for products.                                                   *)
(****************************************************************************)

Product(f, S) == FoldFunctionOnSet(LAMBDA x, y : x * y, 1, f, S)

Unit(op) == IF op = "times" THEN 1 ELSE 0
Joined(op, x, y) == IF op = "times" THEN x * y ELSE x + y

Some(s) == CHOOSE x \in s : TRUE
IterStep(op, f, g, s) ==
  IF s = {} THEN Unit(op) ELSE Joined(op, f[Some(s)], g[s \ {Some(s)}])
IsIter(op, f, S, g) == g = [s \in SUBSET S |-> IterStep(op, f, g, s)]
Iter(op, f, S) == CHOOSE g : IsIter(op, f, S, g)

(* The community modules define the fold so.                                *)
LEMMA SumIsIter == \A f, S : SumFunctionOnSet(f, S) = Iter("plus", f, S)[S]
  BY DEF SumFunctionOnSet, FoldFunctionOnSet, MapThenFoldSet, Iter, IsIter, IterStep, Some,
         Unit, Joined

LEMMA ProductIsIter == \A f, S : Product(f, S) = Iter("times", f, S)[S]
  BY DEF Product, FoldFunctionOnSet, MapThenFoldSet, Iter, IsIter, IterStep, Some, Unit, Joined

LEMMA SomeIsOne == \A s : s # {} => Some(s) \in s
  BY DEF Some

LEMMA IterAt ==
  ASSUME NEW op, NEW f, NEW S, NEW g, IsIter(op, f, S, g), NEW s \in SUBSET S
  PROVE  g[s] = IF s = {} THEN Unit(op) ELSE Joined(op, f[Some(s)], g[s \ {Some(s)}])
  BY DEF IsIter, IterStep

(* Functions on the subsets of S and of a part of S agree on the part.      *)
LEMMA IterUnique ==
  ASSUME NEW op, NEW f, NEW S, IsFiniteSet(S), NEW T \in SUBSET S,
         NEW g, IsIter(op, f, S, g), NEW h, IsIter(op, f, T, h)
  PROVE  g[T] = h[T]
<1> DEFINE G == {s \in SUBSET T : g[s] = h[s]}
<1>1. ASSUME NEW s \in SUBSET T, \A U \in SUBSET s : U # s => U \in G
      PROVE  s \in G
  <2>1. s # {} => g[s \ {Some(s)}] = h[s \ {Some(s)}]
    BY <1>1, SomeIsOne
  <2>2. s \in SUBSET S
    OBVIOUS
  <2>3. g[s] = IF s = {} THEN Unit(op) ELSE Joined(op, f[Some(s)], g[s \ {Some(s)}])
    BY <2>2, IterAt
  <2>4. h[s] = IF s = {} THEN Unit(op) ELSE Joined(op, f[Some(s)], h[s \ {Some(s)}])
    BY IterAt
  <2> QED BY <2>1, <2>3, <2>4
<1>2. IsFiniteSet(T)
  BY FS_Subset
<1>3. \A s \in SUBSET T : s \in G
  <2> HIDE DEF G
  <2> QED BY <1>1, <1>2, SubsetInduction
<1>4. T \in SUBSET T
  OBVIOUS
<1> QED BY <1>3, <1>4

(* There is such a function for every finite set.                          *)
LEMMA IterExists ==
  ASSUME NEW op, NEW f, NEW S, IsFiniteSet(S)
  PROVE  IsIter(op, f, S, Iter(op, f, S))
<1> DEFINE G == {U \in SUBSET S : IsIter(op, f, U, Iter(op, f, U))}
<1>1. ASSUME NEW U \in SUBSET S, \A T \in SUBSET U : T # U => T \in G
      PROVE  U \in G
  <2> DEFINE g == [s \in SUBSET U |-> IF s = {} THEN Unit(op) ELSE
             Joined(op, f[Some(s)], Iter(op, f, s \ {Some(s)})[s \ {Some(s)}])]
  <2>1. ASSUME NEW s \in SUBSET U, s # {}
        PROVE  g[s \ {Some(s)}] = Iter(op, f, s \ {Some(s)})[s \ {Some(s)}]
    <3> DEFINE T == s \ {Some(s)}
               R == T \ {Some(T)}
    <3>1. T \in SUBSET U /\ T # U /\ R \in SUBSET T /\ R # U
      BY <2>1, SomeIsOne
    <3>2. IsIter(op, f, T, Iter(op, f, T)) /\ IsIter(op, f, R, Iter(op, f, R))
      BY <1>1, <3>1
    <3>3. IsFiniteSet(T)
      BY <3>1, FS_Subset
    <3>4. PICK h : h = Iter(op, f, T)
      OBVIOUS
    <3>5. PICK k : k = Iter(op, f, R)
      OBVIOUS
    <3>6. h[R] = k[R]
      <4> HIDE DEF T, R
      <4> QED BY <3>1, <3>2, <3>3, <3>4, <3>5, IterUnique
    <3>7. h[T] = IF T = {} THEN Unit(op) ELSE Joined(op, f[Some(T)], h[R])
      <4>1. T \in SUBSET T /\ IsIter(op, f, T, h)
        BY <3>2, <3>4
      <4> HIDE DEF T
      <4> QED BY <4>1, IterAt
    <3> QED BY <3>1, <3>4, <3>5, <3>6, <3>7
  <2>2. IsIter(op, f, U, g)
    <3>1. \A s \in SUBSET U : g[s] = IterStep(op, f, g, s)
      BY <2>1 DEF IterStep
    <3>2. g = [s \in SUBSET U |-> g[s]]
      OBVIOUS
    <3> HIDE DEF g
    <3> QED BY <3>1, <3>2 DEF IsIter
  <2>3. IsIter(op, f, U, Iter(op, f, U))
    <3> HIDE DEF g
    <3> QED BY <2>2 DEF Iter
  <2> QED BY <2>3
<1>2. \A U \in SUBSET S : U \in G
  <2> HIDE DEF G
  <2> QED BY <1>1, SubsetInduction
<1> QED BY <1>2

(* Its value at a part of the set is the fold over the part.               *)
LEMMA IterRestricts ==
  ASSUME NEW op, NEW f, NEW S, IsFiniteSet(S), NEW T \in SUBSET S
  PROVE  Iter(op, f, S)[T] = Iter(op, f, T)[T]
<1>1. IsFiniteSet(T)
  BY FS_Subset
<1>2. PICK g : g = Iter(op, f, S)
  OBVIOUS
<1>3. PICK h : h = Iter(op, f, T)
  OBVIOUS
<1>4. IsIter(op, f, S, g)
  BY <1>2, IterExists
<1>5. IsIter(op, f, T, h)
  BY <1>1, <1>3, IterExists
<1>6. g[T] = h[T]
  BY <1>4, <1>5, IterUnique
<1> QED BY <1>2, <1>3, <1>6

--------------------------------------------------------------------------------
(****************************************************************************)
(* What a sum is.                                                           *)
(****************************************************************************)

(* Nothing adds up to nothing,                                              *)
LEMMA SumEmpty == \A f : SumFunctionOnSet(f, {}) = 0
<1> TAKE f
<1>1. IsIter("plus", f, {}, Iter("plus", f, {}))
  BY IterExists, FS_EmptySet
<1>2. PICK g : g = Iter("plus", f, {})
  OBVIOUS
<1>3. g[{}] = Unit("plus")
  <2>1. {} \in SUBSET {} /\ IsIter("plus", f, {}, g)
    BY <1>1, <1>2
  <2> QED BY <2>1, IterAt
<1>4. g[{}] = 0
  BY <1>3 DEF Unit
<1> QED BY <1>2, <1>4, SumIsIter

(* otherwise one of the summands is added to the sum of the others.         *)
LEMMA SumStep ==
  ASSUME NEW f, NEW S, IsFiniteSet(S), S # {}
  PROVE  SumFunctionOnSet(f, S) = f[Some(S)] + SumFunctionOnSet(f, S \ {Some(S)})
<1>1. S \in SUBSET S /\ S \ {Some(S)} \in SUBSET S
  OBVIOUS
<1>2. PICK g : g = Iter("plus", f, S)
  OBVIOUS
<1>3. IsIter("plus", f, S, g)
  BY <1>2, IterExists
<1>4. g[S] = Joined("plus", f[Some(S)], g[S \ {Some(S)}])
  BY <1>1, <1>3, IterAt
<1>5. g[S] = f[Some(S)] + g[S \ {Some(S)}]
  BY <1>4 DEF Joined
<1>6. SumFunctionOnSet(f, S) = g[S]
  BY <1>2, SumIsIter
<1>7. SumFunctionOnSet(f, S \ {Some(S)}) = g[S \ {Some(S)}]
  BY <1>1, <1>2, IterRestricts, SumIsIter
<1> QED BY <1>5, <1>6, <1>7

(* A sum of integers is an integer.                                         *)
LEMMA SumType ==
  ASSUME NEW f, NEW S, IsFiniteSet(S), \A x \in S : f[x] \in Int
  PROVE  SumFunctionOnSet(f, S) \in Int
<1> DEFINE G == {s \in SUBSET S : SumFunctionOnSet(f, s) \in Int}
<1>1. ASSUME NEW s \in SUBSET S, \A U \in SUBSET s : U # s => U \in G
      PROVE  s \in G
  <2>1. CASE s = {}
    BY <2>1, SumEmpty
  <2>2. CASE s # {}
    <3>1. SumFunctionOnSet(f, s \ {Some(s)}) \in Int /\ f[Some(s)] \in Int
      BY <1>1, <2>2, SomeIsOne
    <3>2. SumFunctionOnSet(f, s) = f[Some(s)] + SumFunctionOnSet(f, s \ {Some(s)})
      BY <2>2, FS_Subset, SumStep
    <3> QED BY <3>1, <3>2
  <2> QED BY <2>1, <2>2
<1>2. \A s \in SUBSET S : s \in G
  <2> HIDE DEF G
  <2> QED BY <1>1, SubsetInduction
<1> QED BY <1>2

(* Any one of the summands, whichever the definition takes first.           *)
LEMMA SumTakeOut ==
  ASSUME NEW f, NEW S, IsFiniteSet(S), \A x \in S : f[x] \in Int, NEW x \in S
  PROVE  SumFunctionOnSet(f, S) = f[x] + SumFunctionOnSet(f, S \ {x})
<1> DEFINE G == {s \in SUBSET S : \A y \in s :
                   SumFunctionOnSet(f, s) = f[y] + SumFunctionOnSet(f, s \ {y})}
<1>1. ASSUME NEW s \in SUBSET S, \A U \in SUBSET s : U # s => U \in G
      PROVE  s \in G
  <2> SUFFICES ASSUME NEW y \in s
               PROVE  SumFunctionOnSet(f, s) = f[y] + SumFunctionOnSet(f, s \ {y})
    OBVIOUS
  <2> DEFINE c == Some(s)
  <2>1. c \in s /\ IsFiniteSet(s)
    BY SomeIsOne, FS_Subset
  <2>2. SumFunctionOnSet(f, s) = f[c] + SumFunctionOnSet(f, s \ {c})
    BY <2>1, SumStep
  <2>3. CASE c = y
    BY <2>2, <2>3
  <2>4. CASE c # y
    <3> DEFINE v == SumFunctionOnSet(f, s \ {c})
               w == SumFunctionOnSet(f, s \ {y})
               z == SumFunctionOnSet(f, (s \ {c}) \ {y})
               a == f[c]
               b == f[y]
    <3>1. s \ {c} \in G /\ y \in s \ {c} /\ s \ {y} \in G /\ c \in s \ {y}
      BY <1>1, <2>1, <2>4
    <3>2. v = b + z
      BY <3>1
    <3>3. w = a + z
      <4>1. (s \ {y}) \ {c} = (s \ {c}) \ {y}
        OBVIOUS
      <4>2. w = a + SumFunctionOnSet(f, (s \ {y}) \ {c})
        BY <3>1
      <4> QED BY <4>1, <4>2
    <3>4. a \in Int /\ b \in Int /\ z \in Int
      <4>1. IsFiniteSet((s \ {c}) \ {y}) /\ (s \ {c}) \ {y} \in SUBSET S
        BY <2>1, FS_Subset
      <4> QED BY <2>1, <4>1, SumType
    <3>5. a + v = b + w
      <4> HIDE DEF v, w, z, a, b
      <4> QED BY <3>2, <3>3, <3>4
    <3> QED BY <2>2, <3>5
  <2> QED BY <2>3, <2>4
<1>2. \A s \in SUBSET S : s \in G
  <2> HIDE DEF G
  <2> QED BY <1>1, SubsetInduction
<1> QED BY <1>2

--------------------------------------------------------------------------------
(****************************************************************************)
(* How sums compare.                                                        *)
(****************************************************************************)

(* Equal summands, equal sums.                                              *)
LEMMA SumCongruent ==
  ASSUME NEW S, IsFiniteSet(S), NEW f, NEW g, \A x \in S : f[x] = g[x]
  PROVE  SumFunctionOnSet(f, S) = SumFunctionOnSet(g, S)
<1> DEFINE G == {s \in SUBSET S : SumFunctionOnSet(f, s) = SumFunctionOnSet(g, s)}
<1>1. ASSUME NEW s \in SUBSET S, \A U \in SUBSET s : U # s => U \in G
      PROVE  s \in G
  <2>1. CASE s = {}
    BY <2>1, SumEmpty
  <2>2. CASE s # {}
    <3>1. Some(s) \in s /\ f[Some(s)] = g[Some(s)] /\ IsFiniteSet(s)
      BY <2>2, SomeIsOne, FS_Subset
    <3>2. SumFunctionOnSet(f, s \ {Some(s)}) = SumFunctionOnSet(g, s \ {Some(s)})
      BY <1>1, <3>1
    <3> QED BY <2>2, <3>1, <3>2, SumStep
  <2> QED BY <2>1, <2>2
<1>2. \A s \in SUBSET S : s \in G
  <2> HIDE DEF G
  <2> QED BY <1>1, SubsetInduction
<1> QED BY <1>2

(* Smaller summands, a smaller sum.                                         *)
LEMMA SumMonotone ==
  ASSUME NEW S, IsFiniteSet(S), NEW f, NEW g,
         \A x \in S : f[x] \in Int /\ g[x] \in Int /\ f[x] <= g[x]
  PROVE  SumFunctionOnSet(f, S) <= SumFunctionOnSet(g, S)
<1> DEFINE G == {s \in SUBSET S : SumFunctionOnSet(f, s) <= SumFunctionOnSet(g, s)}
<1>1. ASSUME NEW s \in SUBSET S, \A U \in SUBSET s : U # s => U \in G
      PROVE  s \in G
  <2>1. CASE s = {}
    <3>1. SumFunctionOnSet(f, {}) = 0 /\ SumFunctionOnSet(g, {}) = 0
      BY SumEmpty
    <3>2. SumFunctionOnSet(f, {}) <= SumFunctionOnSet(g, {})
      BY <3>1
    <3> QED BY <2>1, <3>2
  <2>2. CASE s # {}
    <3> DEFINE c == Some(s)
               T == s \ {c}
    <3>1. c \in s /\ IsFiniteSet(s) /\ IsFiniteSet(T)
      BY <2>2, SomeIsOne, FS_Subset
    <3>2. SumFunctionOnSet(f, T) <= SumFunctionOnSet(g, T)
      BY <1>1, <3>1
    <3>3. /\ f[c] \in Int /\ g[c] \in Int /\ f[c] <= g[c]
          /\ SumFunctionOnSet(f, T) \in Int /\ SumFunctionOnSet(g, T) \in Int
      BY <3>1, SumType
    <3>4. /\ SumFunctionOnSet(f, s) = f[c] + SumFunctionOnSet(f, T)
          /\ SumFunctionOnSet(g, s) = g[c] + SumFunctionOnSet(g, T)
      BY <2>2, <3>1, SumStep
    <3>5. SumFunctionOnSet(f, s) <= SumFunctionOnSet(g, s)
      <4> HIDE DEF c, T
      <4> QED BY <3>2, <3>3, <3>4
    <3> QED BY <3>5
  <2> QED BY <2>1, <2>2
<1>2. \A s \in SUBSET S : s \in G
  <2> HIDE DEF G
  <2> QED BY <1>1, SubsetInduction
<1> QED BY <1>2

(* A common factor.                                                         *)
LEMMA SumScaled ==
  ASSUME NEW S, IsFiniteSet(S), NEW f, NEW g, NEW k \in Int,
         \A x \in S : f[x] \in Int /\ g[x] = k * f[x]
  PROVE  SumFunctionOnSet(g, S) = k * SumFunctionOnSet(f, S)
<1> DEFINE G == {s \in SUBSET S : SumFunctionOnSet(g, s) = k * SumFunctionOnSet(f, s)}
<1>1. ASSUME NEW s \in SUBSET S, \A U \in SUBSET s : U # s => U \in G
      PROVE  s \in G
  <2>1. CASE s = {}
    <3>1. SumFunctionOnSet(f, {}) = 0 /\ SumFunctionOnSet(g, {}) = 0 /\ k * 0 = 0
      BY SumEmpty
    <3>2. SumFunctionOnSet(g, {}) = k * SumFunctionOnSet(f, {})
      BY <3>1
    <3> QED BY <2>1, <3>2
  <2>2. CASE s # {}
    <3> DEFINE c == Some(s)
               T == s \ {c}
    <3>1. c \in s /\ IsFiniteSet(s) /\ IsFiniteSet(T)
      BY <2>2, SomeIsOne, FS_Subset
    <3>2. SumFunctionOnSet(g, T) = k * SumFunctionOnSet(f, T)
      BY <1>1, <3>1
    <3>3. f[c] \in Int /\ g[c] = k * f[c] /\ SumFunctionOnSet(f, T) \in Int
      BY <3>1, SumType
    <3>4. /\ SumFunctionOnSet(f, s) = f[c] + SumFunctionOnSet(f, T)
          /\ SumFunctionOnSet(g, s) = g[c] + SumFunctionOnSet(g, T)
      BY <2>2, <3>1, SumStep
    <3>5. \A a, b \in Int : k * a + k * b = k * (a + b)
      OBVIOUS
    <3>6. SumFunctionOnSet(g, s) = k * SumFunctionOnSet(f, s)
      <4> HIDE DEF c, T
      <4> QED BY <3>2, <3>3, <3>4, <3>5
    <3> QED BY <3>6
  <2> QED BY <2>1, <2>2
<1>2. \A s \in SUBSET S : s \in G
  <2> HIDE DEF G
  <2> QED BY <1>1, SubsetInduction
<1> QED BY <1>2

(* Zeros add up to zero, naturals to a natural.                             *)
LEMMA SumZero ==
  ASSUME NEW S, IsFiniteSet(S), NEW f, \A x \in S : f[x] = 0
  PROVE  SumFunctionOnSet(f, S) = 0
<1>1. SumFunctionOnSet(f, S) \in Int
  BY SumType
<1>2. SumFunctionOnSet(f, S) = 0 * SumFunctionOnSet(f, S)
  <2>1. \A x \in S : f[x] \in Int /\ f[x] = 0 * f[x]
    OBVIOUS
  <2> QED BY <2>1, SumScaled
<1> QED BY <1>1, <1>2

LEMMA SumNat ==
  ASSUME NEW S, IsFiniteSet(S), NEW f, \A x \in S : f[x] \in Nat
  PROVE  SumFunctionOnSet(f, S) \in Nat
<1> DEFINE z == [x \in S |-> 0]
<1>1. SumFunctionOnSet(f, S) \in Int
  BY SumType
<1>2. SumFunctionOnSet(z, S) = 0
  BY SumZero
<1>3. SumFunctionOnSet(z, S) <= SumFunctionOnSet(f, S)
  <2>1. \A x \in S : z[x] \in Int /\ f[x] \in Int /\ z[x] <= f[x]
    OBVIOUS
  <2> HIDE DEF z
  <2> QED BY <2>1, SumMonotone
<1> QED BY <1>1, <1>2, <1>3

(* What two sets have together.                                             *)
LEMMA SumUnion ==
  ASSUME NEW S, NEW T, IsFiniteSet(S), IsFiniteSet(T), S \intersect T = {},
         NEW f, \A x \in S \union T : f[x] \in Int
  PROVE  SumFunctionOnSet(f, S \union T) = SumFunctionOnSet(f, S) + SumFunctionOnSet(f, T)
<1> DEFINE G == {s \in SUBSET S : SumFunctionOnSet(f, s \union T)
                                    = SumFunctionOnSet(f, s) + SumFunctionOnSet(f, T)}
<1>0. SumFunctionOnSet(f, T) \in Int
  BY SumType
<1>1. ASSUME NEW s \in SUBSET S, \A U \in SUBSET s : U # s => U \in G
      PROVE  s \in G
  <2>1. CASE s = {}
    <3>1. {} \union T = T /\ SumFunctionOnSet(f, {}) = 0
      BY SumEmpty
    <3>2. SumFunctionOnSet(f, {} \union T) = SumFunctionOnSet(f, {}) + SumFunctionOnSet(f, T)
      BY <1>0, <3>1
    <3> QED BY <2>1, <3>2
  <2>2. CASE s # {}
    <3> DEFINE c == Some(s)
               r == s \ {c}
    <3>1. c \in s /\ c \notin T
      BY <2>2, SomeIsOne
    <3>2. IsFiniteSet(s) /\ IsFiniteSet(r) /\ IsFiniteSet(s \union T) /\ f[c] \in Int
      BY <3>1, FS_Subset, FS_Union
    <3>3. (s \union T) \ {c} = r \union T /\ c \in s \union T
      BY <3>1
    <3>4. SumFunctionOnSet(f, s \union T) = f[c] + SumFunctionOnSet(f, r \union T)
      BY <3>2, <3>3, SumTakeOut
    <3>5. SumFunctionOnSet(f, s) = f[c] + SumFunctionOnSet(f, r)
      BY <2>2, <3>2, SumStep
    <3>6. SumFunctionOnSet(f, r \union T) = SumFunctionOnSet(f, r) + SumFunctionOnSet(f, T)
      BY <1>1, <3>1
    <3>7. SumFunctionOnSet(f, r) \in Int
      BY <3>2, SumType
    <3>8. SumFunctionOnSet(f, s \union T) = SumFunctionOnSet(f, s) + SumFunctionOnSet(f, T)
      <4> HIDE DEF c, r
      <4> QED BY <1>0, <3>2, <3>4, <3>5, <3>6, <3>7
    <3> QED BY <3>8
  <2> QED BY <2>1, <2>2
<1>2. \A s \in SUBSET S : s \in G
  <2> HIDE DEF G
  <2> QED BY <1>1, SubsetInduction
<1> QED BY <1>2

(* Part of a set of natural summands.                                       *)
LEMMA SumSubset ==
  ASSUME NEW S, IsFiniteSet(S), NEW T \in SUBSET S, NEW f, \A x \in S : f[x] \in Nat
  PROVE  SumFunctionOnSet(f, T) <= SumFunctionOnSet(f, S)
<1> DEFINE U == S \ T
<1>1. IsFiniteSet(T) /\ IsFiniteSet(U) /\ T \intersect U = {} /\ T \union U = S
  BY FS_Subset
<1>2. SumFunctionOnSet(f, T) \in Nat /\ SumFunctionOnSet(f, U) \in Nat
  BY <1>1, SumNat
<1>3. SumFunctionOnSet(f, S) = SumFunctionOnSet(f, T) + SumFunctionOnSet(f, U)
  <2> HIDE DEF U
  <2> QED BY <1>1, SumUnion
<1> QED BY <1>2, <1>3

(* One summand more.                                                        *)
LEMMA SumAdd ==
  ASSUME NEW S, IsFiniteSet(S), NEW x, x \notin S, NEW f, \A y \in S \union {x} : f[y] \in Int
  PROVE  SumFunctionOnSet(f, S \union {x}) = f[x] + SumFunctionOnSet(f, S)
<1>1. (S \union {x}) \ {x} = S /\ x \in S \union {x} /\ IsFiniteSet(S \union {x})
  BY FS_AddElement
<1> QED BY <1>1, SumTakeOut

(* A summand changes, and the sum by as much.                               *)
LEMMA SumUpdate ==
  ASSUME NEW S, IsFiniteSet(S), NEW f, NEW g, \A y \in S : f[y] \in Int /\ g[y] \in Int,
         NEW x \in S, \A y \in S \ {x} : g[y] = f[y]
  PROVE  SumFunctionOnSet(g, S) = SumFunctionOnSet(f, S) + (g[x] - f[x])
<1> DEFINE R == S \ {x}
<1>1. IsFiniteSet(R) /\ R \subseteq S
  BY FS_Subset
<1>2. SumFunctionOnSet(f, S) = f[x] + SumFunctionOnSet(f, R)
  BY SumTakeOut
<1>3. SumFunctionOnSet(g, S) = g[x] + SumFunctionOnSet(g, R)
  BY SumTakeOut
<1>4. SumFunctionOnSet(g, R) = SumFunctionOnSet(f, R) /\ SumFunctionOnSet(f, R) \in Int
  <2>1. \A y \in R : g[y] = f[y] /\ f[y] \in Int
    OBVIOUS
  <2> HIDE DEF R
  <2> QED BY <1>1, <2>1, SumCongruent, SumType
<1>5. f[x] \in Int /\ g[x] \in Int
  OBVIOUS
<1> HIDE DEF R
<1> QED BY <1>2, <1>3, <1>4, <1>5

(* Summands that are sums.                                                  *)
LEMMA SumPlus ==
  ASSUME NEW S, IsFiniteSet(S), NEW f, NEW g, NEW h,
         \A x \in S : f[x] \in Int /\ g[x] \in Int /\ h[x] = f[x] + g[x]
  PROVE  SumFunctionOnSet(h, S) = SumFunctionOnSet(f, S) + SumFunctionOnSet(g, S)
<1> DEFINE G == {s \in SUBSET S : SumFunctionOnSet(h, s)
                                    = SumFunctionOnSet(f, s) + SumFunctionOnSet(g, s)}
<1>1. ASSUME NEW s \in SUBSET S, \A U \in SUBSET s : U # s => U \in G
      PROVE  s \in G
  <2>1. CASE s = {}
    <3>1. /\ SumFunctionOnSet(f, {}) = 0 /\ SumFunctionOnSet(g, {}) = 0
          /\ SumFunctionOnSet(h, {}) = 0
      BY SumEmpty
    <3>2. SumFunctionOnSet(h, {}) = SumFunctionOnSet(f, {}) + SumFunctionOnSet(g, {})
      BY <3>1
    <3> QED BY <2>1, <3>2
  <2>2. CASE s # {}
    <3> DEFINE c == Some(s)
               r == s \ {c}
    <3>1. c \in s /\ IsFiniteSet(s) /\ IsFiniteSet(r)
      BY <2>2, SomeIsOne, FS_Subset
    <3>2. SumFunctionOnSet(h, r) = SumFunctionOnSet(f, r) + SumFunctionOnSet(g, r)
      BY <1>1, <3>1
    <3>3. /\ f[c] \in Int /\ g[c] \in Int /\ h[c] = f[c] + g[c]
          /\ SumFunctionOnSet(f, r) \in Int /\ SumFunctionOnSet(g, r) \in Int
      BY <3>1, SumType
    <3>4. /\ SumFunctionOnSet(f, s) = f[c] + SumFunctionOnSet(f, r)
          /\ SumFunctionOnSet(g, s) = g[c] + SumFunctionOnSet(g, r)
          /\ SumFunctionOnSet(h, s) = h[c] + SumFunctionOnSet(h, r)
      BY <2>2, <3>1, SumStep
    <3>5. SumFunctionOnSet(h, s) = SumFunctionOnSet(f, s) + SumFunctionOnSet(g, s)
      <4> HIDE DEF c, r
      <4> QED BY <3>2, <3>3, <3>4
    <3> QED BY <3>5
  <2> QED BY <2>1, <2>2
<1>2. \A s \in SUBSET S : s \in G
  <2> HIDE DEF G
  <2> QED BY <1>1, SubsetInduction
<1> QED BY <1>2

(* A sum of ones is a count.                                                *)
LEMMA SumOnes ==
  ASSUME NEW S, IsFiniteSet(S), NEW f, \A x \in S : f[x] = 1
  PROVE  SumFunctionOnSet(f, S) = Cardinality(S)
<1> DEFINE G == {s \in SUBSET S : SumFunctionOnSet(f, s) = Cardinality(s)}
<1>1. ASSUME NEW s \in SUBSET S, \A U \in SUBSET s : U # s => U \in G
      PROVE  s \in G
  <2>1. CASE s = {}
    BY <2>1, SumEmpty, FS_EmptySet
  <2>2. CASE s # {}
    <3> DEFINE c == Some(s)
               r == s \ {c}
    <3>1. c \in s /\ IsFiniteSet(s) /\ IsFiniteSet(r)
      BY <2>2, SomeIsOne, FS_Subset
    <3>2. SumFunctionOnSet(f, r) = Cardinality(r)
      BY <1>1, <3>1
    <3>3. SumFunctionOnSet(f, s) = f[c] + SumFunctionOnSet(f, r)
      BY <2>2, <3>1, SumStep
    <3>4. Cardinality(r) = Cardinality(s) - 1
      BY <3>1, FS_RemoveElement
    <3>5. Cardinality(s) \in Nat /\ f[c] = 1
      BY <3>1, FS_CardinalityType
    <3>6. SumFunctionOnSet(f, s) = Cardinality(s)
      <4> HIDE DEF c, r
      <4> QED BY <3>2, <3>3, <3>4, <3>5
    <3> QED BY <3>6
  <2> QED BY <2>1, <2>2
<1>2. \A s \in SUBSET S : s \in G
  <2> HIDE DEF G
  <2> QED BY <1>1, SubsetInduction
<1> QED BY <1>2

(* Summands that matter.                                                    *)
LEMMA SumSupport ==
  ASSUME NEW S, IsFiniteSet(S), NEW T \in SUBSET S, NEW f,
         \A x \in S : f[x] \in Int, \A x \in S \ T : f[x] = 0
  PROVE  SumFunctionOnSet(f, S) = SumFunctionOnSet(f, T)
<1> DEFINE U == S \ T
<1>1. IsFiniteSet(T) /\ IsFiniteSet(U) /\ T \intersect U = {} /\ T \union U = S
  BY FS_Subset
<1>2. SumFunctionOnSet(f, T) \in Int /\ SumFunctionOnSet(f, U) = 0
  BY <1>1, SumType, SumZero
<1>3. SumFunctionOnSet(f, S) = SumFunctionOnSet(f, T) + SumFunctionOnSet(f, U)
  <2> HIDE DEF U
  <2> QED BY <1>1, SumUnion
<1> QED BY <1>2, <1>3

(* A product of naturals is a natural.                                      *)
LEMMA ProductNat ==
  ASSUME NEW f, NEW S, IsFiniteSet(S), \A x \in S : f[x] \in Nat
  PROVE  Product(f, S) \in Nat
<1> DEFINE g == Iter("times", f, S)
           G == {s \in SUBSET S : g[s] \in Nat}
<1>1. IsIter("times", f, S, g)
  BY IterExists
<1> HIDE DEF g
<1>2. ASSUME NEW s \in SUBSET S, \A U \in SUBSET s : U # s => U \in G
      PROVE  s \in G
  <2>1. g[s] = IF s = {} THEN Unit("times") ELSE Joined("times", f[Some(s)], g[s \ {Some(s)}])
    BY <1>1, IterAt
  <2>2. CASE s = {}
    BY <2>1, <2>2 DEF Unit
  <2>3. CASE s # {}
    <3>1. g[s \ {Some(s)}] \in Nat /\ f[Some(s)] \in Nat
      BY <1>2, <2>3, SomeIsOne
    <3>2. g[s] = f[Some(s)] * g[s \ {Some(s)}]
      BY <2>1, <2>3 DEF Joined
    <3>3. \A a, b \in Nat : a * b \in Nat
      OBVIOUS
    <3> QED BY <3>1, <3>2, <3>3
  <2> QED BY <2>2, <2>3
<1>3. \A s \in SUBSET S : s \in G
  <2> HIDE DEF G
  <2> QED BY <1>2, SubsetInduction
<1>4. g[S] \in Nat
  BY <1>3
<1> QED BY <1>4, ProductIsIter DEF g

================================================================================
