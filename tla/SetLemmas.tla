----------------------------- MODULE SetLemmas -----------------------------
(***************************************************************************)
(* Facts about sets of naturals and finite sets that the proofs about      *)
(* several components rest on: least and greatest elements, induction up   *)
(* to a bound and over the subsets of a finite set, and sums.              *)
(*                                                                         *)
(* The library's induction theorems take a predicate as a parameter, which *)
(* the provers cannot instantiate.  UpTo and FiniteInduction take the set  *)
(* of the numbers, or of the subsets, a statement holds of instead.        *)
(***************************************************************************)
EXTENDS Integers, FiniteSetsExt, FiniteSetTheorems, WellFoundedInduction, TLAPS

\* The order of the naturals is well founded.
LEMMA LeastNatural ==
    ASSUME NEW S \in SUBSET Nat, S # {}
    PROVE  \E m \in S : \A n \in S : m =< n
<1> DEFINE R == OpToRel(<, Nat)
<1>1. IsWellFoundedOn(R, Nat)
  BY NatLessThanWellFounded
<1>2. \E m \in S : \A n \in S : <<n, m>> \notin R
  <2> HIDE DEF R
  <2>1. QED
    BY <1>1, WFMin
<1>3. \A m, n \in Nat : <<n, m>> \notin R => m =< n
  BY DEF OpToRel
<1>4. QED
  BY <1>2, <1>3

\* What holds of a number, and of the next whenever of one, holds up to a bound.
LEMMA UpTo ==
    ASSUME NEW a \in Nat, NEW b \in Nat, NEW S, a \in S,
           \A k \in a..b : k \in S /\ k < b => k + 1 \in S
    PROVE  \A k \in a..b : k \in S
<1> DEFINE Bad == {k \in a..b : k \notin S}
<1>1. SUFFICES ASSUME Bad # {} PROVE FALSE
  OBVIOUS
<1>2. Bad \in SUBSET Nat
  OBVIOUS
<1>3. PICK m \in Bad : \A n \in Bad : m =< n
  <2> HIDE DEF Bad
  <2>1. QED
    BY <1>1, <1>2, LeastNatural
<1>4. m \in a..b /\ m \notin S /\ m # a
  BY <1>3
<1>5. m - 1 \in a..b /\ m - 1 \notin Bad
  BY <1>3, <1>4
<1>6. m - 1 \in S /\ m - 1 < b /\ (m - 1) + 1 = m
  BY <1>4, <1>5
<1>7. QED
  BY <1>4, <1>5, <1>6

\* What holds of a finite set whenever it holds of the sets with one element less holds of them all: a
\* smallest set it does not hold of would contradict that.
LEMMA FiniteInduction ==
    ASSUME NEW D, NEW P,
           \A T \in SUBSET D : IsFiniteSet(T) /\ (\A x \in T : T \ {x} \in P) => T \in P,
           NEW S \in SUBSET D, IsFiniteSet(S)
    PROVE  S \in P
<1> DEFINE Bad   == {T \in SUBSET D : IsFiniteSet(T) /\ T \notin P}
           Sizes == {k \in Nat : \E T \in Bad : Cardinality(T) = k}
<1>1. SUFFICES ASSUME S \in Bad PROVE FALSE
  OBVIOUS
<1>2. \A T \in Bad : Cardinality(T) \in Nat
  BY FS_CardinalityType
<1>3. Sizes \in SUBSET Nat /\ Sizes # {}
  BY <1>1, <1>2
<1>4. PICK k \in Sizes : \A j \in Sizes : k =< j
  <2> HIDE DEF Sizes
  <2>1. QED
    BY <1>3, LeastNatural
<1>5. PICK T \in Bad : Cardinality(T) = k
  BY <1>4
<1>6. ASSUME NEW x \in T PROVE T \ {x} \in P
  <2>1. /\ IsFiniteSet(T \ {x}) /\ Cardinality(T \ {x}) = k - 1
        /\ T \ {x} \in SUBSET D /\ k \in Nat
    BY <1>3, <1>5, FS_RemoveElement
  <2>2. SUFFICES ASSUME T \ {x} \in Bad PROVE FALSE
    BY <2>1
  <2>3. k - 1 \in Sizes
    BY <1>2, <2>1, <2>2
  <2>4. QED
    BY <1>4, <2>1, <2>3
<1>7. QED
  BY <1>5, <1>6

\* Min is the least element of a set of naturals.
LEMMA MinIsLeast ==
    ASSUME NEW S \in SUBSET Nat, S # {}
    PROVE  Min(S) \in S /\ \A n \in S : Min(S) =< n
BY LeastNatural DEF Min

\* Every finite set of naturals that is not empty has a greatest element.
LEMMA GreatestNatural ==
    ASSUME NEW S \in SUBSET Nat, IsFiniteSet(S), S # {}
    PROVE  \E m \in S : \A n \in S : n =< m
<1> DEFINE P == {T \in SUBSET Nat : T # {} => \E m \in T : \A n \in T : n =< m}
<1>1. ASSUME NEW T \in SUBSET Nat, \A x \in T : T \ {x} \in P, T # {} PROVE T \in P
  <2>1. PICK x \in T : T \ {x} \in P
    BY <1>1
  <2>2. CASE T \ {x} = {}
    BY <2>1, <2>2
  <2>3. CASE T \ {x} # {}
    <3>1. PICK m \in T \ {x} : \A n \in T \ {x} : n =< m
      BY <2>1, <2>3
    <3>2. CASE x =< m
      BY <3>1, <3>2
    <3>3. CASE ~(x =< m)
      BY <3>1, <3>3
    <3>4. QED
      BY <3>2, <3>3
  <2>4. QED
    BY <2>2, <2>3
<1>2. S \in P
  <2>1. \A T \in SUBSET Nat : IsFiniteSet(T) /\ (\A x \in T : T \ {x} \in P) => T \in P
    BY <1>1
  <2> HIDE DEF P
  <2>2. QED
    BY <2>1, FiniteInduction
<1>3. QED
  BY <1>2

\* Max is the greatest element of a finite set of naturals.
LEMMA MaxIsGreatest ==
    ASSUME NEW S \in SUBSET Nat, IsFiniteSet(S), S # {}
    PROVE  Max(S) \in S /\ \A n \in S : n =< Max(S)
<1>1. \E m \in S : \A n \in S : m >= n
  BY GreatestNatural
<1>2. Max(S) \in S /\ \A n \in S : Max(S) >= n
  BY <1>1 DEF Max
<1>3. QED
  BY <1>2

-----------------------------------------------------------------------------
(***************************************************************************)
(* Sums.  SumFunctionOnSet is a function on the subsets of the indices,    *)
(* chosen to take one index out at a time.                                 *)
(***************************************************************************)
First(T) == CHOOSE x \in T : TRUE

Summing(f, S, g) ==
    g = [T \in SUBSET S |-> IF T = {} THEN 0 ELSE f[First(T)] + g[T \ {First(T)}]]

\* A sum is the value of the one function that adds its elements up.
LEMMA SumIsChosen ==
    ASSUME NEW f, NEW S
    PROVE  SumFunctionOnSet(f, S) = (CHOOSE g : Summing(f, S, g))[S]
BY DEF SumFunctionOnSet, FoldFunctionOnSet, MapThenFoldSet, Summing, First

\* Two such functions agree on every set they both sum.
LEMMA SummingUnique ==
    ASSUME NEW f, NEW S, NEW T, NEW g, NEW h, Summing(f, S, g), Summing(f, T, h),
           NEW U \in SUBSET (S \cap T), IsFiniteSet(U)
    PROVE  g[U] = h[U]
<1> DEFINE P == {V \in SUBSET (S \cap T) : g[V] = h[V]}
<1>1. ASSUME NEW V \in SUBSET (S \cap T), \A x \in V : V \ {x} \in P PROVE V \in P
  <2>1. V \in SUBSET S /\ V \in SUBSET T
    OBVIOUS
  <2>2. /\ g[V] = IF V = {} THEN 0 ELSE f[First(V)] + g[V \ {First(V)}]
        /\ h[V] = IF V = {} THEN 0 ELSE f[First(V)] + h[V \ {First(V)}]
    BY <2>1 DEF Summing
  <2>3. CASE V = {}
    BY <2>2, <2>3
  <2>4. CASE V # {}
    <3>1. First(V) \in V
      BY <2>4 DEF First
    <3>2. g[V \ {First(V)}] = h[V \ {First(V)}]
      BY <1>1, <3>1
    <3>3. QED
      BY <2>2, <2>4, <3>2
  <2>5. QED
    BY <2>3, <2>4
<1>2. \A V \in SUBSET (S \cap T) : IsFiniteSet(V) /\ (\A x \in V : V \ {x} \in P) => V \in P
  BY <1>1
<1>3. U \in P
  <2> HIDE DEF P
  <2>1. QED
    BY <1>2, FiniteInduction
<1>4. QED
  BY <1>3

\* There is such a function for every finite set: the ones that sum its proper subsets make it up.
LEMMA SummingExists ==
    ASSUME NEW f, NEW S, IsFiniteSet(S)
    PROVE  \E g : Summing(f, S, g)
<1> DEFINE P        == {T \in SUBSET S : \E g : Summing(f, T, g)}
           Of(T)    == CHOOSE g : Summing(f, T, g)
           Sum(T)   == Of(T)[T]
           Rest(T)  == T \ {First(T)}
           Step(T)  == IF T = {} THEN 0 ELSE f[First(T)] + Sum(Rest(T))
<1>1. \A T \in P : Summing(f, T, Of(T))
  OBVIOUS
<1>2. ASSUME NEW T \in P, IsFiniteSet(T), NEW U \in SUBSET T, U \in P PROVE Sum(U) = Of(T)[U]
  <2>1. Summing(f, T, Of(T)) /\ Summing(f, U, Of(U))
    BY <1>1, <1>2
  <2>2. U \in SUBSET (T \cap U) /\ IsFiniteSet(U)
    BY <1>2, FS_Subset
  <2>3. QED
    BY <2>1, <2>2, SummingUnique
<1>3. ASSUME NEW T \in SUBSET S, \A x \in T : T \ {x} \in P PROVE T \in P
  <2> DEFINE g == [U \in SUBSET T |-> Step(U)]
  <2>1. IsFiniteSet(T)
    BY FS_Subset
  <2>2. ASSUME NEW U \in SUBSET T, U # T PROVE U \in P
    <3>1. PICK x \in T : x \notin U
      BY <2>2
    <3>2. T \ {x} \in P /\ U \in SUBSET (T \ {x})
      BY <1>3, <3>1
    <3>3. PICK h : Summing(f, T \ {x}, h)
      BY <3>2
    <3>4. Summing(f, U, [V \in SUBSET U |-> h[V]])
      <4>1. ASSUME NEW V \in SUBSET U
            PROVE  h[V] = IF V = {} THEN 0 ELSE f[First(V)] + h[V \ {First(V)}]
        BY <3>2, <3>3 DEF Summing
      <4>2. \A V \in SUBSET U : V \ {First(V)} \in SUBSET U
        OBVIOUS
      <4>3. QED
        BY <4>1, <4>2 DEF Summing
    <3>5. QED
      BY <3>4
  <2>3. ASSUME NEW U \in SUBSET T, U # T PROVE Sum(U) = Step(U)
    <3>1. U \in P /\ Summing(f, U, Of(U)) /\ IsFiniteSet(U)
      BY <1>1, <2>1, <2>2, <2>3, FS_Subset
    <3>2. U \in SUBSET U
      OBVIOUS
    <3>3. Sum(U) = IF U = {} THEN 0 ELSE f[First(U)] + Of(U)[Rest(U)]
      BY <3>1, <3>2 DEF Summing
    <3>4. CASE U = {}
      BY <3>3, <3>4
    <3>5. CASE U # {}
      <4>1. Rest(U) \in SUBSET U /\ Rest(U) # T /\ Rest(U) \in SUBSET T
        BY <2>3
      <4>2. Rest(U) \in P
        BY <2>2, <4>1
      <4>3. Sum(Rest(U)) = Of(U)[Rest(U)]
        BY <1>2, <3>1, <4>1, <4>2
      <4>4. QED
        BY <3>3, <3>5, <4>3
    <3>6. QED
      BY <3>4, <3>5
  <2>4. ASSUME NEW U \in SUBSET T
        PROVE  g[U] = IF U = {} THEN 0 ELSE f[First(U)] + g[U \ {First(U)}]
    <3>1. CASE U = {}
      BY <3>1
    <3>2. CASE U # {}
      <4>1. First(U) \in U
        BY <3>2 DEF First
      <4>2. Rest(U) \in SUBSET T /\ Rest(U) # T
        BY <4>1
      <4>3. g[Rest(U)] = Sum(Rest(U))
        BY <2>3, <4>2
      <4>4. g[U] = f[First(U)] + Sum(Rest(U))
        BY <3>2
      <4>5. QED
        BY <3>2, <4>3, <4>4
    <3>3. QED
      BY <3>1, <3>2
  <2>5. Summing(f, T, g)
    <3> HIDE DEF Step
    <3>1. QED
      BY <2>4 DEF Summing
  <2>6. QED
    BY <2>5
<1>4. \A T \in SUBSET S : IsFiniteSet(T) /\ (\A x \in T : T \ {x} \in P) => T \in P
  BY <1>3
<1>5. S \in P
  <2> HIDE DEF P
  <2>1. QED
    BY <1>4, FiniteInduction
<1>6. QED
  BY <1>5

\* A sum takes one index out, then sums the rest.
LEMMA SumUnfolds ==
    ASSUME NEW f, NEW S, IsFiniteSet(S)
    PROVE  SumFunctionOnSet(f, S) =
              IF S = {} THEN 0 ELSE f[First(S)] + SumFunctionOnSet(f, S \ {First(S)})
<1> DEFINE Of(T) == CHOOSE g : Summing(f, T, g)
           rest  == S \ {First(S)}
<1>1. IsFiniteSet(rest)
  BY FS_Subset
<1>2. Summing(f, S, Of(S)) /\ Summing(f, rest, Of(rest))
  BY <1>1, SummingExists
<1>3. SumFunctionOnSet(f, S) = Of(S)[S] /\ SumFunctionOnSet(f, rest) = Of(rest)[rest]
  BY SumIsChosen
<1>4. Of(S)[rest] = Of(rest)[rest]
  <2>1. rest \in SUBSET (S \cap rest)
    OBVIOUS
  <2> HIDE DEF rest, Of
  <2>2. QED
    BY <1>1, <1>2, <2>1, SummingUnique
<1>5. Of(S)[S] = IF S = {} THEN 0 ELSE f[First(S)] + Of(S)[rest]
  <2>1. S \in SUBSET S
    OBVIOUS
  <2> HIDE DEF Of
  <2>2. QED
    BY <1>2, <2>1 DEF Summing
<1>6. QED
  BY <1>3, <1>4, <1>5

\* Nothing sums to zero.
LEMMA SumOfNone == \A f : SumFunctionOnSet(f, {}) = 0
BY SumUnfolds, FS_EmptySet

\* A sum of naturals is one.
LEMMA SumType ==
    ASSUME NEW D, NEW f \in [D -> Nat], NEW S \in SUBSET D, IsFiniteSet(S)
    PROVE  SumFunctionOnSet(f, S) \in Nat
<1> DEFINE P == {T \in SUBSET D : SumFunctionOnSet(f, T) \in Nat}
<1>1. ASSUME NEW T \in SUBSET D, IsFiniteSet(T), \A x \in T : T \ {x} \in P PROVE T \in P
  <2>1. CASE T = {}
    BY <2>1, SumOfNone
  <2>2. CASE T # {}
    <3>1. First(T) \in T
      BY <2>2 DEF First
    <3>2. SumFunctionOnSet(f, T \ {First(T)}) \in Nat /\ f[First(T)] \in Nat
      BY <1>1, <3>1
    <3>3. SumFunctionOnSet(f, T) = f[First(T)] + SumFunctionOnSet(f, T \ {First(T)})
      BY <1>1, <2>2, SumUnfolds
    <3>4. QED
      BY <3>2, <3>3
  <2>3. QED
    BY <2>1, <2>2
<1>2. \A T \in SUBSET D : IsFiniteSet(T) /\ (\A x \in T : T \ {x} \in P) => T \in P
  BY <1>1
<1>3. S \in P
  <2> HIDE DEF P
  <2>1. QED
    BY <1>2, FiniteInduction
<1>4. QED
  BY <1>3

\* Whichever index is taken out, the sum is the same.
LEMMA SumTakesOut ==
    ASSUME NEW D, NEW f \in [D -> Nat], NEW S \in SUBSET D, IsFiniteSet(S), NEW a \in S
    PROVE  SumFunctionOnSet(f, S) = f[a] + SumFunctionOnSet(f, S \ {a})
<1> DEFINE Sum(T) == SumFunctionOnSet(f, T)
           P      == {T \in SUBSET D : \A x \in T : Sum(T) = f[x] + Sum(T \ {x})}
<1>1. ASSUME NEW T \in SUBSET D, IsFiniteSet(T), \A x \in T : T \ {x} \in P PROVE T \in P
  <2>1. SUFFICES ASSUME NEW x \in T PROVE Sum(T) = f[x] + Sum(T \ {x})
    OBVIOUS
  <2> DEFINE y == First(T)
  <2>2. y \in T /\ Sum(T) = f[y] + Sum(T \ {y})
    <3>1. y \in T
      BY <2>1 DEF First
    <3>2. Sum(T) = f[y] + Sum(T \ {y})
      BY <1>1, <2>1, SumUnfolds
    <3>3. QED
      BY <3>1, <3>2
  <2> HIDE DEF y, Sum
  <2>3. CASE x = y
    BY <2>2, <2>3
  <2>4. CASE x # y
    <3> DEFINE rest == (T \ {x}) \ {y}
               n    == Sum(rest)
    <3>1. x \in T \ {y} /\ y \in T \ {x} /\ (T \ {y}) \ {x} = rest
      BY <2>2, <2>4
    <3>2. Sum(T \ {y}) = f[x] + n
      BY <1>1, <2>2, <3>1
    <3>3. Sum(T \ {x}) = f[y] + n
      BY <1>1, <2>1, <3>1
    <3>4. f[x] \in Nat /\ f[y] \in Nat
      BY <2>1, <2>2
    <3>5. n \in Nat
      <4>1. rest \in SUBSET D /\ IsFiniteSet(rest)
        BY <1>1, FS_Subset
      <4> HIDE DEF rest
      <4>2. QED
        BY <4>1, SumType DEF Sum
    <3>6. Sum(T) = f[y] + (f[x] + n)
      BY <2>2, <3>2
    <3>7. f[x] + Sum(T \ {x}) = f[x] + (f[y] + n)
      BY <3>3
    <3> HIDE DEF n
    <3>8. f[y] + (f[x] + n) = f[x] + (f[y] + n)
      BY <3>4, <3>5
    <3>9. QED
      BY <3>6, <3>7, <3>8
  <2>5. QED
    BY <2>3, <2>4
<1>2. \A T \in SUBSET D : IsFiniteSet(T) /\ (\A x \in T : T \ {x} \in P) => T \in P
  BY <1>1
<1>3. S \in P
  <2> HIDE DEF P
  <2>1. QED
    BY <1>2, FiniteInduction
<1>4. QED
  BY <1>3

\* Two functions that agree on the indices have the same sum.
LEMMA SumCongruent ==
    ASSUME NEW f, NEW h, NEW S, IsFiniteSet(S), \A x \in S : f[x] = h[x]
    PROVE  SumFunctionOnSet(f, S) = SumFunctionOnSet(h, S)
<1> DEFINE P == {T \in SUBSET S : SumFunctionOnSet(f, T) = SumFunctionOnSet(h, T)}
<1>1. ASSUME NEW T \in SUBSET S, IsFiniteSet(T), \A x \in T : T \ {x} \in P PROVE T \in P
  <2>1. CASE T = {}
    BY <2>1, SumOfNone
  <2>2. CASE T # {}
    <3>1. First(T) \in T
      BY <2>2 DEF First
    <3>2. /\ SumFunctionOnSet(f, T \ {First(T)}) = SumFunctionOnSet(h, T \ {First(T)})
          /\ f[First(T)] = h[First(T)]
      BY <1>1, <3>1
    <3>3. SumFunctionOnSet(f, T) = f[First(T)] + SumFunctionOnSet(f, T \ {First(T)})
      BY <1>1, <2>2, SumUnfolds
    <3>4. SumFunctionOnSet(h, T) = h[First(T)] + SumFunctionOnSet(h, T \ {First(T)})
      BY <1>1, <2>2, SumUnfolds
    <3>5. QED
      BY <3>2, <3>3, <3>4
  <2>3. QED
    BY <2>1, <2>2
<1>2. \A T \in SUBSET S : IsFiniteSet(T) /\ (\A x \in T : T \ {x} \in P) => T \in P
  BY <1>1
<1>3. S \in P
  <2> HIDE DEF P
  <2>1. QED
    BY <1>2, FiniteInduction
<1>4. QED
  BY <1>3

\* A set sums to what its part in another set and its part outside sum to.
LEMMA SumSplits ==
    ASSUME NEW D, NEW f \in [D -> Nat], NEW S \in SUBSET D, IsFiniteSet(S), NEW B
    PROVE  SumFunctionOnSet(f, S) = SumFunctionOnSet(f, S \cap B) + SumFunctionOnSet(f, S \ B)
<1> DEFINE Sum(T) == SumFunctionOnSet(f, T)
           P      == {T \in SUBSET D : Sum(T) = Sum(T \cap B) + Sum(T \ B)}
<1>1. ASSUME NEW T \in SUBSET D, IsFiniteSet(T), \A x \in T : T \ {x} \in P PROVE T \in P
  <2>1. CASE T = {}
    <3>1. T \cap B = {} /\ T \ B = {} /\ Sum({}) = 0
      BY <2>1, SumOfNone
    <3> HIDE DEF Sum
    <3>2. QED
      BY <2>1, <3>1
  <2>2. ASSUME NEW x \in T PROVE Sum(T) = Sum(T \cap B) + Sum(T \ B)
    <3> DEFINE rest == T \ {x}
               in   == rest \cap B
               out  == rest \ B
               k    == f[x]
               m    == Sum(in)
               n    == Sum(out)
    <3>1. IsFiniteSet(T \cap B) /\ IsFiniteSet(T \ B) /\ IsFiniteSet(in) /\ IsFiniteSet(out)
      BY <1>1, FS_Subset
    <3>2. m \in Nat /\ n \in Nat /\ k \in Nat
      <4>1. in \in SUBSET D /\ out \in SUBSET D
        OBVIOUS
      <4> HIDE DEF in, out
      <4>2. QED
        BY <2>2, <3>1, <4>1, SumType
    <3>3. Sum(T) = k + (m + n)
      <4>1. rest \in P
        BY <1>1, <2>2
      <4>2. Sum(rest) = m + n
        BY <4>1
      <4>3. Sum(T) = k + Sum(rest)
        BY <1>1, <2>2, SumTakesOut
      <4>4. QED
        BY <4>2, <4>3
    <3>4. CASE x \in B
      <4>1. x \in T \cap B /\ (T \cap B) \ {x} = in /\ T \ B = out /\ T \cap B \in SUBSET D
        BY <2>2, <3>4
      <4> HIDE DEF in, out
      <4>2. Sum(T \cap B) = k + m
        BY <3>1, <4>1, SumTakesOut
      <4>3. Sum(T \ B) = n
        BY <4>1
      <4> HIDE DEF Sum, k, m, n
      <4>4. QED
        BY <3>2, <3>3, <4>2, <4>3
    <3>5. CASE x \notin B
      <4>1. x \in T \ B /\ (T \ B) \ {x} = out /\ T \cap B = in /\ T \ B \in SUBSET D
        BY <2>2, <3>5
      <4> HIDE DEF in, out
      <4>2. Sum(T \ B) = k + n
        BY <3>1, <4>1, SumTakesOut
      <4>3. Sum(T \cap B) = m
        BY <4>1
      <4> HIDE DEF Sum, k, m, n
      <4>4. QED
        BY <3>2, <3>3, <4>2, <4>3
    <3>6. QED
      BY <3>4, <3>5
  <2>3. QED
    BY <2>1, <2>2
<1>2. \A T \in SUBSET D : IsFiniteSet(T) /\ (\A x \in T : T \ {x} \in P) => T \in P
  BY <1>1
<1>3. S \in P
  <2> HIDE DEF P
  <2>1. QED
    BY <1>2, FiniteInduction
<1>4. QED
  BY <1>3

\* A part sums to no more than the whole.
LEMMA SumGrows ==
    ASSUME NEW D, NEW f \in [D -> Nat], NEW S \in SUBSET D, IsFiniteSet(S), NEW B \in SUBSET S
    PROVE  SumFunctionOnSet(f, B) =< SumFunctionOnSet(f, S)
<1>1. S \cap B = B /\ S \ B \in SUBSET D /\ IsFiniteSet(S \ B) /\ IsFiniteSet(B) /\ B \in SUBSET D
  BY FS_Subset
<1>2. SumFunctionOnSet(f, B) \in Nat /\ SumFunctionOnSet(f, S \ B) \in Nat
  BY <1>1, SumType
<1>3. SumFunctionOnSet(f, S) = SumFunctionOnSet(f, S \cap B) + SumFunctionOnSet(f, S \ B)
  BY SumSplits
<1>4. QED
  BY <1>1, <1>2, <1>3

\* Indices that each add at most m sum to at most m each.
LEMMA SumBounded ==
    ASSUME NEW D, NEW f \in [D -> Nat], NEW S \in SUBSET D, IsFiniteSet(S),
           NEW m \in Nat, \A x \in S : f[x] =< m
    PROVE  SumFunctionOnSet(f, S) =< Cardinality(S) * m
<1> DEFINE P == {T \in SUBSET S : SumFunctionOnSet(f, T) =< Cardinality(T) * m}
<1>1. ASSUME NEW T \in SUBSET S, IsFiniteSet(T), \A x \in T : T \ {x} \in P PROVE T \in P
  <2>1. CASE T = {}
    <3>1. SumFunctionOnSet(f, T) = 0 /\ Cardinality(T) = 0
      BY <2>1, SumOfNone, FS_EmptySet
    <3>2. QED
      BY <3>1
  <2>2. ASSUME NEW x \in T PROVE T \in P
    <3> DEFINE k == Cardinality(T)
               u == SumFunctionOnSet(f, T \ {x})
    <3>1. Cardinality(T \ {x}) = k - 1 /\ IsFiniteSet(T \ {x}) /\ k \in Nat /\ k - 1 \in Nat
      <4>1. Cardinality(T \ {x}) = k - 1 /\ IsFiniteSet(T \ {x})
        BY <1>1, <2>2, FS_RemoveElement
      <4>2. k \in Nat /\ Cardinality(T \ {x}) \in Nat
        BY <1>1, <4>1, FS_CardinalityType
      <4>3. QED
        BY <4>1, <4>2
    <3>2. u \in Nat /\ f[x] \in Nat /\ f[x] =< m
      BY <2>2, <3>1, SumType
    <3>3. SumFunctionOnSet(f, T) = f[x] + u
      BY <1>1, <2>2, SumTakesOut
    <3>4. u =< (k - 1) * m
      BY <1>1, <2>2, <3>1
    <3>5. (k - 1) * m + m = k * m
      BY <3>1
    <3>6. SumFunctionOnSet(f, T) =< k * m
      <4> HIDE DEF u, k
      <4>1. (k - 1) * m \in Int /\ k * m \in Int
        BY <3>1
      <4>2. QED
        BY <3>2, <3>3, <3>4, <3>5, <4>1
    <3>7. QED
      BY <3>6
  <2>3. QED
    BY <2>1, <2>2
<1>2. \A T \in SUBSET S : IsFiniteSet(T) /\ (\A x \in T : T \ {x} \in P) => T \in P
  BY <1>1
<1>3. S \in P
  <2> HIDE DEF P
  <2>1. QED
    BY <1>2, FiniteInduction
<1>4. QED
  BY <1>3

\* Fewer indices of at most m each sum to no more.
LEMMA FewerSum ==
    ASSUME NEW a \in Nat, NEW b \in Nat, NEW m \in Nat, a =< b
    PROVE  a * m =< b * m
<1>1. b - a \in Nat /\ (b - a) * m \in Nat
  OBVIOUS
<1>2. b * m = a * m + (b - a) * m
  OBVIOUS
<1>3. a * m \in Nat /\ b * m \in Nat
  OBVIOUS
<1>4. QED
  BY <1>1, <1>2, <1>3

\* A sum exceeds that of some of its indices by no more than the others add.
LEMMA SumOverrun ==
    ASSUME NEW D, NEW f \in [D -> Nat], NEW S \in SUBSET D, IsFiniteSet(S), NEW B,
           NEW n \in Nat, Cardinality(S \ B) =< n, NEW m \in Nat, \A x \in S : f[x] =< m
    PROVE  SumFunctionOnSet(f, S) =< SumFunctionOnSet(f, S \cap B) + n * m
<1> DEFINE first == S \cap B
           later == S \ B
<1>1. /\ first \in SUBSET D /\ later \in SUBSET D /\ IsFiniteSet(first) /\ IsFiniteSet(later)
      /\ \A x \in later : f[x] =< m
  BY FS_Subset
<1>2. SumFunctionOnSet(f, S) = SumFunctionOnSet(f, first) + SumFunctionOnSet(f, later)
  BY SumSplits
<1>3. Cardinality(later) =< n
  OBVIOUS
<1> HIDE DEF first, later
<1>4. SumFunctionOnSet(f, later) =< Cardinality(later) * m
  BY <1>1, SumBounded
<1>5. Cardinality(later) \in Nat
  BY <1>1, FS_CardinalityType
<1>6. Cardinality(later) * m =< n * m
  BY <1>3, <1>5, FewerSum
<1>7. /\ SumFunctionOnSet(f, first) \in Nat /\ SumFunctionOnSet(f, later) \in Nat
      /\ Cardinality(later) * m \in Nat /\ n * m \in Nat
  BY <1>1, <1>5, SumType
<1>8. SumFunctionOnSet(f, S) =< SumFunctionOnSet(f, first) + n * m
  BY <1>2, <1>4, <1>6, <1>7
<1>9. QED
  BY <1>8 DEF first

=============================================================================
