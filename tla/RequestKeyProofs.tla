-------------------------- MODULE RequestKeyProofs --------------------------
(***************************************************************************)
(* Proofs about RequestKey, for requests of any length: a key identifies   *)
(* what its request asks for.                                              *)
(*                                                                         *)
(* A key is two flattenings, one of the payload's members and one of the   *)
(* fields.  Each joins parts that say where they end, so it can be read    *)
(* back part by part: PartsReadBack.  The members are sorted, and a set of *)
(* names has one increasing order: EnumerationExists, EnumerationUnique.   *)
(***************************************************************************)
EXTENDS RequestKey, SequenceTheorems, SetLemmas

-----------------------------------------------------------------------------
(***************************************************************************)
(* Sequences.  FlattenSeq is the last of the prefixes it joins, a function *)
(* chosen on the positions.                                                *)
(***************************************************************************)
\* Two equal texts that begin with parts as long as each other begin with the same part.
LEMMA SameStart ==
    ASSUME NEW S, NEW a \in Seq(S), NEW b \in Seq(S), NEW x \in Seq(S), NEW y \in Seq(S),
           Len(a) = Len(b), a \o x = b \o y
    PROVE  a = b /\ x = y
<1>1. Len(a) \in Nat /\ Len(x) \in Nat /\ Len(y) \in Nat /\ Len(b) \in Nat
  BY LenProperties
<1>2. /\ \A i \in 1..Len(a) : (a \o x)[i] = a[i]
      /\ \A i \in 1..Len(b) : (b \o y)[i] = b[i]
  BY <1>1, ConcatProperties
<1>3. \A i \in 1..Len(a) : a[i] = b[i]
  BY <1>2
<1>4. a = b
  BY <1>3, SeqEqual
<1>5. QED
  BY <1>4, ConcatSimplifications

\* Concatenation, where only its laws matter.
Join(a, b) == a \o b

LEMMA JoinLaws ==
    ASSUME NEW S
    PROVE  /\ \A a, b \in Seq(S) : Join(a, b) \in Seq(S)
           /\ \A a, b, c \in Seq(S) : Join(Join(a, b), c) = Join(a, Join(b, c))
           /\ \A a, b, c \in Seq(S) : Join(a, b) = Join(a, c) => b = c
           /\ \A a \in Seq(S) : Join(a, <<>>) = a /\ Join(<<>>, a) = a
           /\ \A a, b \in Seq(S) : Join(a, b) = a => b = <<>>
           /\ \A a, b \in Seq(S) : Join(a, b) = <<>> => a = <<>>
<1>1. \A a, b \in Seq(S) : Join(a, b) \in Seq(S)
  BY ConcatProperties DEF Join
<1>2. \A a, b, c \in Seq(S) : Join(Join(a, b), c) = Join(a, Join(b, c))
  BY ConcatAssociative DEF Join
<1>3. \A a, b, c \in Seq(S) : Join(a, b) = Join(a, c) => b = c
  BY ConcatSimplifications, Zenon DEF Join
<1>4. \A a \in Seq(S) : Join(a, <<>>) = a /\ Join(<<>>, a) = a
  BY ConcatEmptySeq, Zenon DEF Join
<1>5. \A a, b \in Seq(S) : Join(a, b) = a => b = <<>>
  BY ConcatSimplifications, Zenon DEF Join
<1>6. \A a, b \in Seq(S) : Join(a, b) = <<>> => a = <<>>
  BY ConcatSimplifications, Zenon DEF Join
<1>7. QED
  BY <1>1, <1>2, <1>3, <1>4, <1>5, <1>6

\* The parts joined so far, after each of them.
Joined(parts, p) ==
    /\ p[0] = <<>>
    /\ \A i \in 1..Len(parts) : p[i] = Join(p[i - 1], parts[i])

\* The function that joins the first n parts.
Joining(parts, f, n) == f = [i \in 1..n |-> IF i = 1 THEN parts[i] ELSE f[i - 1] \o parts[i]]

\* Flattened parts are the last prefix of a function that joins them.
LEMMA FlattenIsChosen ==
    ASSUME NEW parts
    PROVE  FlattenSeq(parts) =
             IF Len(parts) = 0 THEN parts ELSE (CHOOSE f : Joining(parts, f, Len(parts)))[Len(parts)]
BY DEF FlattenSeq, Joining

\* Such a function goes on to the next part.
LEMMA JoiningExtends ==
    ASSUME NEW parts, NEW k \in Nat, NEW f, Joining(parts, f, k)
    PROVE  \E g : Joining(parts, g, k + 1)
<1> DEFINE last == IF k = 0 THEN parts[1] ELSE f[k] \o parts[k + 1]
           g == [i \in 1..(k + 1) |-> IF i = k + 1 THEN last ELSE f[i]]
<1>1. \A i \in 1..(k + 1) : g[i] = IF i = k + 1 THEN last ELSE f[i]
  OBVIOUS
<1>2. \A i \in 1..k : f[i] = IF i = 1 THEN parts[i] ELSE f[i - 1] \o parts[i]
  BY DEF Joining
<1>3. g = [i \in 1..(k + 1) |-> g[i]]
  OBVIOUS
<1> HIDE DEF g
<1>4. ASSUME NEW i \in 1..(k + 1) PROVE g[i] = IF i = 1 THEN parts[i] ELSE g[i - 1] \o parts[i]
  <2>1. CASE i = k + 1 /\ k = 0
    BY <1>1, <2>1
  <2>2. CASE i = k + 1 /\ k # 0
    <3>1. k \in 1..(k + 1) /\ k # k + 1 /\ i - 1 = k /\ i # 1
      BY <2>2
    <3>2. g[k] = f[k] /\ g[i] = f[k] \o parts[i]
      BY <1>1, <2>2, <3>1
    <3>3. QED
      BY <3>1, <3>2
  <2>3. CASE i # k + 1
    <3>1. i \in 1..k /\ (i # 1 => i - 1 \in 1..(k + 1) /\ i - 1 # k + 1)
      BY <2>3
    <3>2. g[i] = f[i] /\ (i # 1 => g[i - 1] = f[i - 1])
      BY <1>1, <2>3, <3>1
    <3>3. QED
      BY <1>2, <3>1, <3>2
  <2>4. QED
    BY <2>1, <2>2, <2>3
<1>5. g = [i \in 1..(k + 1) |-> IF i = 1 THEN parts[i] ELSE g[i - 1] \o parts[i]]
  BY <1>3, <1>4
<1>6. QED
  BY <1>5 DEF Joining

\* Some function joins all the parts.
LEMMA JoiningExists ==
    ASSUME NEW parts, NEW n \in Nat
    PROVE  \E f : Joining(parts, f, n)
<1> DEFINE Done == {k \in Nat : \E f : Joining(parts, f, k)}
           none == [i \in 1..0 |-> i]
<1>1. 0 \in Done
  <2>1. none = [i \in 1..0 |-> IF i = 1 THEN parts[i] ELSE none[i - 1] \o parts[i]]
    OBVIOUS
  <2> HIDE DEF none
  <2>2. Joining(parts, none, 0)
    BY <2>1 DEF Joining
  <2>3. QED
    BY <2>2
<1>2. ASSUME NEW k \in Nat, k \in Done PROVE k + 1 \in Done
  BY <1>2, JoiningExtends
<1>3. n \in Done
  <2> HIDE DEF Done
  <2>1. \A k \in 0..n : k \in Done
    BY <1>1, <1>2, UpTo
  <2>2. QED
    BY <2>1
<1>4. QED
  BY <1>3

\* Flattening joins the parts one after the other.
LEMMA FlattenJoins ==
    ASSUME NEW S, NEW parts \in Seq(Seq(S))
    PROVE  \E p \in [0..Len(parts) -> Seq(S)] : Joined(parts, p) /\ FlattenSeq(parts) = p[Len(parts)]
<1> DEFINE n == Len(parts)
           f == CHOOSE f : Joining(parts, f, n)
           p == [i \in 0..n |-> IF i = 0 THEN <<>> ELSE f[i]]
<1>1. n \in Nat /\ (\A i \in 1..n : parts[i] \in Seq(S)) /\ <<>> \in Seq(S)
  BY LenProperties, ElementOfSeq, EmptySeq
<1>2. Joining(parts, f, n)
  BY <1>1, JoiningExists
<1> HIDE DEF f
<1>3. \A i \in 1..n : f[i] = IF i = 1 THEN parts[i] ELSE f[i - 1] \o parts[i]
  BY <1>2 DEF Joining
<1>4. p[0] = <<>> /\ \A i \in 1..n : p[i] = f[i]
  BY <1>1
<1>5. FlattenSeq(parts) = p[n]
  <2>1. n = 0 => parts = <<>>
    BY EmptySeq
  <2>2. FlattenSeq(parts) = IF n = 0 THEN parts ELSE f[n]
    BY FlattenIsChosen DEF f
  <2>3. QED
    BY <1>1, <1>4, <2>1, <2>2
<1> HIDE DEF p
<1>6. ASSUME NEW i \in 1..n PROVE p[i] = p[i - 1] \o parts[i]
  <2>1. CASE i = 1
    <3>1. <<>> \o parts[i] = parts[i]
      BY <1>1, ConcatEmptySeq
    <3>2. p[i] = parts[i] /\ i - 1 = 0
      BY <1>3, <1>4, <2>1
    <3>3. p[i - 1] = <<>>
      BY <1>4, <3>2, Zenon
    <3>4. QED
      BY <3>1, <3>2, <3>3, Zenon
  <2>2. CASE i # 1
    <3>1. i - 1 \in 1..n
      BY <1>1, <2>2
    <3>2. QED
      BY <1>3, <1>4, <2>2, <3>1
  <2>3. QED
    BY <2>1, <2>2
<1>7. \A i \in 0..n : p[i] \in Seq(S)
  <2> DEFINE Typed == {i \in 0..n : p[i] \in Seq(S)}
  <2>1. 0 \in Typed
    <3>1. 0 \in 0..n
      BY <1>1
    <3>2. p[0] \in Seq(S)
      BY <1>1, <1>4, Zenon
    <3>3. QED
      BY <3>1, <3>2
  <2>2. ASSUME NEW k \in 0..n, k \in Typed, k < n PROVE k + 1 \in Typed
    <3>1. k + 1 \in 1..n /\ (k + 1) - 1 = k
      BY <1>1, <2>2
    <3>2. p[k + 1] = p[k] \o parts[k + 1]
      BY <1>6, <3>1
    <3>3. p[k] \in Seq(S) /\ parts[k + 1] \in Seq(S)
      BY <1>1, <2>2, <3>1
    <3>4. p[k + 1] \in Seq(S)
      BY <3>2, <3>3, ConcatProperties
    <3>5. QED
      BY <1>1, <3>1, <3>4
  <2> HIDE DEF Typed
  <2>3. \A k \in 0..n : k \in Typed
    BY <1>1, <2>1, <2>2, UpTo
  <2>4. QED
    BY <2>3 DEF Typed
<1>8. p \in [0..n -> Seq(S)]
  BY <1>7 DEF p
<1>9. QED
  BY <1>4, <1>5, <1>6, <1>8 DEF Joined, Join

\* What is joined so far goes on with the next part.
LEMMA PrefixGoesOn ==
    ASSUME NEW S, NEW parts \in Seq(Seq(S)), NEW p \in [0..Len(parts) -> Seq(S)], Joined(parts, p),
           NEW i \in 1..Len(parts)
    PROVE  \E rest \in Seq(S) : p[Len(parts)] = Join(p[i - 1], Join(parts[i], rest))
<1> DEFINE n == Len(parts)
           T == Seq(S)
           Done == {k \in i..n : \E rest \in T : p[k] = Join(p[i], rest)}
<1>1. n \in Nat /\ i \in Nat /\ (\A k \in 1..n : parts[k] \in T) /\ <<>> \in T
  BY LenProperties, ElementOfSeq, EmptySeq
<1>2. \A k \in 1..n : p[k] = Join(p[k - 1], parts[k])
  BY DEF Joined
<1>3. /\ \A a, b \in T : Join(a, b) \in T
      /\ \A a, b, c \in T : Join(Join(a, b), c) = Join(a, Join(b, c))
      /\ \A a \in T : Join(a, <<>>) = a
  BY JoinLaws
<1>4. \A k \in 0..n : p[k] \in T
  OBVIOUS
<1> HIDE DEF n, T
<1>5. i \in 1..n /\ i \in 0..n /\ i - 1 \in 0..n
  BY <1>1 DEF n
<1>6. i \in Done
  <2>1. p[i] = Join(p[i], <<>>)
    BY <1>3, <1>4, <1>5
  <2>2. QED
    BY <1>1, <1>5, <2>1
<1>7. ASSUME NEW k \in i..n, k \in Done, k < n PROVE k + 1 \in Done
  <2>1. PICK rest \in T : p[k] = Join(p[i], rest)
    BY <1>7
  <2>2. k + 1 \in 1..n /\ k + 1 \in i..n /\ (k + 1) - 1 = k
    BY <1>1, <1>5, <1>7
  <2>3. p[k + 1] = Join(Join(p[i], rest), parts[k + 1])
    BY <1>2, <2>1, <2>2
  <2>4. p[i] \in T /\ parts[k + 1] \in T
    BY <1>1, <1>4, <1>5, <2>2
  <2>5. p[k + 1] = Join(p[i], Join(rest, parts[k + 1])) /\ Join(rest, parts[k + 1]) \in T
    BY <1>3, <2>3, <2>4
  <2>6. QED
    BY <2>2, <2>5
<1>8. n \in Done
  <2> HIDE DEF Done
  <2>1. \A k \in i..n : k \in Done
    BY <1>1, <1>6, <1>7, UpTo
  <2>2. QED
    BY <1>1, <1>5, <2>1
<1>9. PICK rest \in T : p[n] = Join(p[i], rest)
  BY <1>8
<1>10. p[i] = Join(p[i - 1], parts[i]) /\ p[i - 1] \in T /\ parts[i] \in T
  BY <1>1, <1>2, <1>4, <1>5
<1>11. p[n] = Join(p[i - 1], Join(parts[i], rest))
  <2>1. p[n] = Join(Join(p[i - 1], parts[i]), rest)
    BY <1>9, <1>10
  <2>2. Join(Join(p[i - 1], parts[i]), rest) = Join(p[i - 1], Join(parts[i], rest))
    BY <1>3, <1>10
  <2>3. QED
    BY <2>1, <2>2
<1>12. QED
  BY <1>11 DEF n, T

\* No part is empty, and none begins another.
PrefixFree(S, D) ==
    /\ <<>> \notin D
    /\ \A d, e \in D : \A x, y \in Seq(S) : Join(d, x) = Join(e, y) => d = e

\* Parts that say where they end are read back one by one, from the text they are joined into.
LEMMA PartsAgree ==
    ASSUME NEW S, NEW D \in SUBSET Seq(S), PrefixFree(S, D),
           NEW s \in Seq(D), NEW t \in Seq(D), Len(s) =< Len(t), FlattenSeq(s) = FlattenSeq(t)
    PROVE  s = t
<1> DEFINE m == Len(s)
           n == Len(t)
<1>1. m \in Nat /\ n \in Nat /\ m =< n /\ s \in Seq(Seq(S)) /\ t \in Seq(Seq(S))
  BY LenProperties, SeqMonotonic
<1>2. (\A i \in 1..m : s[i] \in D) /\ (\A i \in 1..n : t[i] \in D)
  BY ElementOfSeq
<1>3. PICK p \in [0..m -> Seq(S)] : Joined(s, p) /\ FlattenSeq(s) = p[m]
  BY <1>1, FlattenJoins
<1>4. PICK q \in [0..n -> Seq(S)] : Joined(t, q) /\ FlattenSeq(t) = q[n]
  BY <1>1, FlattenJoins
<1>5. p[m] = q[n]
  BY <1>3, <1>4
<1> DEFINE Same == {k \in 0..m : p[k] = q[k] /\ \A j \in 1..k : s[j] = t[j]}
<1>6. 0 \in Same
  <2>1. p[0] = q[0]
    BY <1>3, <1>4 DEF Joined
  <2>2. 0 \in 0..m
    BY <1>1
  <2>3. QED
    BY <2>1, <2>2
<1> DEFINE T == Seq(S)
<1>7. /\ \A a, b \in T : Join(a, b) \in T
      /\ \A a, b, c \in T : Join(a, b) = Join(a, c) => b = c
      /\ \A a, b \in T : Join(a, b) = a => b = <<>>
      /\ \A a, b \in T : Join(a, b) = <<>> => a = <<>>
  BY JoinLaws
<1>8. \A i \in 1..m : \E x \in T : p[m] = Join(p[i - 1], Join(s[i], x))
  BY <1>1, <1>3, PrefixGoesOn
<1>9. \A i \in 1..n : \E x \in T : q[n] = Join(q[i - 1], Join(t[i], x))
  BY <1>1, <1>4, PrefixGoesOn
<1>10. /\ \A i \in 1..m : p[i] = Join(p[i - 1], s[i])
       /\ \A i \in 1..n : q[i] = Join(q[i - 1], t[i])
       /\ \A d, e \in D : \A x, y \in T : Join(d, x) = Join(e, y) => d = e
       /\ <<>> \notin D
  BY <1>3, <1>4 DEF Joined, PrefixFree
<1>11. (\A k \in 0..m : p[k] \in T) /\ (\A k \in 0..n : q[k] \in T) /\ D \in SUBSET T
  OBVIOUS
<1> HIDE DEF m, n, T
<1>12. ASSUME NEW k \in 0..m, k \in Same, k < m PROVE k + 1 \in Same
  <2>1. k + 1 \in 1..m /\ k + 1 \in 1..n /\ (k + 1) - 1 = k /\ k \in 0..n
    BY <1>1, <1>12
  <2>2. PICK x \in T : p[m] = Join(p[k], Join(s[k + 1], x))
    BY <1>8, <2>1
  <2>3. PICK y \in T : q[n] = Join(q[k], Join(t[k + 1], y))
    BY <1>9, <2>1
  <2>4. p[k] = q[k] /\ p[k] \in T /\ s[k + 1] \in D /\ t[k + 1] \in D
    BY <1>2, <1>11, <1>12, <2>1
  <2>5. Join(s[k + 1], x) = Join(t[k + 1], y)
    BY <1>5, <1>7, <1>11, <2>2, <2>3, <2>4
  <2>6. s[k + 1] = t[k + 1]
    BY <1>10, <2>4, <2>5
  <2>7. p[k + 1] = q[k + 1]
    BY <1>10, <2>1, <2>4, <2>6
  <2>8. \A j \in 1..(k + 1) : s[j] = t[j]
    <3>1. \A j \in 1..(k + 1) : j \in 1..k \/ j = k + 1
      BY <2>1
    <3>2. QED
      BY <1>12, <2>6, <3>1
  <2>9. k + 1 \in 0..m
    BY <2>1
  <2>10. QED
    BY <2>7, <2>8, <2>9
<1>13. m \in Same
  <2> HIDE DEF Same
  <2>1. \A k \in 0..m : k \in Same
    BY <1>1, <1>6, <1>12, UpTo
  <2>2. QED
    BY <1>1, <2>1
<1>14. CASE m = n
  BY <1>13, <1>14, SeqEqual DEF m, n
<1>15. CASE m # n
  <2>1. m + 1 \in 1..n /\ (m + 1) - 1 = m /\ m \in 0..n
    BY <1>1, <1>15
  <2>2. PICK y \in T : q[n] = Join(q[m], Join(t[m + 1], y))
    BY <1>9, <2>1
  <2>3. q[m] = q[n] /\ q[m] \in T /\ t[m + 1] \in D
    BY <1>2, <1>5, <1>11, <1>13, <2>1
  <2>4. Join(t[m + 1], y) = <<>>
    BY <1>7, <1>11, <2>2, <2>3
  <2>5. t[m + 1] = <<>>
    BY <1>7, <1>11, <2>3, <2>4
  <2>6. QED
    BY <1>10, <2>3, <2>5
<1>16. QED
  BY <1>14, <1>15

\* So no two sequences of such parts are joined into one text.
LEMMA PartsReadBack ==
    ASSUME NEW S, NEW D \in SUBSET Seq(S), PrefixFree(S, D),
           NEW s \in Seq(D), NEW t \in Seq(D), FlattenSeq(s) = FlattenSeq(t)
    PROVE  s = t
<1>1. Len(s) \in Nat /\ Len(t) \in Nat
  BY LenProperties
<1>2. CASE Len(s) =< Len(t)
  BY <1>2, PartsAgree
<1>3. CASE Len(t) =< Len(s)
  BY <1>3, PartsAgree
<1>4. QED
  BY <1>1, <1>2, <1>3

\* A text of the symbols is again one when flattened.
LEMMA FlattenType ==
    ASSUME NEW S, NEW parts \in Seq(Seq(S))
    PROVE  FlattenSeq(parts) \in Seq(S)
<1>1. Len(parts) \in 0..Len(parts)
  BY LenProperties
<1>2. QED
  BY <1>1, FlattenJoins

-----------------------------------------------------------------------------
(***************************************************************************)
(* Sorting: a finite set of naturals is written in increasing order in one *)
(* way, and in no other.                                                   *)
(***************************************************************************)
Increasing(f, n) == \A i, j \in 1..n : i < j => f[i] < f[j]

Onto(f, n, N) == \A x \in N : \E i \in 1..n : f[i] = x

\* A set is as large as an interval that enumerates it.
LEMMA EnumeratedSize ==
    ASSUME NEW N, NEW n \in Nat, NEW f \in [1..n -> N], Onto(f, n, N),
           \A i, j \in 1..n : f[i] = f[j] => i = j
    PROVE  IsFiniteSet(N) /\ Cardinality(N) = n
<1>1. f \in Bijection(1..n, N)
  BY DEF Bijection, Injection, Surjection, IsInjective, Onto
<1>2. IsFiniteSet(1..n) /\ Cardinality(1..n) = n
  BY FS_Interval
<1>3. QED
  BY <1>1, <1>2, FS_Bijection DEF ExistsBijection

\* The part of a set below a bound, in order.
Enumerates(N, k, n, f) ==
    /\ f \in [1..n -> N]
    /\ Increasing(f, n)
    /\ \A i \in 1..n : f[i] < k
    /\ \A x \in N : x < k => \E i \in 1..n : f[i] = x

\* The next number goes behind, if it belongs to the set.
LEMMA EnumerationGrows ==
    ASSUME NEW N \in SUBSET Nat, NEW k \in Nat, NEW n \in Nat, NEW f, Enumerates(N, k, n, f)
    PROVE  \E m \in Nat : \E g : Enumerates(N, k + 1, m, g)
<1>1. /\ f \in [1..n -> N] /\ (\A i, j \in 1..n : i < j => f[i] < f[j])
      /\ (\A i \in 1..n : f[i] < k) /\ (\A i \in 1..n : f[i] \in Nat)
      /\ \A x \in N : x < k => \E i \in 1..n : f[i] = x
  BY DEF Enumerates, Increasing
<1>2. CASE k \notin N
  <2>1. \A x \in N : x < k + 1 => x < k
    BY <1>2
  <2>2. \A i \in 1..n : f[i] < k + 1
    BY <1>1
  <2>3. Enumerates(N, k + 1, n, f)
    BY <1>1, <2>1, <2>2 DEF Enumerates, Increasing
  <2>4. QED
    BY <2>3
<1>3. CASE k \in N
  <2> DEFINE g == [i \in 1..(n + 1) |-> IF i = n + 1 THEN k ELSE f[i]]
  <2>1. \A i \in 1..(n + 1) : i = n + 1 \/ i \in 1..n
    OBVIOUS
  <2>2. g[n + 1] = k /\ \A i \in 1..n : g[i] = f[i]
    OBVIOUS
  <2>3. g \in [1..(n + 1) -> N]
    BY <1>1, <1>3, <2>1
  <2> HIDE DEF g
  <2>4. \A i, j \in 1..(n + 1) : i < j => g[i] < g[j]
    <3>1. SUFFICES ASSUME NEW i \in 1..(n + 1), NEW j \in 1..(n + 1), i < j PROVE g[i] < g[j]
      OBVIOUS
    <3>2. i \in 1..n
      BY <3>1
    <3>3. CASE j = n + 1
      BY <1>1, <2>2, <3>2, <3>3
    <3>4. CASE j \in 1..n
      BY <1>1, <2>2, <3>1, <3>2, <3>4
    <3>5. QED
      BY <2>1, <3>3, <3>4
  <2>5. \A i \in 1..(n + 1) : g[i] < k + 1
    BY <1>1, <2>1, <2>2
  <2>6. ASSUME NEW x \in N, x < k + 1 PROVE \E i \in 1..(n + 1) : g[i] = x
    <3>1. CASE x = k
      BY <2>2, <3>1
    <3>2. CASE x # k
      <4>1. x < k
        BY <2>6, <3>2
      <4>2. PICK i \in 1..n : f[i] = x
        BY <1>1, <4>1
      <4>3. i \in 1..(n + 1) /\ g[i] = x
        BY <2>2, <4>2
      <4>4. QED
        BY <4>3
    <3>3. QED
      BY <3>1, <3>2
  <2>7. Enumerates(N, k + 1, n + 1, g)
    BY <2>3, <2>4, <2>5, <2>6 DEF Enumerates, Increasing
  <2>8. QED
    BY <2>7
<1>4. QED
  BY <1>2, <1>3

\* A set that an interval enumerates can be enumerated in order.
LEMMA EnumerationExists ==
    ASSUME NEW N \in SUBSET Nat, NEW n \in Nat, NEW h \in [1..n -> N], Onto(h, n, N),
           \A i, j \in 1..n : h[i] = h[j] => i = j
    PROVE  \E f \in [1..n -> N] : Increasing(f, n) /\ Onto(f, n, N)
<1>1. IsFiniteSet(N) /\ Cardinality(N) = n
  BY EnumeratedSize
<1>2. PICK top \in Nat : \A x \in N : x < top
  <2>1. CASE N = {}
    BY <2>1
  <2>2. CASE N # {}
    <3>1. PICK m \in N : \A x \in N : x =< m
      BY <1>1, <2>2, GreatestNatural
    <3>2. m + 1 \in Nat /\ \A x \in N : x < m + 1
      BY <3>1
    <3>3. QED
      BY <3>2
  <2>3. QED
    BY <2>1, <2>2
<1> DEFINE Done == {k \in Nat : \E m \in Nat : \E f : Enumerates(N, k, m, f)}
<1>3. 0 \in Done
  <2> DEFINE none == [i \in 1..0 |-> i]
  <2>1. Enumerates(N, 0, 0, none)
    BY DEF Enumerates, Increasing
  <2> HIDE DEF none
  <2>2. QED
    BY <2>1
<1>4. \A k \in Nat : k \in Done => k + 1 \in Done
  BY EnumerationGrows
<1>5. top \in Done
  <2> HIDE DEF Done
  <2>1. \A k \in 0..top : k \in Done
    BY <1>3, <1>4, UpTo
  <2>2. QED
    BY <2>1
<1>6. PICK m \in Nat : \E f : Enumerates(N, top, m, f)
  BY <1>5
<1> PICK f : Enumerates(N, top, m, f)
  BY <1>6
<1>7. f \in [1..m -> N] /\ Increasing(f, m) /\ Onto(f, m, N)
  BY <1>2 DEF Enumerates, Onto
<1>8. \A i, j \in 1..m : f[i] = f[j] => i = j
  <2>1. \A i, j \in 1..m : i < j => f[i] < f[j]
    BY <1>7 DEF Increasing
  <2>2. \A i \in 1..m : f[i] \in Nat
    BY <1>7
  <2>3. QED
    BY <2>1, <2>2
<1>9. m = n
  BY <1>1, <1>7, <1>8, EnumeratedSize
<1>10. QED
  BY <1>7, <1>9

\* Two increasing enumerations of one set are the same, the shorter of them first.
LEMMA EnumerationsAgree ==
    ASSUME NEW N \in SUBSET Nat, NEW m \in Nat, NEW n \in Nat, m =< n,
           NEW f \in [1..m -> N], NEW g \in [1..n -> N],
           Increasing(f, m), Increasing(g, n), Onto(f, m, N), Onto(g, n, N)
    PROVE  m = n /\ \A i \in 1..m : f[i] = g[i]
<1>1. /\ (\A i, j \in 1..m : i < j => f[i] < f[j]) /\ (\A i, j \in 1..n : i < j => g[i] < g[j])
      /\ (\A i \in 1..m : f[i] \in N /\ f[i] \in Nat) /\ \A i \in 1..n : g[i] \in N /\ g[i] \in Nat
  BY DEF Increasing
<1> DEFINE Same == {k \in 0..m : \A i \in 1..k : f[i] = g[i]}
<1>2. 0 \in Same
  OBVIOUS
<1>3. ASSUME NEW k \in 0..m, k \in Same, k < m PROVE k + 1 \in Same
  <2>1. k + 1 \in 1..m /\ k + 1 \in 1..n /\ k + 1 \in 0..m
    BY <1>3
  <2>2. PICK i \in 1..m : f[i] = g[k + 1]
    BY <1>1, <2>1 DEF Onto
  <2>3. PICK j \in 1..n : g[j] = f[k + 1]
    BY <1>1, <2>1 DEF Onto
  <2>4. ~(i =< k)
    <3>1. SUFFICES ASSUME i =< k PROVE FALSE
      OBVIOUS
    <3>2. g[i] = g[k + 1] /\ i \in 1..n /\ i < k + 1
      BY <1>3, <2>2, <3>1
    <3>3. QED
      BY <1>1, <2>1, <3>2
  <2>5. ~(j =< k)
    <3>1. SUFFICES ASSUME j =< k PROVE FALSE
      OBVIOUS
    <3>2. f[j] = f[k + 1] /\ j \in 1..m /\ j < k + 1
      BY <1>3, <2>3, <3>1
    <3>3. QED
      BY <1>1, <2>1, <3>2
  <2>6. f[k + 1] =< g[k + 1]
    BY <1>1, <2>1, <2>2, <2>4
  <2>7. g[k + 1] =< f[k + 1]
    BY <1>1, <2>1, <2>3, <2>5
  <2>8. f[k + 1] = g[k + 1]
    BY <1>1, <2>1, <2>6, <2>7
  <2>9. \A q \in 1..(k + 1) : f[q] = g[q]
    BY <1>3, <2>8
  <2>10. QED
    BY <2>1, <2>9
<1>4. m \in Same
  <2> HIDE DEF Same
  <2>1. \A k \in 0..m : k \in Same
    BY <1>2, <1>3, UpTo
  <2>2. QED
    BY <2>1
<1>5. m = n
  <2>1. SUFFICES ASSUME m + 1 \in 1..n PROVE FALSE
    OBVIOUS
  <2>2. PICK i \in 1..m : f[i] = g[m + 1]
    BY <1>1, <2>1 DEF Onto
  <2>3. g[i] = g[m + 1] /\ i \in 1..n /\ i < m + 1
    BY <1>4, <2>2
  <2>4. QED
    BY <1>1, <2>1, <2>3
<1>6. QED
  BY <1>4, <1>5

\* So they are, whichever is the shorter.
LEMMA EnumerationUnique ==
    ASSUME NEW N \in SUBSET Nat, NEW m \in Nat, NEW n \in Nat,
           NEW f \in [1..m -> N], NEW g \in [1..n -> N],
           Increasing(f, m), Increasing(g, n), Onto(f, m, N), Onto(g, n, N)
    PROVE  m = n /\ \A i \in 1..m : f[i] = g[i]
<1>1. CASE m =< n
  BY <1>1, EnumerationsAgree
<1>2. CASE n =< m
  <2>1. n = m /\ \A i \in 1..n : g[i] = f[i]
    BY <1>2, EnumerationsAgree
  <2>2. QED
    BY <2>1
<1>3. QED
  BY <1>1, <1>2

-----------------------------------------------------------------------------
(***************************************************************************)
(* Members and fields, each behind a head that says how long it is.        *)
(***************************************************************************)
\* Two equal texts that begin with heads as long as each other, which say how long what follows is, begin
\* with the same head and the same part.
LEMMA Headed ==
    ASSUME NEW a \in Seq(Nat), NEW b \in Seq(Nat), NEW c \in Seq(Nat), NEW d \in Seq(Nat),
           NEW x \in Seq(Nat), NEW y \in Seq(Nat), Len(a) = Len(b), a = b => Len(c) = Len(d),
           Join(Join(a, c), x) = Join(Join(b, d), y)
    PROVE  a = b /\ c = d
<1>1. \A p, q, r \in Seq(Nat) : Join(Join(p, q), r) = Join(p, Join(q, r)) /\ Join(q, r) \in Seq(Nat)
  BY JoinLaws
<1>2. \A p, q, r, u \in Seq(Nat) : Len(p) = Len(q) /\ Join(p, r) = Join(q, u) => p = q /\ r = u
  BY SameStart DEF Join
<1>3. Join(a, Join(c, x)) = Join(b, Join(d, y)) /\ Join(c, x) \in Seq(Nat) /\ Join(d, y) \in Seq(Nat)
  BY <1>1
<1>4. a = b /\ Join(c, x) = Join(d, y)
  BY <1>2, <1>3
<1>5. c = d
  BY <1>2, <1>4
<1>6. QED
  BY <1>4, <1>5

\* A head is a text of the symbols.
LEMMA HeadType ==
    ASSUME NEW a \in Nat, NEW b \in Nat
    PROVE  /\ <<a>> \in Seq(Nat) /\ Len(<<a>>) = 1 /\ <<a>>[1] = a
           /\ <<a, b>> \in Seq(Nat) /\ Len(<<a, b>>) = 2 /\ <<a, b>>[1] = a /\ <<a, b>>[2] = b
OBVIOUS

WrittenMembers == {Written(member) : member \in ObjectMembers}

\* A written member is a text.
LEMMA WrittenType ==
    ASSUME NEW member \in ObjectMembers
    PROVE  /\ member.name \in Nat /\ member.text \in Seq(Nat) /\ Len(member.text) \in Nat
           /\ Written(member) \in Seq(Nat) /\ Written(member) # <<>>
<1>1. member.name \in Nat /\ member.text \in Seq(Nat)
  BY DEF ObjectMembers
<1>2. Len(member.text) \in Nat
  BY <1>1, LenProperties
<1>3. <<member.name, Len(member.text)>> \in Seq(Nat) /\ Len(<<member.name, Len(member.text)>>) = 2
  BY <1>1, <1>2, HeadType
<1>4. Written(member) \in Seq(Nat) /\ Len(Written(member)) = 2 + Len(member.text)
  BY <1>1, <1>3, ConcatProperties DEF Written
<1>5. Written(member) # <<>>
  BY <1>2, <1>4, EmptySeq
<1>6. QED
  BY <1>1, <1>2, <1>4, <1>5

\* A member is read back from a text that begins with it.
LEMMA WrittenReadBack ==
    ASSUME NEW m \in ObjectMembers, NEW n \in ObjectMembers, NEW x \in Seq(Nat), NEW y \in Seq(Nat),
           Join(Written(m), x) = Join(Written(n), y)
    PROVE  m.name = n.name /\ m.text = n.text
<1> DEFINE a == <<m.name, Len(m.text)>>
           b == <<n.name, Len(n.text)>>
<1>1. /\ m.text \in Seq(Nat) /\ n.text \in Seq(Nat)
      /\ a \in Seq(Nat) /\ b \in Seq(Nat) /\ Len(a) = 2 /\ Len(b) = 2
      /\ a[1] = m.name /\ a[2] = Len(m.text) /\ b[1] = n.name /\ b[2] = Len(n.text)
  BY WrittenType, HeadType
<1>2. Join(Join(a, m.text), x) = Join(Join(b, n.text), y)
  BY DEF Written, Join
<1> DEFINE c == m.text
           d == n.text
<1> HIDE DEF a, b, c, d
<1>3. a = b => Len(c) = Len(d)
  BY <1>1 DEF c, d
<1>4. a = b /\ c = d
  <2>1. c \in Seq(Nat) /\ d \in Seq(Nat) /\ a \in Seq(Nat) /\ b \in Seq(Nat) /\ Len(a) = Len(b)
    BY <1>1 DEF c, d
  <2>2. Join(Join(a, c), x) = Join(Join(b, d), y)
    BY <1>2 DEF c, d
  <2>3. QED
    BY <1>3, <2>1, <2>2, Headed
<1>5. QED
  BY <1>1, <1>4 DEF c, d

\* No written member begins another.
LEMMA WrittenPrefixFree == WrittenMembers \in SUBSET Seq(Nat) /\ PrefixFree(Nat, WrittenMembers)
<1>1. WrittenMembers \in SUBSET Seq(Nat) /\ <<>> \notin WrittenMembers
  BY WrittenType DEF WrittenMembers
<1>2. ASSUME NEW d \in WrittenMembers, NEW e \in WrittenMembers,
             NEW x \in Seq(Nat), NEW y \in Seq(Nat), Join(d, x) = Join(e, y)
      PROVE  d = e
  <2>1. PICK m \in ObjectMembers : d = Written(m)
    BY DEF WrittenMembers
  <2>2. PICK n \in ObjectMembers : e = Written(n)
    BY DEF WrittenMembers
  <2>3. m.name = n.name /\ m.text = n.text
    BY <1>2, <2>1, <2>2, WrittenReadBack
  <2>4. QED
    BY <2>1, <2>2, <2>3 DEF Written
<1>3. QED
  BY <1>1, <1>2 DEF PrefixFree

\* A field behind its length.
Prefixed(field) == <<Len(field)>> \o field

PrefixedFields == {Prefixed(field) : field \in Seq(Nat)}

\* A field is read back from a text that begins with it, so none begins another.
LEMMA PrefixedReadBack ==
    ASSUME NEW f \in Seq(Nat), NEW g \in Seq(Nat), NEW x \in Seq(Nat), NEW y \in Seq(Nat),
           Join(Prefixed(f), x) = Join(Prefixed(g), y)
    PROVE  f = g
<1> DEFINE a == <<Len(f)>>
           b == <<Len(g)>>
<1>1. Len(f) \in Nat /\ Len(g) \in Nat
  BY LenProperties
<1>2. /\ a \in Seq(Nat) /\ b \in Seq(Nat) /\ Len(a) = 1 /\ Len(b) = 1
      /\ a[1] = Len(f) /\ b[1] = Len(g)
  BY <1>1, HeadType
<1>3. Join(Join(a, f), x) = Join(Join(b, g), y)
  BY DEF Prefixed, Join
<1> HIDE DEF a, b
<1>4. a = b => Len(f) = Len(g)
  BY <1>2
<1>5. QED
  BY <1>2, <1>3, <1>4, Headed

LEMMA PrefixedPrefixFree == PrefixedFields \in SUBSET Seq(Nat) /\ PrefixFree(Nat, PrefixedFields)
<1>1. ASSUME NEW f \in Seq(Nat) PROVE Prefixed(f) \in Seq(Nat) /\ Prefixed(f) # <<>>
  <2>1. Len(f) \in Nat
    BY LenProperties
  <2>2. <<Len(f)>> \in Seq(Nat) /\ Len(<<Len(f)>>) = 1
    BY <2>1, HeadType
  <2>3. Prefixed(f) \in Seq(Nat) /\ Len(Prefixed(f)) = 1 + Len(f)
    BY <2>2, ConcatProperties DEF Prefixed
  <2>4. QED
    BY <2>1, <2>3, EmptySeq
<1>2. PrefixedFields \in SUBSET Seq(Nat) /\ <<>> \notin PrefixedFields
  BY <1>1 DEF PrefixedFields
<1>3. ASSUME NEW d \in PrefixedFields, NEW e \in PrefixedFields,
             NEW x \in Seq(Nat), NEW y \in Seq(Nat), Join(d, x) = Join(e, y)
      PROVE  d = e
  <2>1. PICK f \in Seq(Nat) : d = Prefixed(f)
    BY DEF PrefixedFields
  <2>2. PICK g \in Seq(Nat) : e = Prefixed(g)
    BY DEF PrefixedFields
  <2>3. f = g
    BY <1>3, <2>1, <2>2, PrefixedReadBack
  <2>4. QED
    BY <2>1, <2>2, <2>3
<1>4. QED
  BY <1>2, <1>3 DEF PrefixFree

-----------------------------------------------------------------------------
(***************************************************************************)
(* Payloads: two have one canonical form if and only if they give the same *)
(* names the same values.                                                  *)
(***************************************************************************)
ValidPayloads == {payload \in Seq(ObjectMembers) : ValidPayload(payload)}

Pairs(payload) == {<<m.name, m.text>> : m \in Range(payload)}

\* A payload is its members by position.
LEMMA PayloadType ==
    ASSUME NEW payload \in ValidPayloads
    PROVE  /\ Len(payload) \in Nat /\ DOMAIN payload = 1..Len(payload)
           /\ payload \in [1..Len(payload) -> ObjectMembers]
           /\ \A i, j \in 1..Len(payload) : payload[i].name = payload[j].name => i = j
           /\ Range(payload) \in SUBSET ObjectMembers
           /\ \A m, n \in Range(payload) : m.name = n.name => m = n
<1>1. payload \in Seq(ObjectMembers) /\ ValidPayload(payload)
  BY DEF ValidPayloads
<1>2. Len(payload) \in Nat /\ DOMAIN payload = 1..Len(payload) /\ payload \in [1..Len(payload) -> ObjectMembers]
  BY <1>1, LenProperties
<1>3. \A i, j \in 1..Len(payload) : payload[i].name = payload[j].name => i = j
  BY <1>1, <1>2 DEF ValidPayload
<1>4. QED
  BY <1>2, <1>3 DEF Range

\* Some order of the members goes by their names.
LEMMA SortedExists ==
    ASSUME NEW payload \in ValidPayloads
    PROVE  \E members \in [DOMAIN payload -> Range(payload)] :
              /\ Range(members) = Range(payload)
              /\ \A i, j \in DOMAIN members : i < j => members[i].name < members[j].name
<1> DEFINE n == Len(payload)
           N == {payload[i].name : i \in 1..n}
           h == [i \in 1..n |-> payload[i].name]
<1>1. /\ n \in Nat /\ DOMAIN payload = 1..n /\ payload \in [1..n -> ObjectMembers]
      /\ \A i, j \in 1..n : payload[i].name = payload[j].name => i = j
  BY PayloadType
<1>2. N \in SUBSET Nat
  BY <1>1 DEF ObjectMembers
<1>3. h \in [1..n -> N] /\ Onto(h, n, N) /\ \A i, j \in 1..n : h[i] = h[j] => i = j
  BY <1>1 DEF Onto
<1>4. PICK f \in [1..n -> N] : Increasing(f, n) /\ Onto(f, n, N)
  <2> HIDE DEF N, h, n
  <2>1. QED
    BY <1>1, <1>2, <1>3, EnumerationExists
<1> DEFINE at == [i \in 1..n |-> CHOOSE j \in 1..n : payload[j].name = f[i]]
           members == [i \in 1..n |-> payload[at[i]]]
<1>5. \A i \in 1..n : at[i] \in 1..n /\ payload[at[i]].name = f[i]
  <2>1. SUFFICES ASSUME NEW i \in 1..n PROVE at[i] \in 1..n /\ payload[at[i]].name = f[i]
    OBVIOUS
  <2>2. f[i] \in N
    BY <1>4
  <2>3. \E j \in 1..n : payload[j].name = f[i]
    BY <2>2
  <2>4. at[i] = CHOOSE j \in 1..n : payload[j].name = f[i]
    OBVIOUS
  <2>5. QED
    BY <2>3, <2>4
<1> HIDE DEF at
<1>6. members \in [DOMAIN payload -> Range(payload)]
  BY <1>1, <1>5 DEF Range
<1>7. Range(payload) \subseteq Range(members)
  <2>1. SUFFICES ASSUME NEW j \in 1..n PROVE payload[j] \in Range(members)
    BY <1>1 DEF Range
  <2>2. payload[j].name \in N
    OBVIOUS
  <2>3. PICK i \in 1..n : f[i] = payload[j].name
    BY <1>4, <2>2 DEF Onto
  <2>4. at[i] = j
    BY <1>1, <1>5, <2>3
  <2>5. members[i] = payload[j]
    BY <2>4
  <2>6. QED
    BY <2>5 DEF Range
<1>8. Range(members) = Range(payload)
  <2>1. ASSUME NEW i \in 1..n PROVE members[i] \in Range(payload)
    BY <1>6, <1>1
  <2>2. Range(members) \subseteq Range(payload)
    BY <2>1 DEF Range
  <2>3. QED
    BY <1>7, <2>2
<1>9. \A i, j \in DOMAIN members : i < j => members[i].name < members[j].name
  BY <1>4, <1>5 DEF Increasing
<1>10. QED
  BY <1>6, <1>8, <1>9

\* The members by name are all of them, in the one order of their names.
LEMMA SortedIs ==
    ASSUME NEW payload \in ValidPayloads
    PROVE  /\ Sorted(payload) \in [1..Len(payload) -> ObjectMembers]
           /\ Range(payload) = {Sorted(payload)[i] : i \in 1..Len(payload)}
           /\ \A i, j \in 1..Len(payload) : i < j => Sorted(payload)[i].name < Sorted(payload)[j].name
<1> DEFINE members == Sorted(payload)
<1>1. /\ members \in [DOMAIN payload -> Range(payload)]
      /\ Range(members) = Range(payload)
      /\ \A i, j \in DOMAIN members : i < j => members[i].name < members[j].name
  <2> DEFINE Fits(q) == /\ Range(q) = Range(payload)
                        /\ \A i, j \in DOMAIN q : i < j => q[i].name < q[j].name
  <2>1. \E q \in [DOMAIN payload -> Range(payload)] : Fits(q)
    BY SortedExists, Zenon
  <2>2. members = CHOOSE q \in [DOMAIN payload -> Range(payload)] : Fits(q)
    BY DEF Sorted
  <2> HIDE DEF members, Fits
  <2>3. members \in [DOMAIN payload -> Range(payload)] /\ Fits(members)
    BY <2>1, <2>2, Zenon
  <2>4. QED
    BY <2>3 DEF Fits
<1>2. DOMAIN payload = 1..Len(payload) /\ Range(payload) \in SUBSET ObjectMembers
  BY PayloadType
<1> HIDE DEF members
<1>3. DOMAIN members = 1..Len(payload) /\ members \in [1..Len(payload) -> ObjectMembers]
  BY <1>1, <1>2
<1>4. Range(payload) = {members[i] : i \in 1..Len(payload)}
  BY <1>1, <1>3 DEF Range
<1>5. QED
  BY <1>1, <1>3, <1>4 DEF members

\* Payloads that give the same names the same values are sorted alike.
LEMMA SortedAlike ==
    ASSUME NEW p \in ValidPayloads, NEW q \in ValidPayloads, Pairs(p) = Pairs(q)
    PROVE  /\ Len(p) = Len(q)
           /\ \A i \in 1..Len(p) : /\ Sorted(p)[i].name = Sorted(q)[i].name
                                   /\ Sorted(p)[i].text = Sorted(q)[i].text
<1> DEFINE m == Len(p)
           n == Len(q)
           a == Sorted(p)
           b == Sorted(q)
           N == {x.name : x \in Range(p)}
           f == [i \in 1..m |-> a[i].name]
           g == [i \in 1..n |-> b[i].name]
<1>1. /\ m \in Nat /\ n \in Nat
      /\ Range(p) \in SUBSET ObjectMembers /\ Range(q) \in SUBSET ObjectMembers
      /\ \A x, y \in Range(q) : x.name = y.name => x = y
  BY PayloadType
<1>2. /\ Range(p) = {a[i] : i \in 1..m} /\ Range(q) = {b[i] : i \in 1..n}
      /\ \A i, j \in 1..m : i < j => a[i].name < a[j].name
      /\ \A i, j \in 1..n : i < j => b[i].name < b[j].name
  BY SortedIs
<1>3. \A x \in Range(p) : \E y \in Range(q) : y.name = x.name /\ y.text = x.text
  <2>1. ASSUME NEW x \in Range(p) PROVE \E y \in Range(q) : y.name = x.name /\ y.text = x.text
    <3>1. <<x.name, x.text>> \in Pairs(q)
      BY DEF Pairs
    <3>2. PICK y \in Range(q) : <<x.name, x.text>> = <<y.name, y.text>>
      BY <3>1 DEF Pairs
    <3>3. QED
      BY <3>2
  <2>2. QED
    BY <2>1
<1>4. \A y \in Range(q) : \E x \in Range(p) : y.name = x.name
  <2>1. ASSUME NEW y \in Range(q) PROVE \E x \in Range(p) : y.name = x.name
    <3>1. <<y.name, y.text>> \in Pairs(p)
      BY DEF Pairs
    <3>2. PICK x \in Range(p) : <<x.name, x.text>> = <<y.name, y.text>>
      BY <3>1 DEF Pairs
    <3>3. QED
      BY <3>2
  <2>2. QED
    BY <2>1
<1> HIDE DEF a, b, m, n
<1>5. N \in SUBSET Nat /\ f \in [1..m -> N] /\ Onto(f, m, N) /\ Increasing(f, m)
  BY <1>1, <1>2 DEF ObjectMembers, Onto, Increasing
<1>6. g \in [1..n -> N] /\ Onto(g, n, N) /\ Increasing(g, n)
  <2>1. N = {y.name : y \in Range(q)}
    BY <1>3, <1>4
  <2> HIDE DEF N
  <2>2. QED
    BY <1>2, <2>1 DEF Onto, Increasing
<1>7. m = n /\ \A i \in 1..m : f[i] = g[i]
  <2> HIDE DEF N, f, g
  <2>1. QED
    BY <1>1, <1>5, <1>6, EnumerationUnique
<1>8. ASSUME NEW i \in 1..m PROVE a[i].name = b[i].name /\ a[i].text = b[i].text
  <2>1. a[i].name = b[i].name /\ a[i] \in Range(p) /\ b[i] \in Range(q)
    BY <1>2, <1>7
  <2>2. PICK y \in Range(q) : y.name = a[i].name /\ y.text = a[i].text
    BY <1>3, <2>1
  <2>3. y = b[i]
    BY <1>1, <2>1, <2>2
  <2>4. QED
    BY <2>2, <2>3
<1>9. QED
  BY <1>7, <1>8 DEF m, n, a, b

WrittenSorted(payload) == [i \in DOMAIN payload |-> Written(Sorted(payload)[i])]

\* The canonical form joins the written members.
LEMMA CanonicalType ==
    ASSUME NEW payload \in ValidPayloads
    PROVE  /\ CanonicalPayload(payload) = FlattenSeq(WrittenSorted(payload))
           /\ WrittenSorted(payload) \in Seq(WrittenMembers)
           /\ Len(WrittenSorted(payload)) = Len(payload)
           /\ \A i \in 1..Len(payload) : WrittenSorted(payload)[i] = Written(Sorted(payload)[i])
           /\ CanonicalPayload(payload) \in Seq(Nat)
<1> DEFINE n == Len(payload)
           w == WrittenSorted(payload)
<1>1. n \in Nat /\ DOMAIN payload = 1..n /\ \A i \in 1..n : Sorted(payload)[i] \in ObjectMembers
  BY PayloadType, SortedIs
<1>2. w = [i \in 1..n |-> Written(Sorted(payload)[i])]
  BY <1>1 DEF WrittenSorted
<1>3. w \in [1..n -> WrittenMembers]
  BY <1>1, <1>2 DEF WrittenMembers
<1>4. w \in Seq(WrittenMembers) /\ Len(w) = n
  BY <1>1, <1>2, <1>3, SeqDef
<1>5. w \in Seq(Seq(Nat))
  BY <1>4, WrittenPrefixFree, SeqMonotonic
<1>6. CanonicalPayload(payload) = FlattenSeq(w)
  BY DEF CanonicalPayload, WrittenSorted
<1>7. CanonicalPayload(payload) \in Seq(Nat)
  BY <1>5, <1>6, FlattenType
<1>8. QED
  BY <1>2, <1>4, <1>6, <1>7

\* Payloads formatted apart have one canonical form, and no two others share theirs.
LEMMA CanonicalIdentifies ==
    ASSUME NEW p \in ValidPayloads, NEW q \in ValidPayloads
    PROVE  CanonicalPayload(p) = CanonicalPayload(q) <=> Pairs(p) = Pairs(q)
<1> DEFINE v == WrittenSorted(p)
           w == WrittenSorted(q)
<1>1. /\ CanonicalPayload(p) = FlattenSeq(v) /\ CanonicalPayload(q) = FlattenSeq(w)
      /\ v \in Seq(WrittenMembers) /\ w \in Seq(WrittenMembers) /\ Len(v) = Len(p) /\ Len(w) = Len(q)
      /\ \A i \in 1..Len(p) : v[i] = Written(Sorted(p)[i])
      /\ \A i \in 1..Len(q) : w[i] = Written(Sorted(q)[i])
  BY CanonicalType
<1>2. /\ Range(p) = {Sorted(p)[i] : i \in 1..Len(p)} /\ Range(q) = {Sorted(q)[i] : i \in 1..Len(q)}
      /\ \A i \in 1..Len(p) : Sorted(p)[i] \in ObjectMembers
      /\ \A i \in 1..Len(q) : Sorted(q)[i] \in ObjectMembers
  BY SortedIs
<1> HIDE DEF v, w
<1>3. ASSUME Pairs(p) = Pairs(q) PROVE CanonicalPayload(p) = CanonicalPayload(q)
  <2>1. Len(p) = Len(q) /\ \A i \in 1..Len(p) : Written(Sorted(p)[i]) = Written(Sorted(q)[i])
    BY <1>3, SortedAlike DEF Written
  <2>2. v = w
    BY <1>1, <2>1, SeqEqual
  <2>3. QED
    BY <1>1, <2>2
<1>4. ASSUME CanonicalPayload(p) = CanonicalPayload(q) PROVE Pairs(p) = Pairs(q)
  <2>1. v = w
    BY <1>1, <1>4, WrittenPrefixFree, PartsReadBack
  <2>2. Len(p) = Len(q) /\ \A i \in 1..Len(p) : Written(Sorted(p)[i]) = Written(Sorted(q)[i])
    BY <1>1, <2>1
  <2>3. ASSUME NEW i \in 1..Len(p)
        PROVE  Sorted(p)[i].name = Sorted(q)[i].name /\ Sorted(p)[i].text = Sorted(q)[i].text
    <3>1. Join(Written(Sorted(p)[i]), <<>>) = Join(Written(Sorted(q)[i]), <<>>) /\ <<>> \in Seq(Nat)
      BY <2>2, EmptySeq
    <3>2. QED
      BY <1>2, <2>2, <3>1, WrittenReadBack
  <2>4. /\ Pairs(p) = {<<Sorted(p)[i].name, Sorted(p)[i].text>> : i \in 1..Len(p)}
        /\ Pairs(q) = {<<Sorted(q)[i].name, Sorted(q)[i].text>> : i \in 1..Len(q)}
    BY <1>2 DEF Pairs
  <2>5. QED
    BY <2>2, <2>3, <2>4
<1>5. QED
  BY <1>3, <1>4

-----------------------------------------------------------------------------
(***************************************************************************)
(* Keys.                                                                   *)
(***************************************************************************)
\* The fields of a key are six texts.
LEMMA FieldsType ==
    ASSUME NEW request \in ValidRequests
    PROVE  /\ DOMAIN Fields(request) = 1..6
           /\ \A i \in 1..6 : Fields(request)[i] \in Seq(Nat)
           /\ request.payload \in ValidPayloads
<1>1. /\ request.owner \in Nat /\ request.variant \in Nat /\ request.stream \in BOOLEAN
      /\ request.purpose \in Seq(Nat) /\ request.provider \in Seq(Nat)
      /\ request.payload \in ValidPayloads
  BY DEF ValidRequests, Requests, ValidPayloads
<1>2. <<request.owner>> \in Seq(Nat) /\ <<request.variant>> \in Seq(Nat) /\ Mode(request) \in Seq(Nat)
  BY <1>1, HeadType DEF Mode
<1>3. CanonicalPayload(request.payload) \in Seq(Nat)
  BY <1>1, CanonicalType
<1>4. DOMAIN Fields(request) = 1..6
  BY DEF Fields
<1>5. /\ Fields(request)[1] = <<request.owner>> /\ Fields(request)[2] = request.purpose
      /\ Fields(request)[3] = request.provider /\ Fields(request)[4] = Mode(request)
      /\ Fields(request)[5] = CanonicalPayload(request.payload) /\ Fields(request)[6] = <<request.variant>>
  BY DEF Fields
<1>6. \A i \in 1..6 : i = 1 \/ i = 2 \/ i = 3 \/ i = 4 \/ i = 5 \/ i = 6
  OBVIOUS
<1>7. QED
  BY <1>1, <1>2, <1>3, <1>4, <1>5, <1>6

PrefixedSequence(request) == [i \in 1..6 |-> Prefixed(Fields(request)[i])]

\* A key joins them, each behind its length.
LEMMA KeyType ==
    ASSUME NEW request \in ValidRequests
    PROVE  /\ Key(request) = FlattenSeq(PrefixedSequence(request))
           /\ PrefixedSequence(request) \in Seq(PrefixedFields)
<1>1. DOMAIN Fields(request) = 1..6 /\ \A i \in 1..6 : Fields(request)[i] \in Seq(Nat)
  BY FieldsType
<1>2. Key(request) = FlattenSeq(PrefixedSequence(request))
  BY <1>1 DEF Key, PrefixedSequence, Prefixed
<1>3. PrefixedSequence(request) \in [1..6 -> PrefixedFields]
  BY <1>1 DEF PrefixedSequence, PrefixedFields
<1>4. PrefixedSequence(request) \in Seq(PrefixedFields)
  BY <1>3, SeqDef
<1>5. QED
  BY <1>2, <1>4

\* Requests of one key have the same fields.
LEMMA KeyFixesFields ==
    ASSUME NEW r \in ValidRequests, NEW s \in ValidRequests
    PROVE  Key(r) = Key(s) <=> \A i \in 1..6 : Fields(r)[i] = Fields(s)[i]
<1>1. ASSUME Key(r) = Key(s) PROVE \A i \in 1..6 : Fields(r)[i] = Fields(s)[i]
  <2>1. PrefixedSequence(r) = PrefixedSequence(s)
    BY <1>1, KeyType, PrefixedPrefixFree, PartsReadBack
  <2>2. SUFFICES ASSUME NEW i \in 1..6 PROVE Fields(r)[i] = Fields(s)[i]
    OBVIOUS
  <2>3. Prefixed(Fields(r)[i]) = Prefixed(Fields(s)[i])
    BY <2>1 DEF PrefixedSequence
  <2>4. Join(Prefixed(Fields(r)[i]), <<>>) = Join(Prefixed(Fields(s)[i]), <<>>) /\ <<>> \in Seq(Nat)
    BY <2>3, EmptySeq
  <2>5. QED
    BY <2>4, FieldsType, PrefixedReadBack
<1>2. ASSUME \A i \in 1..6 : Fields(r)[i] = Fields(s)[i] PROVE Key(r) = Key(s)
  <2>1. PrefixedSequence(r) = PrefixedSequence(s)
    BY <1>2 DEF PrefixedSequence
  <2>2. QED
    BY <2>1, KeyType
<1>3. QED
  BY <1>1, <1>2

\* What a request asks for is its fields, its payload's formatting apart.
LEMMA ContentIs ==
    ASSUME NEW request \in Requests
    PROVE  Content(request) =
             [owner |-> request.owner, purpose |-> request.purpose, provider |-> request.provider,
              stream |-> request.stream, payload |-> Pairs(request.payload), variant |-> request.variant]
<1>1. Content(request) = [request EXCEPT !.payload = Pairs(request.payload)]
  BY DEF Content, Pairs
<1>2. DOMAIN request = {"owner", "purpose", "provider", "stream", "payload", "variant"}
  BY DEF Requests
<1>3. QED
  BY <1>1, <1>2 DEF Requests

\* Two requests, of any length, have one key if and only if they ask for the same: requestKey puts each
\* field behind its length, and canonicalPayload sorts the members and drops the white space, so neither
\* formatting sends the work twice nor do two requests whose fields run together share a generation.
THEOREM KeyIdentifiesContent ==
    ASSUME NEW r \in ValidRequests, NEW s \in ValidRequests
    PROVE  Key(r) = Key(s) <=> Content(r) = Content(s)
<1>1. r \in Requests /\ s \in Requests /\ r.payload \in ValidPayloads /\ s.payload \in ValidPayloads
  BY FieldsType DEF ValidRequests
<1>2. (\A i \in 1..6 : Fields(r)[i] = Fields(s)[i]) <=>
         /\ <<r.owner>> = <<s.owner>> /\ r.purpose = s.purpose /\ r.provider = s.provider
         /\ Mode(r) = Mode(s) /\ CanonicalPayload(r.payload) = CanonicalPayload(s.payload)
         /\ <<r.variant>> = <<s.variant>>
  <2>1. \A i \in 1..6 : i = 1 \/ i = 2 \/ i = 3 \/ i = 4 \/ i = 5 \/ i = 6
    OBVIOUS
  <2>2. QED
    BY <2>1 DEF Fields
<1>3. Mode(r) = Mode(s) <=> r.stream = s.stream
  <2>1. r.stream \in BOOLEAN /\ s.stream \in BOOLEAN
    BY <1>1 DEF Requests
  <2>2. <<30, 31>> # <<30>>
    BY HeadType
  <2>3. QED
    BY <2>1, <2>2 DEF Mode
<1>4. CanonicalPayload(r.payload) = CanonicalPayload(s.payload) <=> Pairs(r.payload) = Pairs(s.payload)
  BY <1>1, CanonicalIdentifies
<1>5. (<<r.owner>> = <<s.owner>> <=> r.owner = s.owner) /\ (<<r.variant>> = <<s.variant>> <=> r.variant = s.variant)
  OBVIOUS
<1>6. Content(r) = Content(s) <=>
         /\ r.owner = s.owner /\ r.purpose = s.purpose /\ r.provider = s.provider
         /\ r.stream = s.stream /\ Pairs(r.payload) = Pairs(s.payload) /\ r.variant = s.variant
  BY <1>1, ContentIs
<1>7. QED
  BY <1>2, <1>3, <1>4, <1>5, <1>6, KeyFixesFields

\* Two requests of one key send the provider the same body: the asyncEnvelope of a generation that a caller
\* attaches to is the one its own request would have sent.
THEOREM KeyFixesBody ==
    ASSUME NEW r \in ValidRequests, NEW s \in ValidRequests, Key(r) = Key(s)
    PROVE  Sent(r) = Sent(s)
<1> DEFINE Own(pairs) == {pair \in pairs : pair[1] \notin {background, stream}}
<1>1. Content(r) = Content(s) /\ r \in Requests /\ s \in Requests
  BY KeyIdentifiesContent DEF ValidRequests
<1>2. r.stream = s.stream /\ Pairs(r.payload) = Pairs(s.payload)
  BY <1>1, ContentIs
<1>3. ASSUME NEW request
      PROVE  Sent(request) = Own(Pairs(request.payload))
                               \cup {<<background, Boolean(TRUE)>>, <<stream, Boolean(request.stream)>>}
  <2> DEFINE R == Range(request.payload)
             own == {m \in R : m.name \notin {background, stream}}
             sent == {<<m.name, m.text>> : m \in own}
  <2>1. Pairs(request.payload) = {<<m.name, m.text>> : m \in R}
    BY DEF Pairs
  <2>2. \A m \in R : <<m.name, m.text>>[1] = m.name
    OBVIOUS
  <2>3. ASSUME NEW pair \in sent PROVE pair \in Own(Pairs(request.payload))
    <3>1. PICK m \in own : pair = <<m.name, m.text>>
      OBVIOUS
    <3>2. QED
      BY <2>1, <2>2, <3>1
  <2>4. ASSUME NEW pair \in Own(Pairs(request.payload)) PROVE pair \in sent
    <3>1. PICK m \in R : pair = <<m.name, m.text>>
      BY <2>1
    <3>2. m \in own
      BY <2>2, <3>1
    <3>3. QED
      BY <3>1, <3>2
  <2>5. sent = Own(Pairs(request.payload))
    BY <2>3, <2>4
  <2>6. QED
    BY <2>5 DEF Sent
<1>4. QED
  BY <1>2, <1>3

=============================================================================
