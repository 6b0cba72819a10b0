---------------------------- MODULE OrderLemmas ----------------------------
(***************************************************************************)
(* Facts about finite orders and sequences that the proofs of several      *)
(* components use: least elements, induction, recursion, ranks, the        *)
(* sequences of a set, concatenation.                                      *)
(***************************************************************************)
EXTENDS Naturals, Sequences, FiniteSets, SequencesExt, FiniteSetTheorems, WellFoundedInduction, TLAPS

\* Every set of naturals that is not empty has a least element.
LEMMA LeastElement ==
  ASSUME NEW S \in SUBSET Nat, S # {}
  PROVE  \E n \in S : \A m \in S : n <= m
<1>1. PICK n \in S : \A m \in S : ~(<<m, n>> \in OpToRel(<, Nat))
  BY NatLessThanWellFounded, WFMin
<1>2. \A m \in S : ~(m < n)
  BY <1>1 DEF OpToRel
<1> QED
  BY <1>2

\* A set that holds 0 and the successor of each of its naturals holds them all.
LEMMA SetInduction ==
  ASSUME NEW S, 0 \in S, \A n \in Nat : n \in S => n + 1 \in S
  PROVE  Nat \subseteq S
<1> SUFFICES ASSUME Nat \ S # {} PROVE FALSE
  OBVIOUS
<1>1. PICK n \in Nat \ S : \A m \in Nat \ S : n <= m
  BY LeastElement
<1>2. n \in Nat /\ n # 0
  BY <1>1
<1>3. n - 1 \in Nat /\ n - 1 + 1 = n
  BY <1>2
<1>4. n - 1 \notin Nat \ S
  BY <1>1, <1>2, <1>3
<1> QED
  BY <1>3, <1>4

\* f goes from base by the steps of step, up to N.
Iterates(f, base, step, N) == f[0] = base /\ \A k \in 1 .. N : f[k] = step[<<k, f[k - 1]>>]

\* A function can be defined by recursion over the naturals up to N.
LEMMA Iteration ==
  ASSUME NEW S, NEW base \in S, NEW step \in [Nat \X S -> S], NEW N \in Nat
  PROVE  \E f \in [0 .. N -> S] : Iterates(f, base, step, N)
<1> DEFINE Upto(n, f) == Iterates(f, base, step, n)
           T == {n \in Nat : \E f \in [0 .. n -> S] : Upto(n, f)}
<1>1. 0 \in T
  <2>1. [k \in 0 .. 0 |-> base] \in [0 .. 0 -> S] /\ Upto(0, [k \in 0 .. 0 |-> base])
    BY DEF Iterates
  <2> QED
    BY <2>1
<1>2. ASSUME NEW n \in Nat, n \in T PROVE n + 1 \in T
  <2>1. PICK f \in [0 .. n -> S] : Upto(n, f)
    BY <1>2
  <2> DEFINE g == [k \in 0 .. n + 1 |-> IF k <= n THEN f[k] ELSE step[<<n + 1, f[n]>>]]
  <2>2. g \in [0 .. n + 1 -> S]
    <3>1. n \in 0 .. n /\ f[n] \in S
      OBVIOUS
    <3>2. step[<<n + 1, f[n]>>] \in S
      BY <3>1
    <3> QED
      BY <3>2
  <2>3. Upto(n + 1, g)
    <3>1. g[0] = base
      BY <2>1 DEF Iterates
    <3>2. ASSUME NEW k \in 1 .. n + 1 PROVE g[k] = step[<<k, g[k - 1]>>]
      <4>1. k - 1 \in 0 .. n /\ k - 1 <= n /\ g[k - 1] = f[k - 1]
        OBVIOUS
      <4>2. CASE k <= n
        <5>1. k \in 1 .. n /\ g[k] = f[k]
          BY <4>2
        <5> HIDE DEF g
        <5> QED
          BY <2>1, <4>1, <5>1 DEF Iterates
      <4>3. CASE k = n + 1
        <5>1. g[k] = step[<<n + 1, f[n]>>] /\ k - 1 = n
          BY <4>3
        <5> HIDE DEF g
        <5> QED
          BY <4>1, <4>3, <5>1
      <4> QED
        BY <4>2, <4>3
    <3> QED
      BY <3>1, <3>2 DEF Iterates
  <2>4. n + 1 \in Nat
    OBVIOUS
  <2> HIDE DEF g
  <2> QED
    BY <2>2, <2>3, <2>4
<1> HIDE DEF T
<1>3. Nat \subseteq T
  BY <1>1, <1>2, SetInduction
<1> QED
  BY <1>3 DEF T

\* Two functions that start alike and go on alike are the same.
LEMMA SameIterates ==
  ASSUME NEW N \in Nat, NEW f, NEW g, f[0] = g[0], \A k \in 1 .. N : f[k - 1] = g[k - 1] => f[k] = g[k]
  PROVE  \A k \in 0 .. N : f[k] = g[k]
<1> DEFINE T == {n \in Nat : n <= N => f[n] = g[n]}
<1>1. 0 \in T
  OBVIOUS
<1>2. ASSUME NEW n \in Nat, n \in T PROVE n + 1 \in T
  <2>1. CASE n + 1 <= N
    <3>1. n + 1 \in 1 .. N /\ n + 1 - 1 = n /\ n <= N
      BY <2>1
    <3>2. f[n] = g[n]
      BY <1>2, <3>1
    <3> QED
      BY <3>1, <3>2
  <2>2. CASE ~(n + 1 <= N)
    BY <2>2
  <2> QED
    BY <2>1, <2>2
<1> HIDE DEF T
<1>3. Nat \subseteq T
  BY <1>1, <1>2, SetInduction
<1> QED
  BY <1>3 DEF T

\* In a finite set that R orders strictly and totally, the number of elements
\* before one is its rank, and every rank below the size is taken.
LEMMA Ranking ==
  ASSUME NEW S, IsFiniteSet(S), NEW R,
         \A m \in S : <<m, m>> \notin R,
         \A m, n \in S : m # n => <<m, n>> \in R \/ <<n, m>> \in R,
         \A l, m, n \in S : <<l, m>> \in R /\ <<m, n>> \in R => <<l, n>> \in R
  PROVE  LET rank(n) == Cardinality({m \in S : <<m, n>> \in R})
         IN /\ \A n \in S : rank(n) \in 0 .. Cardinality(S) - 1
            /\ \A m, n \in S : rank(m) < rank(n) <=> <<m, n>> \in R
            /\ \A k \in 0 .. Cardinality(S) - 1 : \E n \in S : rank(n) = k
<1> DEFINE rank(n) == Cardinality({m \in S : <<m, n>> \in R})
           f == [n \in S |-> rank(n)]
           N == Cardinality(S)
<1>1. N \in Nat
  BY FS_CardinalityType
<1>2. \A n \in S : rank(n) \in 0 .. N - 1
  <2> SUFFICES ASSUME NEW n \in S PROVE rank(n) \in 0 .. N - 1
    OBVIOUS
  <2> DEFINE U == {m \in S : <<m, n>> \in R}
  <2>1. U \in SUBSET S /\ n \notin U
    OBVIOUS
  <2>2. IsFiniteSet(U) /\ Cardinality(U) <= N /\ (N = Cardinality(U) => S = U)
    BY <2>1, FS_Subset
  <2>3. Cardinality(U) \in Nat
    BY <2>2, FS_CardinalityType
  <2> HIDE DEF U
  <2>4. Cardinality(U) \in 0 .. N - 1
    BY <1>1, <2>1, <2>2, <2>3
  <2> QED
    BY <2>4 DEF U
<1>3. \A m, n \in S : <<m, n>> \in R => rank(m) < rank(n)
  <2> SUFFICES ASSUME NEW m \in S, NEW n \in S, <<m, n>> \in R PROVE rank(m) < rank(n)
    OBVIOUS
  <2> DEFINE U == {x \in S : <<x, n>> \in R}
             V == {x \in S : <<x, m>> \in R}
  <2>1. V \in SUBSET U /\ m \in U /\ m \notin V /\ U \in SUBSET S
    OBVIOUS
  <2>2. IsFiniteSet(U) /\ Cardinality(U) \in Nat
    BY <2>1, FS_Subset, FS_CardinalityType
  <2>3. IsFiniteSet(V) /\ Cardinality(V) <= Cardinality(U) /\ (Cardinality(U) = Cardinality(V) => U = V)
    BY <2>1, <2>2, FS_Subset
  <2>4. Cardinality(V) \in Nat
    BY <2>3, FS_CardinalityType
  <2> HIDE DEF U, V
  <2>5. Cardinality(V) < Cardinality(U)
    BY <2>1, <2>2, <2>3, <2>4
  <2> QED
    BY <2>5 DEF U, V
<1> HIDE DEF rank
<1>4. \A m, n \in S : rank(m) < rank(n) => <<m, n>> \in R
  <2> SUFFICES ASSUME NEW m \in S, NEW n \in S, rank(m) < rank(n) PROVE <<m, n>> \in R
    OBVIOUS
  <2>1. rank(m) \in Nat /\ rank(n) \in Nat
    BY <1>1, <1>2
  <2>2. m # n
    BY <2>1
  <2>3. CASE <<n, m>> \in R
    BY <1>3, <2>1, <2>3
  <2> QED
    BY <2>2, <2>3
<1>5. f \in Injection(S, 0 .. N - 1)
  <2>1. f \in [S -> 0 .. N - 1]
    BY <1>2
  <2>2. \A m, n \in S : f[m] = f[n] => m = n
    <3> SUFFICES ASSUME NEW m \in S, NEW n \in S, rank(m) = rank(n), m # n PROVE FALSE
      OBVIOUS
    <3>1. rank(m) \in Nat
      BY <1>1, <1>2
    <3>2. rank(m) < rank(n) \/ rank(n) < rank(m)
      BY <1>3
    <3> QED
      BY <3>1, <3>2
  <2> QED
    BY <2>1, <2>2 DEF Injection, IsInjective
<1>6. IsFiniteSet(0 .. N - 1) /\ Cardinality(0 .. N - 1) = N
  <2>1. N - 1 \in Int /\ 0 \in Int
    BY <1>1
  <2>2. IsFiniteSet(0 .. N - 1) /\ Cardinality(0 .. N - 1) = IF 0 > N - 1 THEN 0 ELSE N - 1 - 0 + 1
    BY <2>1, FS_Interval
  <2> QED
    BY <1>1, <2>2
<1>7. f \in Surjection(S, 0 .. N - 1)
  BY <1>5, <1>6, FS_Injection
<1>8. \A k \in 0 .. N - 1 : \E n \in S : rank(n) = k
  BY <1>7 DEF Surjection
<1> QED
  BY <1>2, <1>3, <1>4, <1>8 DEF rank

\* The sequences of a finite set, in any order: every element once.
LEMMA SequencesOfSet ==
  ASSUME NEW S, IsFiniteSet(S), NEW s \in SetToSeqs(S)
  PROVE  /\ s \in Seq(S) /\ ToSet(s) = S /\ Len(s) = Cardinality(S)
         /\ \A i, j \in DOMAIN s : s[i] = s[j] => i = j
<1> DEFINE D == 1 .. Cardinality(S)
<1>1. Cardinality(S) \in Nat
  BY FS_CardinalityType
<1>2. s \in [D -> S] /\ \A i, j \in D : s[i] = s[j] => i = j
  BY DEF SetToSeqs, IsInjective
<1>3. s \in Injection(D, S)
  BY <1>2 DEF Injection, IsInjective
<1>4. Cardinality(D) = Cardinality(S)
  BY <1>1, FS_Interval
<1>5. s \in Surjection(D, S)
  BY <1>3, <1>4, FS_Injection
<1>6. ToSet(s) = S
  BY <1>2, <1>5 DEF Surjection, ToSet
<1>7. s \in Seq(S) /\ Len(s) = Cardinality(S)
  BY <1>1, <1>2
<1> QED
  BY <1>2, <1>6, <1>7

\* A set of naturals with a bound has a greatest element.
LEMMA GreatestElement ==
  ASSUME NEW S, NEW N \in Nat, S \subseteq 0 .. N, S # {}
  PROVE  \E n \in S : \A m \in S : m <= n
<1> DEFINE U == {n \in Nat : \A m \in S : m <= n}
<1>1. N \in U
  OBVIOUS
<1>2. U \in SUBSET Nat /\ U # {}
  BY <1>1
<1> HIDE DEF U
<1>3. PICK n \in U : \A k \in U : n <= k
  BY <1>2, LeastElement
<1>4. n \in Nat /\ \A m \in S : m <= n
  BY DEF U
<1>5. CASE n \in S
  BY <1>4, <1>5
<1>6. CASE n \notin S
  <2>1. PICK m \in S : TRUE
    OBVIOUS
  <2>2. m \in Nat /\ m <= n /\ m # n
    BY <1>4, <1>6, <2>1
  <2>3. n - 1 \in Nat
    BY <1>4, <2>2
  <2>4. ASSUME NEW k \in S PROVE k <= n - 1
    <3>1. k \in Nat /\ k <= n /\ k # n
      BY <1>4, <1>6
    <3> QED
      BY <1>4, <3>1
  <2>5. n - 1 \in U
    BY <2>3, <2>4 DEF U
  <2>6. n <= n - 1
    BY <1>3, <2>5
  <2> QED
    BY <1>4, <2>6
<1> QED
  BY <1>5, <1>6

\* A concatenation, position by position.
LEMMA ConcatAt ==
  ASSUME NEW S, NEW s \in Seq(S), NEW t \in Seq(S)
  PROVE  /\ s \o t \in Seq(S) /\ Len(s \o t) = Len(s) + Len(t)
         /\ \A n \in 1 .. Len(s) : (s \o t)[n] = s[n]
         /\ \A n \in Len(s) + 1 .. Len(s) + Len(t) : (s \o t)[n] = t[n - Len(s)]
OBVIOUS

\* A sequence without its last, position by position.
LEMMA FrontAt ==
  ASSUME NEW S, NEW s \in Seq(S), s # <<>>
  PROVE  /\ Front(s) \in Seq(S) /\ Len(Front(s)) = Len(s) - 1 /\ Len(s) \in Nat \ {0}
         /\ \A i \in 1 .. Len(s) - 1 : Front(s)[i] = s[i]
<1> DEFINE k == Len(s) - 1
<1>1. Len(s) \in Nat \ {0}
  OBVIOUS
<1>2. k \in Nat /\ k <= Len(s)
  BY <1>1
<1>3. Front(s) = SubSeq(s, 1, k)
  BY DEF Front
<1> HIDE DEF k
<1>4. SubSeq(s, 1, k) \in Seq(S)
  BY <1>2
<1>5. Len(SubSeq(s, 1, k)) = k
  BY <1>2
<1>6. \A i \in 1 .. k : SubSeq(s, 1, k)[i] = s[i]
  BY <1>2
<1> QED
  BY <1>1, <1>3, <1>4, <1>5, <1>6 DEF k

\* A sequence whose last is replaced.
LEMMA LastReplaced ==
  ASSUME NEW S, NEW s \in Seq(S), NEW x \in S
  PROVE  [s EXCEPT ![Len(s)] = x] \in Seq(S)
<1> DEFINE g == [s EXCEPT ![Len(s)] = x]
<1>1. s \in [1 .. Len(s) -> S] /\ Len(s) \in Nat
  OBVIOUS
<1>2. g = [i \in 1 .. Len(s) |-> IF i = Len(s) THEN x ELSE s[i]]
  BY <1>1
<1> DEFINE n == Len(s)
           Item(i) == IF i = n THEN x ELSE s[i]
<1>3. n \in Nat /\ \A i \in 1 .. n : Item(i) \in S
  BY <1>1
<1>4. g = [i \in 1 .. n |-> Item(i)]
  BY <1>2
<1> HIDE DEF g, n, Item
<1>5. [i \in 1 .. n |-> Item(i)] \in Seq(S)
  BY <1>3
<1> QED
  BY <1>4, <1>5 DEF g

\* FlattenSeq puts sequences over S together to one.
LEMMA FlattenFacts ==
  ASSUME NEW S, NEW ss \in Seq(Seq(S))
  PROVE  FlattenSeq(ss) \in Seq(S)
<1> DEFINE N == Len(ss)
           Eq(c) == c = [i \in 1 .. N |-> IF i = 1 THEN ss[i] ELSE c[i-1] \o ss[i]]
           c == CHOOSE c : Eq(c)
           step == [p \in Nat \X Seq(S) |-> IF p[1] \in 1 .. N THEN p[2] \o ss[p[1]] ELSE p[2]]
<1>1. N \in Nat /\ \A i \in 1 .. N : ss[i] \in Seq(S)
  OBVIOUS
<1>2. FlattenSeq(ss) = IF N = 0 THEN ss ELSE c[N]
  BY DEF FlattenSeq
<1>3. step \in [Nat \X Seq(S) -> Seq(S)]
  <2> SUFFICES ASSUME NEW p \in Nat \X Seq(S)
               PROVE  (IF p[1] \in 1 .. N THEN p[2] \o ss[p[1]] ELSE p[2]) \in Seq(S)
    OBVIOUS
  <2> QED
    BY <1>1
<1>4. <<>> \in Seq(S)
  OBVIOUS
<1> HIDE DEF N
<1>5. PICK f \in [0 .. N -> Seq(S)] : Iterates(f, <<>>, step, N)
  <2> HIDE DEF step
  <2> QED
    BY <1>1, <1>3, <1>4, Iteration
<1>6. \A k \in 1 .. N : f[k] = f[k - 1] \o ss[k]
  <2> SUFFICES ASSUME NEW k \in 1 .. N PROVE f[k] = f[k - 1] \o ss[k]
    OBVIOUS
  <2>1. k - 1 \in 0 .. N /\ <<k, f[k - 1]>> \in Nat \X Seq(S)
    BY <1>1
  <2>2. f[k] = step[<<k, f[k - 1]>>]
    BY <1>5 DEF Iterates
  <2>3. step[<<k, f[k - 1]>>] = f[k - 1] \o ss[k]
    BY <2>1
  <2> HIDE DEF step
  <2> QED
    BY <2>2, <2>3
<1> DEFINE h == [k \in 1 .. N |-> f[k]]
<1>7. Eq(h)
  <2> SUFFICES ASSUME NEW k \in 1 .. N PROVE f[k] = IF k = 1 THEN ss[k] ELSE h[k-1] \o ss[k]
    OBVIOUS
  <2>1. CASE k = 1
    <3>1. ss[1] \in Seq(S) /\ 1 - 1 = 0
      BY <1>1, <2>1
    <3>2. f[1] = f[1 - 1] \o ss[1]
      BY <1>6, <2>1
    <3>3. f[1] = <<>> \o ss[1]
      <4>1. f[0] = <<>>
        BY <1>5 DEF Iterates
      <4> HIDE DEF step
      <4> QED
        BY <3>1, <3>2, <4>1
    <3> QED
      BY <2>1, <3>1, <3>3
  <2>2. CASE k # 1
    <3>1. k - 1 \in 1 .. N
      BY <1>1, <2>2
    <3> QED
      BY <1>6, <2>2, <3>1
  <2> QED
    BY <2>1, <2>2
<1>8. Eq(c)
  <2> HIDE DEF Eq, h
  <2> QED
    BY <1>7
<1> HIDE DEF c, h
<1>a. \A i \in 1 .. N : c[i] = IF i = 1 THEN ss[i] ELSE c[i-1] \o ss[i]
  BY <1>8, Zenon
<1>9. CASE N = 0
  <2>1. ss = <<>>
    BY <1>9 DEF N
  <2> QED
    BY <1>2, <1>9, <2>1
<1>10. CASE N # 0
  <2> DEFINE T == {n \in Nat : n \in 1 .. N => c[n] \in Seq(S)}
  <2>1. 0 \in T
    OBVIOUS
  <2>2. ASSUME NEW n \in Nat, n \in T PROVE n + 1 \in T
    <3> SUFFICES ASSUME n + 1 \in 1 .. N PROVE c[n + 1] \in Seq(S)
      OBVIOUS
    <3> DEFINE m == n + 1
    <3>m. m \in 1 .. N
      OBVIOUS
    <3>0. c[m] = IF m = 1 THEN ss[m] ELSE c[m - 1] \o ss[m]
      <4> HIDE DEF m
      <4> QED
        BY <1>a, <3>m, Zenon
    <3>1. CASE n = 0
      BY <1>1, <3>0, <3>1
    <3>2. CASE n # 0
      <4>1. n \in 1 .. N /\ m - 1 = n /\ m # 1
        BY <1>1, <3>2
      <4>2. c[n] \in Seq(S) /\ ss[m] \in Seq(S)
        BY <1>1, <2>2, <3>m, <4>1
      <4>3. c[m] = c[n] \o ss[m]
        <5> HIDE DEF m
        <5> QED
          BY <3>0, <4>1
      <4> QED
        BY <4>2, <4>3
    <3> QED
      BY <3>1, <3>2
  <2> HIDE DEF T
  <2>3. Nat \subseteq T
    BY <2>1, <2>2, SetInduction
  <2>4. N \in T /\ N \in 1 .. N
    BY <1>1, <1>10, <2>3
  <2> QED
    BY <1>2, <1>10, <2>4 DEF T
<1> QED
  BY <1>9, <1>10
=============================================================================
