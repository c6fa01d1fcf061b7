-------------------------------- MODULE Induction ------------------------------
(* Induction over the numbers for sets of numbers, functions defined by iterating a *)
(* step, and least fixpoints: what proofs about data that is computed in rounds    *)
(* rest on.                                                                       *)
EXTENDS Integers, FiniteSets, WellFoundedInduction, FiniteSetTheorems, TLAPS

(* Some numbers have a least one among them.                                      *)
LEMMA LeastElement ==
  ASSUME NEW T, T \subseteq Nat, T # {}
  PROVE  \E n \in T : \A m \in T : n <= m
<1> DEFINE R == {ss \in Nat \X Nat : ss[1] < ss[2]}
<1>1. IsWellFoundedOn(R, Nat)
  BY NatLessThanWellFounded DEF OpToRel
<1>2. \E x \in T : \A y \in T : <<y, x>> \notin R
  BY ONLY <1>1, T \subseteq Nat, T # {}, WFMin
<1>3. PICK x \in T : \A y \in T : <<y, x>> \notin R
  BY <1>2
<1>4. ASSUME NEW y \in T PROVE x <= y
  <2>1. ~ (y < x)
    BY <1>3, <1>4
  <2> QED
    BY <2>1
<1> QED
  BY <1>4

(* A set with 0, and with every number the one behind it, has all of them.         *)
LEMMA SetInduction ==
  ASSUME NEW S, 0 \in S, \A n \in Nat : n \in S => n + 1 \in S
  PROVE  Nat \subseteq S
<1>1. SUFFICES ASSUME Nat \ S # {} PROVE FALSE
  OBVIOUS
<1>2. PICK n \in Nat \ S : \A m \in Nat \ S : n <= m
  BY <1>1, LeastElement
<1>3. n # 0 /\ n - 1 \in Nat
  BY <1>2
<1>4. n - 1 \in S
  BY <1>2, <1>3
<1> QED
  BY <1>2, <1>3, <1>4

(* Finitely many numbers, but some, have a greatest one among them.                *)
LEMMA GreatestElement ==
  ASSUME NEW T, T \subseteq Nat, IsFiniteSet(T), T # {}
  PROVE  \E n \in T : \A m \in T : m <= n
<1> DEFINE P == {n \in Nat : \A S \in SUBSET T : Cardinality(S) = n /\ S # {} =>
                                \E k \in S : \A m \in S : m <= k}
<1>1. \A S \in SUBSET T : IsFiniteSet(S) /\ Cardinality(S) \in Nat
  BY FS_Subset, FS_CardinalityType
<1>2. 0 \in P
  <2>1. \A S \in SUBSET T : Cardinality(S) = 0 => S = {}
    BY <1>1, FS_EmptySet
  <2> QED BY <2>1
<1>3. ASSUME NEW n \in Nat, n \in P PROVE n + 1 \in P
  <2> SUFFICES ASSUME NEW S \in SUBSET T, Cardinality(S) = n + 1, S # {}
               PROVE  \E k \in S : \A m \in S : m <= k
    OBVIOUS
  <2>1. PICK x : x \in S
    OBVIOUS
  <2> DEFINE R == S \ {x}
  <2>2. Cardinality(R) = n
    <3>1. Cardinality(R) = Cardinality(S) - 1
      BY <1>1, <2>1, FS_RemoveElement
    <3> QED BY <3>1
  <2>3. CASE R = {}
    BY <2>1, <2>3
  <2>4. CASE R # {}
    <3>1. PICK k \in R : \A m \in R : m <= k
      BY <1>3, <2>2, <2>4
    <3>2. CASE x <= k
      BY <2>1, <3>1, <3>2
    <3>3. CASE ~ (x <= k)
      <4>1. \A m \in S : m <= x
        BY <2>1, <3>1, <3>3
      <4> QED BY <2>1, <4>1
    <3> QED BY <3>2, <3>3
  <2> QED BY <2>3, <2>4
<1>4. Nat \subseteq P
  <2> HIDE DEF P
  <2> QED BY <1>2, <1>3, SetInduction
<1>5. Cardinality(T) \in P
  BY <1>1, <1>4
<1> QED BY <1>5

(* A function on the numbers is defined by its value at 0 and a step.             *)
Iterated(f, s, F) == f[0] = s /\ \A n \in Nat : f[n + 1] = F[f[n]]

(* There is such a function, for every step.                                       *)
LEMMA Iterates ==
  ASSUME NEW S, NEW F \in [S -> S], NEW s \in S
  PROVE  \E f \in [Nat -> S] : Iterated(f, s, F)
<1> DEFINE Begins(g, n) == g[0] = s /\ \A i \in 1 .. n : g[i] = F[g[i - 1]]
           Have == {n \in Nat : \E g \in [Nat -> S] : Begins(g, n)}
           g(n) == CHOOSE h \in [Nat -> S] : Begins(h, n)
           f == [n \in Nat |-> g(n)[n]]
<1>1. 0 \in Have
  <2>1. [n \in Nat |-> s] \in [Nat -> S] /\ Begins([n \in Nat |-> s], 0)
    OBVIOUS
  <2> QED
    BY <2>1
<1>2. ASSUME NEW n \in Nat, n \in Have PROVE n + 1 \in Have
  <2>1. PICK h \in [Nat -> S] : Begins(h, n)
    BY <1>2
  <2> DEFINE k == [h EXCEPT ![n + 1] = F[h[n]]]
  <2>2. k \in [Nat -> S]
    OBVIOUS
  <2>3. k[0] = s
    BY <2>1
  <2>4. ASSUME NEW i \in 1 .. n + 1 PROVE k[i] = F[k[i - 1]]
    <3>1. CASE i = n + 1
      BY <3>1
    <3>2. CASE i \in 1 .. n
      BY <2>1, <3>2
    <3> QED
      BY <3>1, <3>2
  <2> HIDE DEF k
  <2>5. Begins(k, n + 1)
    BY <2>3, <2>4
  <2> QED
    BY <2>2, <2>5
<1>3. Nat \subseteq Have
  <2> HIDE DEF Have
  <2> QED
    BY <1>1, <1>2, SetInduction
<1>4. ASSUME NEW n \in Nat PROVE g(n) \in [Nat -> S] /\ Begins(g(n), n)
  BY <1>3
<1> HIDE DEF g
<1>5. ASSUME NEW m \in Nat, NEW n \in Nat, m <= n PROVE g(m)[m] = g(n)[m]
  <2> DEFINE Same == {i \in Nat : i <= m => g(m)[i] = g(n)[i]}
  <2>1. 0 \in Same
    BY <1>4
  <2>2. ASSUME NEW i \in Nat, i \in Same PROVE i + 1 \in Same
    <3>1. CASE i + 1 <= m
      <4>1. i + 1 \in 1 .. m /\ i + 1 \in 1 .. n
        BY <1>5, <3>1
      <4>2. g(m)[i + 1] = F[g(m)[i]] /\ g(n)[i + 1] = F[g(n)[i]]
        BY <1>4, <4>1
      <4> QED
        BY <2>2, <3>1, <4>2
    <3> QED
      BY <3>1
  <2>3. Nat \subseteq Same
    <3> HIDE DEF Same
    <3> QED
      BY <2>1, <2>2, SetInduction
  <2> QED
    BY <2>3
<1>6. f \in [Nat -> S]
  BY <1>4
<1>7. ASSUME NEW n \in Nat PROVE f[n] = IF n = 0 THEN s ELSE F[f[n - 1]]
  <2>1. CASE n = 0
    BY <1>4, <2>1
  <2>2. CASE n # 0
    <3>1. n - 1 \in Nat /\ n \in 1 .. n
      BY <2>2
    <3>2. g(n)[n] = F[g(n)[n - 1]]
      BY <1>4, <3>1
    <3>3. g(n - 1)[n - 1] = g(n)[n - 1]
      BY <1>5, <3>1
    <3> QED
      BY <2>2, <3>1, <3>2, <3>3
  <2> QED
    BY <2>1, <2>2
<1> HIDE DEF f
<1>8. ASSUME NEW n \in Nat PROVE f[n + 1] = F[f[n]]
  <2>1. n + 1 \in Nat /\ n + 1 # 0 /\ (n + 1) - 1 = n
    OBVIOUS
  <2> QED
    BY <1>7, <2>1
<1> QED
  BY <1>6, <1>7, <1>8 DEF Iterated

(* Sets that are computed in rounds from none, each from the last by a monotone    *)
(* step, are after as many rounds as there are elements the least set that the    *)
(* step leaves alone.                                                             *)
LEMMA LeastFixpoint ==
  ASSUME NEW U, IsFiniteSet(U), NEW F \in [SUBSET U -> SUBSET U],
         \A G, H \in SUBSET U : G \subseteq H => F[G] \subseteq F[H],
         NEW f \in [Nat -> SUBSET U],
         Iterated(f, {}, F)
  PROVE  LET D == f[Cardinality(U)]
         IN  F[D] = D /\ \A G \in SUBSET U : F[G] \subseteq G => D \subseteq G
<1>1. f[0] = {} /\ \A n \in Nat : f[n + 1] = F[f[n]]
  BY DEF Iterated
<1>2. \A n \in Nat : f[n] \in SUBSET U /\ IsFiniteSet(f[n]) /\ Cardinality(f[n]) \in Nat
  <2>1. \A n \in Nat : f[n] \in SUBSET U
    OBVIOUS
  <2> QED
    BY <2>1, FS_Subset, FS_CardinalityType
<1>3. ASSUME NEW n \in Nat PROVE f[n] \subseteq f[n + 1]
  <2> DEFINE Grows == {i \in Nat : f[i] \subseteq f[i + 1]}
  <2>1. 0 \in Grows
    BY <1>1
  <2>2. ASSUME NEW i \in Nat, i \in Grows PROVE i + 1 \in Grows
    <3>1. i + 1 \in Nat
      OBVIOUS
    <3>2. f[i] \subseteq f[i + 1]
      BY ONLY <2>2 DEF Grows
    <3>3. f[i] \in SUBSET U /\ f[i + 1] \in SUBSET U
      BY <1>2, <3>1
    <3>4. F[f[i]] \subseteq F[f[i + 1]]
      BY <3>2, <3>3
    <3> QED
      BY <1>1, <3>1, <3>4
  <2> QED
    <3> HIDE DEF Grows
    <3>1. Nat \subseteq Grows
      BY <2>1, <2>2, SetInduction
    <3> QED
      BY <3>1 DEF Grows
<1>4. ASSUME NEW n \in Nat PROVE f[n] = f[n + 1] \/ Cardinality(f[n + 1]) >= n + 1
  <2> DEFINE Large == {i \in Nat : f[i] = f[i + 1] \/ Cardinality(f[i + 1]) >= i + 1}
  <2>1. ASSUME NEW i \in Nat, f[i] # f[i + 1] PROVE Cardinality(f[i]) < Cardinality(f[i + 1])
    <3>1. i + 1 \in Nat /\ IsFiniteSet(f[i + 1]) /\ f[i] \in SUBSET f[i + 1]
      BY <1>2, <1>3
    <3>2. Cardinality(f[i]) <= Cardinality(f[i + 1])
          /\ (Cardinality(f[i]) = Cardinality(f[i + 1]) => f[i] = f[i + 1])
      BY <3>1, FS_Subset
    <3>3. Cardinality(f[i]) # Cardinality(f[i + 1])
      BY <2>1, <3>2
    <3>4. Cardinality(f[i]) \in Nat /\ Cardinality(f[i + 1]) \in Nat
      BY <1>2, <3>1
    <3>5. \A k, l \in Nat : k <= l /\ k # l => k < l
      OBVIOUS
    <3> QED
      BY ONLY <3>2, <3>3, <3>4, <3>5
  <2>2. 0 \in Large
    <3>1. CASE f[0] # f[0 + 1]
      BY <1>1, <1>2, <2>1, <3>1
    <3> QED
      BY <3>1
  <2>3. ASSUME NEW i \in Nat, i \in Large PROVE i + 1 \in Large
    <3>1. i + 1 \in Nat /\ i + 1 + 1 \in Nat
      OBVIOUS
    <3>2. CASE f[i] = f[i + 1]
      <4>1. f[i + 1] = f[i + 1 + 1]
        BY <1>1, <3>1, <3>2
      <4> QED
        BY <3>1, <4>1
    <3>3. CASE f[i] # f[i + 1]
      <4>1. CASE f[i + 1] # f[i + 1 + 1]
        <5>1. Cardinality(f[i + 1]) < Cardinality(f[i + 1 + 1])
          BY <2>1, <3>1, <4>1
        <5>2. Cardinality(f[i + 1]) >= i + 1
          BY <2>3, <3>3
        <5> QED
          BY <1>2, <3>1, <5>1, <5>2
      <4> QED
        BY <3>1, <4>1
    <3> QED
      BY <3>2, <3>3
  <2> QED
    <3> HIDE DEF Large
    <3>1. Nat \subseteq Large
      BY <2>2, <2>3, SetInduction
    <3> QED
      BY <3>1 DEF Large
<1> DEFINE N == Cardinality(U)
<1>5. N \in Nat
  BY FS_CardinalityType
<1> HIDE DEF N
<1>6. F[f[N]] = f[N]
  <2>1. f[N + 1] \in SUBSET U /\ N + 1 \in Nat
    BY <1>2, <1>5
  <2>2. Cardinality(f[N + 1]) <= N
    BY <2>1, FS_Subset DEF N
  <2>3. Cardinality(f[N + 1]) \in Nat
    BY <1>2, <2>1
  <2>4. f[N] = f[N + 1]
    BY <1>4, <1>5, <2>2, <2>3
  <2> QED
    BY <1>1, <1>5, <2>4
<1>7. ASSUME NEW G \in SUBSET U, F[G] \subseteq G PROVE f[N] \subseteq G
  <2> DEFINE Within == {i \in Nat : f[i] \subseteq G}
  <2>1. 0 \in Within
    BY <1>1
  <2>2. ASSUME NEW i \in Nat, i \in Within PROVE i + 1 \in Within
    <3>1. F[f[i]] \subseteq F[G]
      BY <1>2, <2>2
    <3> QED
      BY <1>1, <1>7, <3>1
  <2>3. Nat \subseteq Within
    <3> HIDE DEF Within
    <3> QED
      BY <2>1, <2>2, SetInduction
  <2> QED
    BY <1>5, <2>3
<1> QED
  BY <1>6, <1>7 DEF N

(* A function on the numbers up to n is defined by its value at 0 and n steps.     *)
Steps(f, n, s, G) == f[0] = s /\ \A k \in 1 .. n : f[k] = G[k][f[k - 1]]

LEMMA Recursion ==
  ASSUME NEW S, NEW n \in Nat, NEW s \in S, NEW G \in [1 .. n -> [S -> S]]
  PROVE  \E f \in [0 .. n -> S] : Steps(f, n, s, G)
<1> DEFINE T == Nat \X S
           F == [p \in T |-> <<p[1] + 1, IF p[1] + 1 \in 1 .. n THEN G[p[1] + 1][p[2]] ELSE p[2]>>]
<1>1. F \in [T -> T] /\ <<0, s>> \in T
  <2>1. ASSUME NEW p \in T PROVE F[p] \in T
    <3>1. CASE p[1] + 1 \in 1 .. n
      BY <3>1
    <3>2. CASE p[1] + 1 \notin 1 .. n
      BY <3>2
    <3> QED BY <3>1, <3>2
  <2> QED BY <2>1
<1>2. \A p \in T : /\ F[p][1] = p[1] + 1
                   /\ p[1] + 1 \in 1 .. n => F[p][2] = G[p[1] + 1][p[2]]
  OBVIOUS
<1>3. PICK h \in [Nat -> T] : Iterated(h, <<0, s>>, F)
  <2> HIDE DEF F, T
  <2> QED BY <1>1, Iterates
<1>4. \A k \in Nat : h[k + 1] = F[h[k]] /\ h[k] \in T
  BY <1>3 DEF Iterated
<1> DEFINE P == {k \in Nat : h[k][1] = k}
<1>5. Nat \subseteq P
  <2>1. 0 \in P
    BY <1>3 DEF Iterated
  <2>2. ASSUME NEW k \in Nat, k \in P PROVE k + 1 \in P
    <3>1. h[k][1] = k /\ h[k] \in T /\ h[k + 1] = F[h[k]]
      BY <1>4, <2>2
    <3>2. F[h[k]][1] = h[k][1] + 1
      <4> HIDE DEF F, T
      <4> QED BY <1>2, <3>1
    <3>3. h[k + 1][1] = k + 1
      BY <3>1, <3>2
    <3> QED BY <3>3
  <2> HIDE DEF P
  <2> QED BY <2>1, <2>2, SetInduction
<1> DEFINE f == [k \in 0 .. n |-> h[k][2]]
<1>6. f \in [0 .. n -> S]
  BY <1>4
<1>7. f[0] = s
  BY <1>3 DEF Iterated
<1>8. ASSUME NEW k \in 1 .. n PROVE f[k] = G[k][f[k - 1]]
  <2>1. k - 1 \in Nat /\ (k - 1) + 1 = k /\ k - 1 \in 0 .. n
    OBVIOUS
  <2>2. h[k] = F[h[k - 1]] /\ h[k - 1] \in T
    BY <1>4, <2>1
  <2>3. h[k - 1][1] = k - 1
    BY <1>5, <2>1
  <2>4. F[h[k - 1]][2] = G[k][h[k - 1][2]]
    <3> HIDE DEF F, T
    <3> QED BY <1>2, <2>1, <2>2, <2>3
  <2> QED BY <2>1, <2>2, <2>4
<1> QED BY <1>6, <1>7, <1>8 DEF Steps
=============================================================================
