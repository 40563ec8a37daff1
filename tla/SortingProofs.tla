---------------------------- MODULE SortingProofs ----------------------------
(* What sorting returns, for every finite set and every strict total order, *)
(* and the induction that the proofs about loops rest on.                   *)
EXTENDS Sorting, FiniteSetTheorems, WellFoundedInduction, TLAPS

\* A strict total order arranges a finite set in exactly its number of places:
\* the place of an element is the number of those below it, plus one.
LEMMA SortedFacts ==
  ASSUME NEW S, IsFiniteSet(S), NEW R,
         \A x \in S : <<x, x>> \notin R,
         \A x, y \in S : x # y => <<x, y>> \in R \/ <<y, x>> \in R,
         \A x, y, z \in S : <<x, y>> \in R /\ <<y, z>> \in R => <<x, z>> \in R
  PROVE  /\ Sorted(S, R) \in [1..Cardinality(S) -> S]
         /\ Cardinality(S) \in Nat
         /\ \A i, j \in 1..Cardinality(S) : i < j => <<Sorted(S, R)[i], Sorted(S, R)[j]>> \in R
         /\ \A i, j \in 1..Cardinality(S) : Sorted(S, R)[i] = Sorted(S, R)[j] => i = j
         /\ ToSet(Sorted(S, R)) = S
<1> DEFINE n        == Cardinality(S)
           Below(x) == {y \in S : <<y, x>> \in R}
           rank     == [x \in S |-> Cardinality(Below(x)) + 1]
           Order(s) == \A i, j \in DOMAIN s : i < j => <<s[i], s[j]>> \in R
<1>1. n \in Nat
  BY FS_CardinalityType
<1>2. \A x \in S : IsFiniteSet(Below(x)) /\ Cardinality(Below(x)) \in Nat
  BY FS_Subset, FS_CardinalityType
<1>3. ASSUME NEW x \in S  PROVE rank[x] \in 1..n
  <2>1. Below(x) \in SUBSET (S \ {x})
    OBVIOUS
  <2>2. IsFiniteSet(S \ {x}) /\ Cardinality(S \ {x}) = n - 1
    BY FS_RemoveElement
  <2>3. \A T \in SUBSET (S \ {x}) : Cardinality(T) <= Cardinality(S \ {x})
    BY <2>2, FS_Subset
  <2>4. Cardinality(Below(x)) <= n - 1
    BY <2>1, <2>2, <2>3
  <2> QED  BY <1>1, <1>2, <2>4
<1>4. ASSUME NEW x \in S, NEW y \in S, <<x, y>> \in R  PROVE rank[x] < rank[y]
  <2>1. Below(x) \cup {x} \in SUBSET Below(y) /\ x \notin Below(x)
    BY <1>4
  <2>2. Cardinality(Below(x) \cup {x}) = Cardinality(Below(x)) + 1
    BY <1>2, <2>1, FS_AddElement
  <2>3. Cardinality(Below(x) \cup {x}) <= Cardinality(Below(y))
    BY <1>2, <2>1, FS_Subset
  <2> QED  BY <1>2, <2>2, <2>3
<1> HIDE DEF rank
<1>5. rank \in Injection(S, 1..n)
  <2>1. rank \in [S -> 1..n]
    BY <1>3 DEF rank
  <2>2. ASSUME NEW x \in S, NEW y \in S, rank[x] = rank[y]  PROVE x = y
    <3>1. rank[x] \in Nat /\ rank[y] \in Nat
      BY <1>1, <1>3
    <3>2. <<x, y>> \notin R /\ <<y, x>> \notin R
      BY <1>4, <2>2, <3>1
    <3> QED  BY <3>2
  <2> QED  BY <2>1, <2>2 DEF Injection, IsInjective
<1>6. IsFiniteSet(1..n) /\ Cardinality(1..n) = n
  BY <1>1, FS_Interval
<1>7. rank \in Surjection(S, 1..n)
  BY <1>5, <1>6, FS_Injection
<1>8. \E s \in SetToSeqs(S) : Order(s)
  <2> DEFINE s == [k \in 1..n |-> CHOOSE x \in S : rank[x] = k]
  <2>1. \A k \in 1..n : s[k] \in S /\ rank[s[k]] = k
    BY <1>7 DEF Surjection
  <2>2. s \in [1..n -> S]
    BY <2>1
  <2> HIDE DEF s
  <2>3. \A i, j \in 1..n : i # j => s[i] # s[j]
    BY <2>1
  <2>4. Order(s)
    <3> SUFFICES ASSUME NEW i \in 1..n, NEW j \in 1..n, i < j  PROVE <<s[i], s[j]>> \in R
      BY <2>2
    <3>1. s[i] \in S /\ s[j] \in S /\ s[i] # s[j] /\ rank[s[i]] = i /\ rank[s[j]] = j
      BY <2>1, <2>3
    <3>2. <<s[j], s[i]>> \notin R
      BY <1>4, <3>1
    <3> QED  BY <3>1, <3>2
  <2> QED  BY <2>2, <2>3, <2>4 DEF SetToSeqs
<1> DEFINE t == Sorted(S, R)
<1>9. t \in SetToSeqs(S) /\ Order(t)
  BY <1>8 DEF Sorted
<1> HIDE DEF t
<1>10. t \in [1..n -> S] /\ \A i, j \in 1..n : i # j => t[i] # t[j]
  BY <1>9 DEF SetToSeqs
<1>11. t \in Injection(1..n, S)
  BY <1>10 DEF Injection, IsInjective
<1>12. t \in Surjection(1..n, S)
  BY <1>6, <1>11, FS_Injection
<1>13. ToSet(t) = S
  BY <1>10, <1>12 DEF ToSet, Surjection
<1> QED  BY <1>1, <1>9, <1>10, <1>13 DEF t

LEMMA AscendingFacts ==
  ASSUME NEW S \in SUBSET Nat, IsFiniteSet(S)
  PROVE  /\ Ascending(S) \in Seq(S) /\ Len(Ascending(S)) = Cardinality(S)
         /\ \A i, j \in 1..Cardinality(S) : i < j => Ascending(S)[i] < Ascending(S)[j]
         /\ ToSet(Ascending(S)) = S
<1> DEFINE R == {r \in S \X S : r[1] < r[2]}
<1>1. \A x, y \in S : <<x, y>> \in R <=> x < y
  OBVIOUS
<1>2. Ascending(S) = Sorted(S, R)
  BY DEF Ascending
<1> HIDE DEF R
<1>3. /\ Sorted(S, R) \in [1..Cardinality(S) -> S] /\ Cardinality(S) \in Nat
      /\ \A i, j \in 1..Cardinality(S) : i < j => <<Sorted(S, R)[i], Sorted(S, R)[j]>> \in R
      /\ ToSet(Sorted(S, R)) = S
  <2>1. \A x \in S : <<x, x>> \notin R
    BY <1>1
  <2>2. \A x, y \in S : x # y => <<x, y>> \in R \/ <<y, x>> \in R
    BY <1>1
  <2>3. \A x, y, z \in S : <<x, y>> \in R /\ <<y, z>> \in R => <<x, z>> \in R
    BY <1>1
  <2> QED  BY <2>1, <2>2, <2>3, SortedFacts
<1> DEFINE t == Sorted(S, R)
<1> HIDE DEF t
<1>4. /\ t \in [1..Cardinality(S) -> S] /\ Cardinality(S) \in Nat
      /\ \A i, j \in 1..Cardinality(S) : i < j => <<t[i], t[j]>> \in R
      /\ ToSet(t) = S
  BY <1>3 DEF t
<1>5. t \in Seq(S) /\ Len(t) = Cardinality(S)
  BY <1>4
<1>6. \A i, j \in 1..Cardinality(S) : i < j => t[i] < t[j]
  BY <1>1, <1>4
<1> QED  BY <1>2, <1>4, <1>5, <1>6 DEF t

Places(t, i) == {t[j] : j \in 1..i}

LEMMA FirstPlaces ==
  ASSUME NEW t, NEW n \in Nat,
         \A i, j \in 1..n : t[i] = t[j] => i = j, NEW i \in 0..n
  PROVE  Cardinality(Places(t, i)) = i
<1> DEFINE u == [j \in 1..i |-> t[j]]
           T == Places(t, i)
<1>1. u \in [1..i -> T] /\ \A j, k \in 1..i : u[j] = u[k] => j = k
  BY DEF Places
<1>2. \A x \in T : \E j \in 1..i : u[j] = x
  BY DEF Places
<1> HIDE DEF u, T
<1>3. u \in Bijection(1..i, T)
  BY <1>1, <1>2 DEF Bijection, Injection, Surjection, IsInjective
<1>4. ExistsBijection(1..i, T)
  BY <1>3 DEF ExistsBijection
<1>5. Cardinality(T) = i
  BY <1>4, FS_CountingElements
<1> QED  BY <1>5 DEF T

\* Those with fewer than k below them are the first k, if there are more than k.
LEMMA FirstK ==
  ASSUME NEW S, IsFiniteSet(S), NEW R,
         \A x \in S : <<x, x>> \notin R,
         \A x, y \in S : x # y => <<x, y>> \in R \/ <<y, x>> \in R,
         \A x, y, z \in S : <<x, y>> \in R /\ <<y, z>> \in R => <<x, z>> \in R,
         NEW k \in Nat, NEW x \in S, x \notin Lowest(S, R, k)
  PROVE  Cardinality(Lowest(S, R, k)) = k /\ \A y \in Lowest(S, R, k) : <<y, x>> \in R
<1>0. PICK F : F = Lowest(S, R, k)
  OBVIOUS
<1> DEFINE s == Sorted(S, R)
           n == Cardinality(S)
           Below(y) == {z \in S : <<z, y>> \in R}
<1>1. /\ s \in [1..n -> S] /\ n \in Nat /\ ToSet(s) = S
      /\ \A i, j \in 1..n : i < j => <<s[i], s[j]>> \in R
      /\ \A i, j \in 1..n : s[i] = s[j] => i = j
  BY SortedFacts
<1> HIDE DEF s, n
<1>2. \A y \in S : \E i \in 1..n : y = s[i]
  BY <1>1 DEF ToSet
<1>3. ASSUME NEW i \in 1..n  PROVE Cardinality(Below(s[i])) = i - 1
  <2>1. \A j \in 1..n : <<s[j], s[i]>> \in R <=> j < i
    <3> SUFFICES ASSUME NEW j \in 1..n  PROVE <<s[j], s[i]>> \in R <=> j < i
      OBVIOUS
    <3>1. s[i] \in S /\ s[j] \in S
      BY <1>1
    <3>2. CASE j < i
      BY <1>1, <3>2
    <3>3. CASE j = i
      BY <3>1, <3>3
    <3>4. CASE i < j
      <4>1. <<s[i], s[j]>> \in R
        BY <1>1, <3>4
      <4>2. <<s[j], s[i]>> \notin R
        BY <3>1, <4>1
      <4> QED  BY <3>4, <4>2
    <3> QED  BY <3>2, <3>3, <3>4
  <2>2. Below(s[i]) = Places(s, i - 1)
    <3>1. \A y \in Below(s[i]) : \E j \in 1..(i-1) : y = s[j]
      <4> SUFFICES ASSUME NEW y \in Below(s[i])  PROVE \E j \in 1..(i-1) : y = s[j]
        OBVIOUS
      <4>1. PICK j \in 1..n : y = s[j]
        BY <1>2
      <4>2. j < i
        BY <2>1, <4>1
      <4> QED  BY <1>1, <4>1, <4>2
    <3>2. \A j \in 1..(i-1) : s[j] \in Below(s[i])
      <4> SUFFICES ASSUME NEW j \in 1..(i-1)  PROVE s[j] \in Below(s[i])
        OBVIOUS
      <4>1. j \in 1..n /\ j < i
        BY <1>1
      <4> QED  BY <1>1, <2>1, <4>1
    <3> HIDE DEF Below
    <3> QED  BY <3>1, <3>2 DEF Places
  <2>3. i - 1 \in 0..n
    BY <1>1
  <2>4. PICK h \in 0..n : h = i - 1
    BY <2>3
  <2>5. Cardinality(Places(s, h)) = h
    BY <1>1, FirstPlaces
  <2> QED  BY <2>2, <2>4, <2>5
<1>4. \A y \in S : y \in F <=> Cardinality(Below(y)) < k
  BY <1>0 DEF Lowest
<1> HIDE DEF Below
<1>5. PICK m \in 1..n : x = s[m]
  BY <1>2
<1>6. k < m
  BY <1>0, <1>3, <1>4, <1>5
<1>7. F = Places(s, k)
  <2>1. \A j \in 1..n : s[j] \in F <=> j \in 1..k
    <3> SUFFICES ASSUME NEW j \in 1..n  PROVE s[j] \in F <=> j \in 1..k
      OBVIOUS
    <3>1. s[j] \in S
      BY <1>1
    <3>2. s[j] \in F <=> j - 1 < k
      BY <1>3, <1>4, <3>1
    <3> QED  BY <3>2
  <2>2. \A y \in F : y \in S
    BY <1>0 DEF Lowest
  <2>3. \A j \in 1..k : j \in 1..n
    BY <1>1, <1>6
  <2>4. \A y \in F : \E j \in 1..k : y = s[j]
    BY <1>2, <2>1, <2>2
  <2>5. \A j \in 1..k : s[j] \in F
    BY <2>1, <2>3
  <2>6. \A y : y \in Places(s, k) <=> \E j \in 1..k : y = s[j]
    BY DEF Places
  <2>7. ASSUME NEW y \in F  PROVE y \in Places(s, k)
    <3>1. \E j \in 1..k : y = s[j]
      BY <2>4
    <3> QED  BY <2>6, <3>1
  <2>8. ASSUME NEW y \in Places(s, k)  PROVE y \in F
    <3>1. PICK j \in 1..k : y = s[j]
      BY <2>6
    <3> QED  BY <2>5, <3>1
  <2> QED  BY <2>7, <2>8
<1>8. Cardinality(F) = k
  <2>1. k \in 0..n
    BY <1>1, <1>6
  <2>2. PICK h \in 0..n : h = k
    BY <2>1
  <2>3. Cardinality(Places(s, h)) = h
    BY <1>1, FirstPlaces
  <2> QED  BY <1>7, <2>2, <2>3
<1>9. \A y \in F : <<y, x>> \in R
  <2> SUFFICES ASSUME NEW y \in F  PROVE <<y, x>> \in R
    OBVIOUS
  <2>1. PICK j \in 1..k : y = s[j]
    BY <1>7 DEF Places
  <2>2. j \in 1..n /\ j < m
    BY <1>1, <1>6
  <2> QED  BY <1>1, <1>5, <2>1, <2>2
<1> QED  BY <1>0, <1>8, <1>9

-----------------------------------------------------------------------------
\* Induction on the steps of a loop, from the least step that fails.
LEMMA FirstFailure ==
  ASSUME NEW n \in Nat, NEW T \in SUBSET (0..n), 0 \notin T,
         \A k \in 1..n : k - 1 \notin T => k \notin T
  PROVE  T = {}
<1> SUFFICES ASSUME T # {}  PROVE FALSE
  OBVIOUS
<1>1. PICK m \in T : \A k \in T : ~(<<k, m>> \in OpToRel(<, Nat))
  <2>1. T \subseteq Nat
    OBVIOUS
  <2> QED  BY <2>1, NatLessThanWellFounded, WFMin
<1>2. m \in 1..n /\ m - 1 \in Nat /\ m - 1 < m
  OBVIOUS
<1>3. \A k \in T : ~(k < m)
  <2>1. \A k \in T : k \in Nat
    OBVIOUS
  <2> QED  BY <1>1, <2>1 DEF OpToRel
<1> QED  BY <1>2, <1>3
=============================================================================
