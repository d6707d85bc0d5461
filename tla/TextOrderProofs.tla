--------------------------- MODULE TextOrderProofs ---------------------------
(* That the order of texts is a strict total order, and that sorting keeps *)
(* every text as often as it was there and forgets everything else.        *)
(*                                                                         *)
(* The induction theorems of the library take a predicate as a parameter;  *)
(* LeastNat is induction without one: the least counterexample is named.   *)
EXTENDS TextOrder, SequencesExt, SequenceTheorems, FiniteSetTheorems, TLAPS

\* A set of natural numbers has a least element.
LEMMA LeastNat ==
  ASSUME NEW T \in SUBSET Nat, T # {}
  PROVE  \E n \in T : \A m \in T : n <= m
<1> DEFINE F == {0..n : n \in T}
           R == StrictSubsetOrdering(Nat)
<1>1. F \subseteq FiniteSubsetsOf(Nat)
  <2>1. \A n \in T : IsFiniteSet(0..n) /\ 0..n \in SUBSET Nat
    BY FS_Interval
  <2> QED
    BY <2>1 DEF FiniteSubsetsOf
<1>2. IsWellFoundedOn(R, FiniteSubsetsOf(Nat))
  BY FS_StrictSubsetOrderingWellFounded
<1>3. F # {}
  OBVIOUS
<1> HIDE DEF F, R
<1>4. PICK x \in F : \A y \in F : ~ (<<y, x>> \in R)
  BY <1>1, <1>2, <1>3, WFMin
<1> USE DEF F, R
<1>5. PICK n \in T : x = 0..n
  OBVIOUS
<1>6. ASSUME NEW m \in T PROVE n <= m
  <2>1. <<0..m, 0..n>> \notin R /\ m \in Nat /\ n \in Nat
    BY <1>4, <1>5
  <2> SUFFICES ASSUME m < n PROVE FALSE
    BY <2>1
  <2>2. 0..m \subseteq 0..n /\ n \in 0..n /\ n \notin 0..m
    BY <2>1
  <2> QED
    BY <2>1, <2>2 DEF StrictSubsetOrdering
<1> QED
  BY <1>6

\* Of the places of a list in a set one is the first of all places, or the
\* place before it is not in the set.
LEMMA LeastPlace ==
  ASSUME NEW n \in Nat, NEW B \in SUBSET (1..n), B # {}
  PROVE  \E i \in B : i = 1 \/ (i - 1 \in 1..n /\ i - 1 \notin B)
<1>1. B \in SUBSET Nat
  OBVIOUS
<1>2. PICK i \in B : \A m \in B : i <= m
  BY <1>1, LeastNat
<1>3. i \in 1..n /\ i - 1 \notin B
  BY <1>2
<1> QED
  BY <1>3

-----------------------------------------------------------------------------
(* The order.                                                              *)

\* No text comes before itself.
LEMMA LessIrreflexive == \A s \in Seq(Nat) : ~Less(s, s)
<1> SUFFICES ASSUME NEW s \in Seq(Nat), NEW i \in 1..Len(s), s[i] < s[i] PROVE FALSE
  BY DEF Less
<1> QED
  OBVIOUS

\* What comes before a text comes before those behind it.
LEMMA LessTransitive ==
  ASSUME NEW s \in Seq(Nat), NEW t \in Seq(Nat), NEW u \in Seq(Nat), Less(s, t), Less(t, u)
  PROVE  Less(s, u)
<1>1. PICK i \in 1..Len(t) : /\ i - 1 <= Len(s)
                             /\ \A j \in 1..i - 1 : s[j] = t[j]
                             /\ i <= Len(s) => s[i] < t[i]
  BY DEF Less
<1>2. PICK k \in 1..Len(u) : /\ k - 1 <= Len(t)
                             /\ \A j \in 1..k - 1 : t[j] = u[j]
                             /\ k <= Len(t) => t[k] < u[k]
  BY DEF Less
<1>3. \A j \in 1..Len(s) : s[j] \in Nat
  OBVIOUS
<1>4. \A j \in 1..Len(t) : t[j] \in Nat
  OBVIOUS
<1>5. \A j \in 1..Len(u) : u[j] \in Nat
  OBVIOUS
<1>6. CASE i < k
  <2>1. /\ i \in 1..Len(u) /\ i - 1 <= Len(s)
        /\ \A j \in 1..i - 1 : s[j] = u[j]
        /\ i <= Len(s) => s[i] < u[i]
    BY <1>1, <1>2, <1>6, SMTT(30)
  <2> QED
    BY <2>1 DEF Less
<1>7. CASE k <= i
  <2>1. k - 1 <= Len(s) /\ \A j \in 1..k - 1 : s[j] = u[j]
    BY <1>1, <1>2, <1>7, SMTT(30)
  <2>2. ASSUME k <= Len(s) PROVE s[k] < u[k]
    <3>1. k \in 1..Len(s) /\ k \in 1..Len(t) /\ k \in 1..Len(u)
      BY <1>7, <2>2
    <3>2. s[k] \in Nat /\ t[k] \in Nat /\ u[k] \in Nat
      BY <1>3, <1>4, <1>5, <3>1
    <3>3. t[k] < u[k]
      BY <1>2, <3>1
    <3>4. CASE k < i
      <4>1. s[k] = t[k]
        BY <1>1, <3>1, <3>4
      <4> QED  BY <3>3, <4>1
    <3>5. CASE k = i
      <4>1. s[k] < t[k]
        BY <1>1, <2>2, <3>5
      <4> QED  BY <3>2, <3>3, <4>1
    <3> QED  BY <1>7, <3>4, <3>5
  <2> QED
    BY <2>1, <2>2 DEF Less
<1> QED
  BY <1>6, <1>7

\* Of two texts one comes before the other.
LEMMA LessTotal ==
  ASSUME NEW s \in Seq(Nat), NEW t \in Seq(Nat), s # t
  PROVE  Less(s, t) \/ Less(t, s)
<1> DEFINE D == {i \in Nat : i >= 1 /\ (i = Len(s) + 1 \/ i = Len(t) + 1
                                        \/ (i <= Len(s) /\ i <= Len(t) /\ s[i] # t[i]))}
<1>1. Len(s) \in Nat /\ Len(t) \in Nat
  OBVIOUS
<1>2. D \in SUBSET Nat /\ Len(s) + 1 \in D /\ Len(t) + 1 \in D
  BY <1>1
<1>3. PICK i \in D : \A m \in D : i <= m
  <2> HIDE DEF D
  <2> QED
    BY <1>2, LeastNat
<1>4. i \in Nat /\ i >= 1 /\ i <= Len(s) + 1 /\ i <= Len(t) + 1
  BY <1>2, <1>3
<1>5. ASSUME NEW j \in 1..i - 1 PROVE s[j] = t[j]
  <2>1. j \in Nat /\ j >= 1 /\ j <= Len(s) /\ j <= Len(t) /\ ~(i <= j)
    BY <1>1, <1>4
  <2>2. j \notin D
    <3> HIDE DEF D
    <3> QED  BY <1>3, <2>1
  <2> QED  BY <2>1, <2>2
<1>6. CASE i <= Len(s) /\ i <= Len(t)
  <2>1. s[i] # t[i] /\ s[i] \in Nat /\ t[i] \in Nat
    BY <1>1, <1>3, <1>6
  <2>2. CASE s[i] < t[i]
    <3>1. i \in 1..Len(t) /\ i - 1 <= Len(s)
      BY <1>1, <1>4, <1>6
    <3> QED
      BY <1>5, <2>2, <3>1 DEF Less
  <2>3. CASE t[i] < s[i]
    <3>1. i \in 1..Len(s) /\ i - 1 <= Len(t)
      BY <1>1, <1>4, <1>6
    <3> QED
      BY <1>5, <2>3, <3>1 DEF Less
  <2> QED
    BY <2>1, <2>2, <2>3
<1>7. CASE i = Len(s) + 1 /\ i <= Len(t)
  BY <1>1, <1>4, <1>5, <1>7, SMTT(30) DEF Less
<1>8. CASE i = Len(t) + 1 /\ i <= Len(s)
  BY <1>1, <1>4, <1>5, <1>8, SMTT(30) DEF Less
<1>9. CASE i = Len(s) + 1 /\ i = Len(t) + 1
  <2>1. Len(s) = Len(t) /\ \A j \in 1..Len(s) : s[j] = t[j]
    BY <1>1, <1>5, <1>9
  <2>2. s = [j \in 1..Len(s) |-> s[j]] /\ t = [j \in 1..Len(t) |-> t[j]]
    OBVIOUS
  <2>3. s = t
    BY <2>1, <2>2, Zenon
  <2> QED
    BY <2>3
<1> QED
  BY <1>1, <1>4, <1>6, <1>7, <1>8, <1>9

-----------------------------------------------------------------------------
(* Sorting.                                                                *)

\* The places of a list are in a strict order: that of their texts, then
\* their own.
LEMMA UpToGrows ==
  ASSUME NEW keys \in Seq(Seq(Nat)), NEW i \in 1..Len(keys), NEW j \in 1..Len(keys),
         Less(keys[i], keys[j]) \/ (keys[i] = keys[j] /\ i < j)
  PROVE  UpTo(keys, i) \subseteq UpTo(keys, j) /\ j \in UpTo(keys, j) /\ j \notin UpTo(keys, i)
<1>1. \A n \in 1..Len(keys) : keys[n] \in Seq(Nat)
  OBVIOUS
<1>2. j \in UpTo(keys, j)
  BY DEF UpTo
<1>3. ASSUME j \in UpTo(keys, i) PROVE FALSE
  <2>1. Less(keys[j], keys[i]) \/ (keys[j] = keys[i] /\ j <= i)
    BY <1>3 DEF UpTo
  <2>2. ~Less(keys[i], keys[i])
    BY <1>1, LessIrreflexive
  <2>3. ~(Less(keys[i], keys[j]) /\ Less(keys[j], keys[i]))
    BY <1>1, <2>2, LessTransitive
  <2> QED
    BY <2>1, <2>2, <2>3
<1>4. ASSUME NEW m \in UpTo(keys, i) PROVE m \in UpTo(keys, j)
  <2>1. m \in 1..Len(keys) /\ (Less(keys[m], keys[i]) \/ (keys[m] = keys[i] /\ m <= i))
    BY <1>4 DEF UpTo
  <2>2. Less(keys[m], keys[i]) /\ Less(keys[i], keys[j]) => Less(keys[m], keys[j])
    BY <1>1, <2>1, LessTransitive
  <2>3. Less(keys[m], keys[j]) \/ (keys[m] = keys[j] /\ m <= j)
    BY <2>1, <2>2
  <2> QED
    BY <2>1, <2>3 DEF UpTo
<1> QED
  BY <1>2, <1>3, <1>4

\* A part of a list's places is counted by a number up to its length.
LEMMA PlacesCounted ==
  ASSUME NEW n \in Nat, NEW P \in SUBSET (1..n)
  PROVE  /\ IsFiniteSet(P) /\ Cardinality(P) \in 0..n
         /\ \A Q \in SUBSET P : Cardinality(Q) <= Cardinality(P)
         /\ \A Q \in SUBSET P : Q # P => Cardinality(Q) < Cardinality(P)
<1>1. IsFiniteSet(1..n) /\ Cardinality(1..n) = n
  BY FS_Interval
<1>2. IsFiniteSet(P) /\ Cardinality(P) <= n
  BY <1>1, FS_Subset
<1>3. Cardinality(P) \in Nat
  BY <1>2, FS_CardinalityType
<1>4. ASSUME NEW Q \in SUBSET P
      PROVE  /\ Cardinality(Q) <= Cardinality(P)
             /\ Q # P => Cardinality(Q) < Cardinality(P)
  <2>1. IsFiniteSet(Q) /\ Cardinality(Q) <= Cardinality(P) /\ (Cardinality(P) = Cardinality(Q) => P = Q)
    BY <1>2, FS_Subset
  <2>2. Cardinality(Q) \in Nat
    BY <2>1, FS_CardinalityType
  <2> QED
    BY <1>3, <2>1, <2>2
<1> QED
  BY <1>2, <1>3, <1>4

\* Every place has a rank of its own, and every rank a place.
LEMMA RankBijection ==
  ASSUME NEW keys \in Seq(Seq(Nat))
  PROVE  /\ \A i \in 1..Len(keys) : Rank(keys, i) \in 1..Len(keys)
         /\ \A i, j \in 1..Len(keys) : Rank(keys, i) = Rank(keys, j) => i = j
         /\ \A n \in 1..Len(keys) : \E i \in 1..Len(keys) : Rank(keys, i) = n
<1> DEFINE N == Len(keys)
           f == [i \in 1..N |-> Rank(keys, i)]
<1>1. N \in Nat /\ \A n \in 1..N : keys[n] \in Seq(Nat)
  OBVIOUS
<1>2. ASSUME NEW i \in 1..N PROVE Rank(keys, i) \in 1..N
  <2>1. UpTo(keys, i) \in SUBSET (1..N) /\ i \in UpTo(keys, i)
    BY DEF UpTo
  <2>2. Cardinality(UpTo(keys, i)) \in 0..N
    BY <1>1, <2>1, PlacesCounted
  <2>3. Cardinality(UpTo(keys, i)) # 0
    <3>1. IsFiniteSet(UpTo(keys, i)) /\ UpTo(keys, i) # {}
      BY <1>1, <2>1, PlacesCounted
    <3> QED
      BY <3>1, FS_EmptySet
  <2> QED
    BY <1>1, <2>2, <2>3 DEF Rank
<1>3. ASSUME NEW i \in 1..N, NEW j \in 1..N, Less(keys[i], keys[j]) \/ (keys[i] = keys[j] /\ i < j)
      PROVE  Rank(keys, i) < Rank(keys, j)
  <2>1. UpTo(keys, i) \in SUBSET UpTo(keys, j) /\ UpTo(keys, i) # UpTo(keys, j)
    BY <1>3, UpToGrows
  <2>2. UpTo(keys, j) \in SUBSET (1..N)
    BY DEF UpTo
  <2> QED
    BY <1>1, <2>1, <2>2, PlacesCounted DEF Rank
<1>4. ASSUME NEW i \in 1..N, NEW j \in 1..N, i # j PROVE Rank(keys, i) # Rank(keys, j)
  <2>1. keys[i] # keys[j] => Less(keys[i], keys[j]) \/ Less(keys[j], keys[i])
    BY <1>1, LessTotal
  <2>2. i < j \/ j < i
    BY <1>4
  <2>3. Rank(keys, i) < Rank(keys, j) \/ Rank(keys, j) < Rank(keys, i)
    BY <1>3, <2>1, <2>2
  <2> QED
    BY <1>2, <2>3
<1>5. f \in Injection(1..N, 1..N)
  BY <1>2, <1>4 DEF Injection, IsInjective
<1>6. f \in Surjection(1..N, 1..N)
  BY <1>1, <1>5, FS_Interval, FS_Injection
<1>7. \A n \in 1..N : \E i \in 1..N : f[i] = n
  BY <1>6 DEF Surjection
<1> QED
  BY <1>2, <1>4, <1>7

\* The sorted list: it shows at the rank of each place the text of that
\* place.
LEMMA SortedAt ==
  ASSUME NEW keys \in Seq(Seq(Nat))
  PROVE  /\ Len(Sorted(keys)) = Len(keys) /\ DOMAIN Sorted(keys) = 1..Len(keys)
         /\ \A i \in 1..Len(keys) : Sorted(keys)[Rank(keys, i)] = keys[i]
<1>1. Len(keys) \in Nat
  OBVIOUS
<1>2. Len(Sorted(keys)) = Len(keys) /\ DOMAIN Sorted(keys) = 1..Len(keys)
  BY <1>1 DEF Sorted
<1>3. ASSUME NEW i \in 1..Len(keys) PROVE Sorted(keys)[Rank(keys, i)] = keys[i]
  <2> DEFINE j == CHOOSE k \in 1..Len(keys) : Rank(keys, k) = Rank(keys, i)
  <2>1. j \in 1..Len(keys) /\ Rank(keys, j) = Rank(keys, i)
    OBVIOUS
  <2>2. j = i
    <3> HIDE DEF j
    <3> QED
      BY <2>1, RankBijection
  <2>3. Rank(keys, i) \in 1..Len(keys)
    BY RankBijection
  <2>4. Sorted(keys)[Rank(keys, i)] = keys[j]
    BY <2>3 DEF Sorted
  <2> QED
    BY <2>2, <2>4
<1> QED
  BY <1>2, <1>3

\* Sorting keeps every text as often as it was there.
LEMMA SortedKeeps ==
  ASSUME NEW keys \in Seq(Seq(Nat)), NEW x
  PROVE  Cardinality(Occurrences(Sorted(keys), x)) = Cardinality(Occurrences(keys, x))
<1> DEFINE A == Occurrences(keys, x)
           B == Occurrences(Sorted(keys), x)
           f == [i \in A |-> Rank(keys, i)]
<1>1. Len(keys) \in Nat /\ A \in SUBSET (1..Len(keys))
  BY DEF Occurrences
<1>2. \A i \in A : f[i] \in B
  <2>1. SUFFICES ASSUME NEW i \in A PROVE Rank(keys, i) \in B
    OBVIOUS
  <2>2. Rank(keys, i) \in 1..Len(keys) /\ keys[i] = x
    BY <1>1, RankBijection DEF Occurrences
  <2>3. Sorted(keys)[Rank(keys, i)] = x /\ Len(Sorted(keys)) = Len(keys)
    BY <1>1, <2>2, SortedAt
  <2> QED
    BY <2>2, <2>3 DEF Occurrences
<1>3. \A i, j \in A : f[i] = f[j] => i = j
  BY <1>1, RankBijection
<1>4. \A n \in B : \E i \in A : f[i] = n
  <2>1. SUFFICES ASSUME NEW n \in B PROVE \E i \in A : Rank(keys, i) = n
    OBVIOUS
  <2>2. n \in 1..Len(keys) /\ Sorted(keys)[n] = x
    BY SortedAt DEF Occurrences
  <2>3. PICK i \in 1..Len(keys) : Rank(keys, i) = n
    BY <2>2, RankBijection
  <2>4. keys[i] = x
    BY <2>2, <2>3, SortedAt
  <2> QED
    BY <2>3, <2>4 DEF Occurrences
<1>5. f \in Bijection(A, B)
  BY <1>2, <1>3, <1>4 DEF Bijection, Injection, Surjection, IsInjective
<1>6. IsFiniteSet(A) /\ ExistsBijection(A, B)
  BY <1>1, <1>5, PlacesCounted DEF ExistsBijection
<1> QED
  BY <1>6, FS_Bijection

\* Lists that hold each text equally often match place by place.
LEMMA SameTextsMatch ==
  ASSUME NEW T, NEW s \in Seq(T), NEW t \in Seq(T),
         SameTexts(T, s, t)
  PROVE  \E f \in Bijection(1..Len(s), 1..Len(t)) : \A i \in 1..Len(s) : t[f[i]] = s[i]
<1> DEFINE A(x) == Occurrences(s, x)
           B(x) == Occurrences(t, x)
           g == [x \in T |-> CHOOSE h : h \in Bijection(A(x), B(x))]
           f == [i \in 1..Len(s) |-> g[s[i]][i]]
<1>1. /\ Len(s) \in Nat /\ \A i \in 1..Len(s) : s[i] \in T
      /\ Len(t) \in Nat /\ \A i \in 1..Len(t) : t[i] \in T
  OBVIOUS
<1>2. \A x \in T : g[x] \in Bijection(A(x), B(x))
  <2> SUFFICES ASSUME NEW x \in T PROVE g[x] \in Bijection(A(x), B(x))
    OBVIOUS
  <2>1. A(x) \in SUBSET (1..Len(s)) /\ B(x) \in SUBSET (1..Len(t))
    BY DEF Occurrences
  <2>2. IsFiniteSet(A(x)) /\ IsFiniteSet(B(x))
    BY <1>1, <2>1, PlacesCounted
  <2>3. ExistsBijection(A(x), B(x))
    BY <2>2, FS_SameCardinalityBij DEF SameTexts
  <2> QED
    BY <2>3 DEF ExistsBijection
<1> HIDE DEF g
<1>3. \A x \in T : /\ \A i \in A(x) : g[x][i] \in B(x)
                   /\ \A i, j \in A(x) : g[x][i] = g[x][j] => i = j
                   /\ \A n \in B(x) : \E i \in A(x) : g[x][i] = n
  BY <1>2 DEF Bijection, Injection, Surjection, IsInjective
<1>4. \A i \in 1..Len(s) : f[i] \in 1..Len(t) /\ t[f[i]] = s[i]
  <2> SUFFICES ASSUME NEW i \in 1..Len(s) PROVE f[i] \in 1..Len(t) /\ t[f[i]] = s[i]
    OBVIOUS
  <2>1. s[i] \in T /\ i \in A(s[i])
    BY <1>1 DEF Occurrences
  <2>2. f[i] \in B(s[i])
    BY <1>3, <2>1
  <2> QED
    BY <2>2 DEF Occurrences
<1>5. \A i, j \in 1..Len(s) : f[i] = f[j] => i = j
  <2> SUFFICES ASSUME NEW i \in 1..Len(s), NEW j \in 1..Len(s), f[i] = f[j] PROVE i = j
    OBVIOUS
  <2>1. s[i] = s[j] /\ s[i] \in T
    BY <1>1, <1>4
  <2>2. i \in A(s[i]) /\ j \in A(s[i])
    BY <2>1 DEF Occurrences
  <2>3. g[s[i]][i] = g[s[i]][j]
    BY <2>1
  <2> QED
    BY <1>3, <2>1, <2>2, <2>3
<1>6. \A n \in 1..Len(t) : \E i \in 1..Len(s) : f[i] = n
  <2> SUFFICES ASSUME NEW n \in 1..Len(t) PROVE \E i \in 1..Len(s) : f[i] = n
    OBVIOUS
  <2>1. t[n] \in T /\ n \in B(t[n])
    BY <1>1 DEF Occurrences
  <2>2. PICK i \in A(t[n]) : g[t[n]][i] = n
    BY <1>3, <2>1
  <2>3. i \in 1..Len(s) /\ s[i] = t[n]
    BY DEF Occurrences
  <2> QED
    BY <2>2, <2>3
<1>7. f \in Bijection(1..Len(s), 1..Len(t))
  <2>1. f \in [1..Len(s) -> 1..Len(t)]
    BY <1>4
  <2> HIDE DEF f
  <2> QED
    BY <1>5, <1>6, <2>1 DEF Bijection, Injection, Surjection, IsInjective
<1> HIDE DEF f
<1> QED
  BY <1>4, <1>7

\* The places of the texts in a set.
Within(keys, Y) == {i \in 1..Len(keys) : keys[i] \in Y}

\* Of such lists the texts in any set are as many.
LEMMA SameTextsCounted ==
  ASSUME NEW T, NEW s \in Seq(T), NEW t \in Seq(T),
         SameTexts(T, s, t),
         NEW Y
  PROVE  Cardinality(Within(s, Y)) = Cardinality(Within(t, Y))
<1> DEFINE P == Within(s, Y)
           Q == Within(t, Y)
<1> USE DEF Within
<1>1. PICK f \in Bijection(1..Len(s), 1..Len(t)) : \A i \in 1..Len(s) : t[f[i]] = s[i]
  BY SameTextsMatch
<1>2. /\ \A i \in 1..Len(s) : f[i] \in 1..Len(t)
      /\ \A i, j \in 1..Len(s) : f[i] = f[j] => i = j
      /\ \A n \in 1..Len(t) : \E i \in 1..Len(s) : f[i] = n
  BY DEF Bijection, Injection, Surjection, IsInjective
<1> DEFINE g == [i \in P |-> f[i]]
<1>3. g \in Bijection(P, Q)
  <2>1. g \in [P -> Q]
    BY <1>1, <1>2
  <2>2. \A i, j \in P : g[i] = g[j] => i = j
    BY <1>2
  <2>3. \A n \in Q : \E i \in P : g[i] = n
    BY <1>1, <1>2
  <2> HIDE DEF g
  <2> QED
    BY <2>1, <2>2, <2>3 DEF Bijection, Injection, Surjection, IsInjective
<1>4. IsFiniteSet(P)
  <2>1. Len(s) \in Nat /\ P \in SUBSET (1..Len(s))
    OBVIOUS
  <2> QED
    BY <2>1, PlacesCounted
<1> QED
  BY <1>3, <1>4, FS_Bijection DEF ExistsBijection

\* A text that comes before another has the lower rank, in another list of
\* the same texts too.
LEMMA RankFollowsOrder ==
  ASSUME NEW T \in SUBSET Seq(Nat), NEW s \in Seq(T), NEW t \in Seq(T),
         SameTexts(T, s, t),
         NEW i \in 1..Len(s), NEW j \in 1..Len(t), Less(s[i], t[j])
  PROVE  Rank(s, i) < Rank(t, j)
<1> DEFINE Y == {y \in T : Less(y, s[i]) \/ y = s[i]}
           P == Within(s, Y)
           Q == Within(t, Y)
<1> USE DEF Within
<1>1. /\ Len(s) \in Nat /\ \A m \in 1..Len(s) : s[m] \in T
      /\ Len(t) \in Nat /\ \A m \in 1..Len(t) : t[m] \in T
  OBVIOUS
<1>2. \A y \in T : y \in Seq(Nat)
  OBVIOUS
<1>3. UpTo(s, i) \in SUBSET P
  BY <1>1 DEF UpTo
<1>4. Q \in SUBSET UpTo(t, j)
  <2>1. \A m \in Q : Less(t[m], t[j])
    <3> SUFFICES ASSUME NEW m \in Q PROVE Less(t[m], t[j])
      OBVIOUS
    <3>1. t[m] = s[i] \/ Less(t[m], s[i])
      OBVIOUS
    <3>2. t[m] \in Seq(Nat) /\ s[i] \in Seq(Nat) /\ t[j] \in Seq(Nat)
      BY <1>1, <1>2
    <3> QED
      BY <3>1, <3>2, LessTransitive
  <2> QED
    BY <2>1 DEF UpTo
<1>5. Q # UpTo(t, j)
  <2>1. j \in UpTo(t, j)
    BY DEF UpTo
  <2>2. ASSUME j \in Q PROVE FALSE
    <3>1. t[j] = s[i] \/ Less(t[j], s[i])
      BY <2>2
    <3>2. s[i] \in Seq(Nat) /\ t[j] \in Seq(Nat)
      BY <1>1, <1>2
    <3>3. Less(s[i], s[i])
      BY <3>1, <3>2, LessTransitive
    <3> QED
      BY <3>2, <3>3, LessIrreflexive
  <2> QED
    BY <2>1, <2>2
<1> DEFINE p == Cardinality(P)
           q == Cardinality(Q)
<1>6. p = q
  <2> HIDE DEF Y, Within
  <2> QED
    BY SameTextsCounted
<1>7. Rank(s, i) <= p /\ p \in Nat /\ Rank(s, i) \in Nat
  <2>1. P \in SUBSET (1..Len(s)) /\ UpTo(s, i) \in SUBSET (1..Len(s))
    BY DEF UpTo
  <2> HIDE DEF P
  <2>2. Cardinality(UpTo(s, i)) <= Cardinality(P) /\ Cardinality(P) \in 0..Len(s)
    BY <1>1, <1>3, <2>1, PlacesCounted
  <2>3. Cardinality(UpTo(s, i)) \in 0..Len(s)
    BY <1>1, <2>1, PlacesCounted
  <2> QED
    BY <1>1, <2>2, <2>3 DEF Rank
<1>8. q < Rank(t, j) /\ q \in Nat /\ Rank(t, j) \in Nat
  <2>1. Q \in SUBSET (1..Len(t)) /\ UpTo(t, j) \in SUBSET (1..Len(t))
    BY DEF UpTo
  <2> HIDE DEF Q
  <2>2. Cardinality(Q) < Cardinality(UpTo(t, j))
    BY <1>1, <1>4, <1>5, <2>1, PlacesCounted
  <2>3. Cardinality(UpTo(t, j)) \in 0..Len(t) /\ Cardinality(Q) \in 0..Len(t)
    BY <1>1, <2>1, PlacesCounted
  <2> QED
    BY <1>1, <2>2, <2>3 DEF Rank
<1> HIDE DEF p, q
<1> QED
  BY <1>6, <1>7, <1>8

\* Sorting forgets the order: lists that hold each text equally often are
\* the same when sorted.
LEMMA SortedForgets ==
  ASSUME NEW T \in SUBSET Seq(Nat), NEW s \in Seq(T), NEW t \in Seq(T),
         SameTexts(T, s, t)
  PROVE  Sorted(s) = Sorted(t)
<1>1. /\ Len(s) \in Nat /\ \A m \in 1..Len(s) : s[m] \in T
      /\ Len(t) \in Nat /\ \A m \in 1..Len(t) : t[m] \in T
  OBVIOUS
<1>2. s \in Seq(Seq(Nat)) /\ t \in Seq(Seq(Nat))
  <2>1. \A y \in T : y \in Seq(Nat)
    OBVIOUS
  <2> QED
    BY <1>1, <2>1
<1>3. Len(s) = Len(t)
  <2>1. Within(s, T) = 1..Len(s) /\ Within(t, T) = 1..Len(t)
    BY <1>1 DEF Within
  <2>2. Cardinality(1..Len(s)) = Cardinality(1..Len(t))
    BY <2>1, SameTextsCounted
  <2>3. \A n \in Nat : Cardinality(1..n) = n
    BY FS_Interval
  <2> QED
    BY <1>1, <2>2, <2>3
<1>4. ASSUME NEW n \in 1..Len(s) PROVE Sorted(s)[n] = Sorted(t)[n]
  <2>1. PICK i \in 1..Len(s) : Rank(s, i) = n
    BY <1>2, RankBijection
  <2>2. PICK j \in 1..Len(t) : Rank(t, j) = n
    BY <1>2, <1>3, RankBijection
  <2>3. Sorted(s)[n] = s[i] /\ Sorted(t)[n] = t[j]
    BY <1>2, <2>1, <2>2, SortedAt
  <2>4. ~Less(s[i], t[j])
    <3> SUFFICES ASSUME Less(s[i], t[j]) PROVE FALSE
      OBVIOUS
    <3>1. Rank(s, i) < Rank(t, j)
      BY RankFollowsOrder
    <3> QED
      BY <2>1, <2>2, <3>1
  <2>5. ~Less(t[j], s[i])
    <3>1. SameTexts(T, t, s)
      BY DEF SameTexts
    <3> SUFFICES ASSUME Less(t[j], s[i]) PROVE FALSE
      OBVIOUS
    <3>2. Rank(t, j) < Rank(s, i)
      BY <3>1, RankFollowsOrder
    <3> QED
      BY <2>1, <2>2, <3>2
  <2>6. s[i] \in Seq(Nat) /\ t[j] \in Seq(Nat)
    BY <1>2
  <2> QED
    BY <2>3, <2>4, <2>5, <2>6, LessTotal
<1>5. Sorted(s) = [n \in 1..Len(s) |-> Sorted(s)[n]] /\ Sorted(t) = [n \in 1..Len(t) |-> Sorted(t)[n]]
  BY DEF Sorted
<1> QED
  BY <1>3, <1>4, <1>5, Zenon

\* The sorted list is one of the same texts.
LEMMA SortedType ==
  ASSUME NEW T \in SUBSET Seq(Nat), NEW s \in Seq(T)
  PROVE  Sorted(s) \in Seq(T) /\ Len(Sorted(s)) = Len(s)
<1>1. s \in Seq(Seq(Nat)) /\ Len(s) \in Nat
  <2>1. \A m \in 1..Len(s) : s[m] \in Seq(Nat)
    OBVIOUS
  <2> QED
    BY <2>1
<1>2. ASSUME NEW n \in 1..Len(s) PROVE Sorted(s)[n] \in T
  <2>1. PICK i \in 1..Len(s) : Rank(s, i) = n
    BY <1>1, RankBijection
  <2>2. Sorted(s)[Rank(s, i)] = s[i]
    BY <1>1, SortedAt
  <2>3. s[i] \in T
    OBVIOUS
  <2> QED
    BY <2>1, <2>2, <2>3
<1>3. Sorted(s) = [n \in 1..Len(s) |-> Sorted(s)[n]]
  BY DEF Sorted
<1> DEFINE r == Sorted(s)
<1> HIDE DEF r
<1>4. r \in Seq(T) /\ Len(r) = Len(s)
  BY <1>1, <1>2, <1>3 DEF r
<1> QED
  BY <1>4 DEF r
-----------------------------------------------------------------------------
(* Concatenation.                                                          *)

\* What is put together, one text after the other.
IsConcatenation(g, s) ==
  g = [i \in 1..Len(s) |-> IF i = 1 THEN s[i] ELSE g[i - 1] \o s[i]]

\* There is such a function: its recursion ends.
LEMMA ConcatenationExists ==
  ASSUME NEW s \in Seq(Seq(Nat))
  PROVE  \E g : IsConcatenation(g, s)
<1> DEFINE Upto(g, n) == g = [i \in 1..n |-> IF i = 1 THEN s[i] ELSE g[i - 1] \o s[i]]
           Bad == {n \in Nat : ~ \E g : Upto(g, n)}
<1>1. SUFFICES ASSUME Len(s) \in Bad PROVE FALSE
  <2>1. Len(s) \in Nat
    OBVIOUS
  <2> QED
    BY <1>1, <2>1 DEF IsConcatenation
<1>2. PICK n \in Bad : \A m \in Bad : n <= m
  <2>1. Bad \in SUBSET Nat /\ Bad # {}
    BY <1>1
  <2> HIDE DEF Bad
  <2> QED
    BY <2>1, LeastNat
<1>3. n \in Nat /\ ~ \E g : Upto(g, n)
  OBVIOUS
<1>4. CASE n = 0
  <2>1. Upto(<<>>, 0)
    OBVIOUS
  <2> QED
    BY <1>3, <1>4, <2>1
<1>5. CASE n > 0
  <2>1. n - 1 \in Nat /\ n - 1 \notin Bad
    <3> HIDE DEF Bad
    <3> QED
      BY <1>2, <1>3, <1>5
  <2>2. PICK g : Upto(g, n - 1)
    BY <2>1
  <2> DEFINE h == [i \in 1..n |-> IF i = 1 THEN s[i] ELSE g[i - 1] \o s[i]]
  <2>3. \A i \in 1..n : i # 1 => h[i - 1] = g[i - 1]
    <3>1. \A i \in 1..n - 1 : g[i] = IF i = 1 THEN s[i] ELSE g[i - 1] \o s[i]
      BY <2>2
    <3>2. \A i \in 1..n - 1 : h[i] = g[i]
      BY <1>3, <3>1
    <3> HIDE DEF h
    <3> QED
      BY <1>3, <3>2
  <2>4. Upto(h, n)
    <3>1. h = [i \in 1..n |-> IF i = 1 THEN s[i] ELSE g[i - 1] \o s[i]]
      OBVIOUS
    <3> HIDE DEF h
    <3>2. \A i \in 1..n : (IF i = 1 THEN s[i] ELSE g[i - 1] \o s[i])
                            = (IF i = 1 THEN s[i] ELSE h[i - 1] \o s[i])
      BY <2>3
    <3> QED
      BY <3>1, <3>2
  <2> QED
    BY <1>3, <2>4
<1> QED
  BY <1>3, <1>4, <1>5

\* FlattenSeq is its last value.
LEMMA FlattenIsConcatenation ==
  ASSUME NEW s \in Seq(Seq(Nat)), s # <<>>
  PROVE  \E g : IsConcatenation(g, s) /\ FlattenSeq(s) = g[Len(s)]
<1> DEFINE f == CHOOSE g : IsConcatenation(g, s)
<1>1. IsConcatenation(f, s)
  BY ConcatenationExists
<1>2. Len(s) # 0
  OBVIOUS
<1>3. FlattenSeq(s) = f[Len(s)]
  BY <1>2 DEF FlattenSeq, IsConcatenation
<1> QED
  BY <1>1, <1>3

\* The values of a concatenation.
LEMMA ConcatenationValues ==
  ASSUME NEW s \in Seq(Seq(Nat)), NEW g, IsConcatenation(g, s)
  PROVE  /\ \A i \in 1..Len(s) : g[i] \in Seq(Nat)
         /\ \A i \in 1..Len(s) : g[i] = IF i = 1 THEN s[i] ELSE g[i - 1] \o s[i]
<1>1. \A i \in 1..Len(s) : g[i] = IF i = 1 THEN s[i] ELSE g[i - 1] \o s[i]
  <2>1. g = [i \in 1..Len(s) |-> IF i = 1 THEN s[i] ELSE g[i - 1] \o s[i]]
    BY DEF IsConcatenation
  <2> QED
    BY <2>1
<1>2. ASSUME NEW k \in 1..Len(s), g[k] \notin Seq(Nat) PROVE FALSE
  <2> DEFINE Bad == {i \in 1..Len(s) : g[i] \notin Seq(Nat)}
  <2>1. PICK i \in Bad : i = 1 \/ (i - 1 \in 1..Len(s) /\ i - 1 \notin Bad)
    <3>1. Bad \in SUBSET (1..Len(s)) /\ k \in Bad /\ Len(s) \in Nat
      BY <1>2
    <3> HIDE DEF Bad
    <3> QED
      BY <3>1, LeastPlace
  <2>2. i \in 1..Len(s) /\ g[i] \notin Seq(Nat) /\ s[i] \in Seq(Nat)
    OBVIOUS
  <2>3. i # 1
    BY <1>1, <2>2
  <2>4. i - 1 \in 1..Len(s) /\ i - 1 \notin Bad
    <3> HIDE DEF Bad
    <3> QED
      BY <2>1, <2>2, <2>3
  <2>5. g[i - 1] \in Seq(Nat) /\ g[i] = g[i - 1] \o s[i]
    BY <1>1, <2>2, <2>3, <2>4
  <2> QED
    BY <2>2, <2>5
<1> QED
  BY <1>1, <1>2

\* Texts that all have the same length, as the keys of one curve do.
AllOfLength(texts, L) == \A x \in texts : Len(x) = L

\* What a concatenation of such texts is long.
LEMMA ConcatenationLength ==
  ASSUME NEW L \in Nat, NEW T \in SUBSET Seq(Nat), AllOfLength(T, L),
         NEW s \in Seq(T), NEW g, IsConcatenation(g, s)
  PROVE  \A i \in 1..Len(s) : Len(g[i]) = i * L
<1>1. s \in Seq(Seq(Nat)) /\ \A i \in 1..Len(s) : s[i] \in Seq(Nat) /\ Len(s[i]) = L
  <2>1. \A x \in T : x \in Seq(Nat) /\ Len(x) = L
    BY DEF AllOfLength
  <2> QED
    BY <2>1
<1>2. ASSUME NEW k \in 1..Len(s), Len(g[k]) # k * L PROVE FALSE
  <2> DEFINE Bad == {i \in 1..Len(s) : Len(g[i]) # i * L}
  <2>1. PICK i \in Bad : i = 1 \/ (i - 1 \in 1..Len(s) /\ i - 1 \notin Bad)
    <3>1. Bad \in SUBSET (1..Len(s)) /\ k \in Bad /\ Len(s) \in Nat
      BY <1>2
    <3> HIDE DEF Bad
    <3> QED
      BY <3>1, LeastPlace
  <2>2. i \in 1..Len(s) /\ Len(g[i]) # i * L
    OBVIOUS
  <2>3. i # 1
    <3> SUFFICES ASSUME i = 1 PROVE FALSE
      OBVIOUS
    <3>1. g[1] = s[1] /\ Len(s[1]) = L
      BY <1>1, <2>2, ConcatenationValues
    <3>2. 1 * L = L
      OBVIOUS
    <3> QED
      BY <2>2, <3>1, <3>2
  <2>4. i - 1 \in 1..Len(s) /\ i - 1 \notin Bad
    <3> HIDE DEF Bad
    <3> QED
      BY <2>1, <2>2, <2>3
  <2>5. Len(g[i - 1]) = (i - 1) * L /\ g[i - 1] \in Seq(Nat) /\ g[i] = g[i - 1] \o s[i]
    BY <1>1, <2>2, <2>3, <2>4, ConcatenationValues
  <2>6. Len(g[i]) = (i - 1) * L + L
    <3>1. s[i] \in Seq(Nat) /\ Len(s[i]) = L
      BY <1>1, <2>2
    <3>2. Len(g[i - 1] \o s[i]) = Len(g[i - 1]) + Len(s[i])
      BY <2>5, <3>1, ConcatProperties
    <3> QED
      BY <2>5, <3>1, <3>2
  <2>7. (i - 1) * L + L = i * L
    BY <2>2
  <2> QED
    BY <2>2, <2>6, <2>7
<1> QED
  BY <1>2

\* Texts of one length can be told from their concatenation: the hash of a
\* list is that of no other list.
LEMMA FlattenInjective ==
  ASSUME NEW L \in Nat \ {0}, NEW T \in SUBSET Seq(Nat), AllOfLength(T, L),
         NEW s \in Seq(T), NEW t \in Seq(T),
         FlattenSeq(s) = FlattenSeq(t)
  PROVE  s = t
<1>1. /\ s \in Seq(Seq(Nat)) /\ \A i \in 1..Len(s) : s[i] \in Seq(Nat) /\ Len(s[i]) = L
      /\ t \in Seq(Seq(Nat)) /\ \A i \in 1..Len(t) : t[i] \in Seq(Nat) /\ Len(t[i]) = L
  <2>1. \A x \in T : x \in Seq(Nat) /\ Len(x) = L
    BY DEF AllOfLength
  <2>2. s \in Seq(Seq(Nat)) /\ t \in Seq(Seq(Nat))
    BY <2>1
  <2>3. /\ \A i \in 1..Len(s) : s[i] \in T
        /\ \A i \in 1..Len(t) : t[i] \in T
    OBVIOUS
  <2> QED
    BY <2>1, <2>2, <2>3
<1>2. FlattenSeq(<<>>) = <<>>
  BY DEF FlattenSeq
<1>3. ASSUME NEW u \in Seq(T), u \in Seq(Seq(Nat)), u # <<>> PROVE FlattenSeq(u) # <<>>
  <2>1. PICK g : IsConcatenation(g, u) /\ FlattenSeq(u) = g[Len(u)]
    BY <1>3, FlattenIsConcatenation
  <2>2. Len(u) \in Nat \ {0}
    BY <1>3
  <2>3. Len(FlattenSeq(u)) = Len(u) * L
    <3>1. \A i \in 1..Len(u) : Len(g[i]) = i * L
      BY <2>1, ConcatenationLength
    <3>2. Len(u) \in 1..Len(u)
      BY <2>2
    <3>3. Len(g[Len(u)]) = Len(u) * L
      BY <3>1, <3>2
    <3> QED
      BY <2>1, <3>3
  <2>4. Len(u) * L # 0
    BY <2>2
  <2> QED
    BY <2>3, <2>4
<1>4. CASE s = <<>> \/ t = <<>>
  BY <1>1, <1>2, <1>3, <1>4
<1>5. CASE s # <<>> /\ t # <<>>
  <2>1. PICK g : IsConcatenation(g, s) /\ FlattenSeq(s) = g[Len(s)]
    BY <1>1, <1>5, FlattenIsConcatenation
  <2>2. PICK h : IsConcatenation(h, t) /\ FlattenSeq(t) = h[Len(t)]
    BY <1>1, <1>5, FlattenIsConcatenation
  <2>3. Len(s) \in Nat \ {0} /\ Len(t) \in Nat \ {0}
    BY <1>5
  <2>4. Len(s) = Len(t)
    <3>1. Len(s) * L = Len(t) * L
      <4>1. Len(g[Len(s)]) = Len(s) * L
        <5>1. \A i \in 1..Len(s) : Len(g[i]) = i * L
          BY <2>1, ConcatenationLength
        <5> QED
          BY <2>3, <5>1
      <4>2. Len(h[Len(t)]) = Len(t) * L
        <5>1. \A i \in 1..Len(t) : Len(h[i]) = i * L
          BY <2>2, ConcatenationLength
        <5> QED
          BY <2>3, <5>1
      <4> QED
        BY <2>1, <2>2, <4>1, <4>2
    <3>2. ASSUME NEW a \in Nat, NEW b \in Nat, a < b PROVE a * L # b * L
      <4>1. (b - a) * L > 0
        <5>1. b - a >= 1
          BY <3>2
        <5> QED
          BY <5>1
      <4>2. (b - a) * L = b * L - a * L /\ a * L \in Nat /\ b * L \in Nat
        OBVIOUS
      <4> QED
        BY <4>1, <4>2
    <3>3. ~(Len(s) < Len(t)) /\ ~(Len(t) < Len(s))
      BY <2>3, <3>1, <3>2
    <3> QED
      BY <2>3, <3>3
  <2>5. /\ \A i \in 1..Len(s) : g[i] \in Seq(Nat) /\ Len(g[i]) = i * L
        /\ \A i \in 1..Len(s) : g[i] = IF i = 1 THEN s[i] ELSE g[i - 1] \o s[i]
        /\ \A i \in 1..Len(s) : h[i] \in Seq(Nat) /\ Len(h[i]) = i * L
        /\ \A i \in 1..Len(s) : h[i] = IF i = 1 THEN t[i] ELSE h[i - 1] \o t[i]
    <3>1. /\ \A i \in 1..Len(s) : g[i] \in Seq(Nat)
          /\ \A i \in 1..Len(s) : g[i] = IF i = 1 THEN s[i] ELSE g[i - 1] \o s[i]
      BY <1>1, <2>1, ConcatenationValues
    <3>2. /\ \A i \in 1..Len(t) : h[i] \in Seq(Nat)
          /\ \A i \in 1..Len(t) : h[i] = IF i = 1 THEN t[i] ELSE h[i - 1] \o t[i]
      BY <1>1, <2>2, ConcatenationValues
    <3>3. \A i \in 1..Len(s) : Len(g[i]) = i * L
      BY <2>1, ConcatenationLength
    <3>4. \A i \in 1..Len(t) : Len(h[i]) = i * L
      BY <2>2, ConcatenationLength
    <3> QED
      BY <2>4, <3>1, <3>2, <3>3, <3>4
  <2>6. \A i \in 1..Len(s) : g[i] = h[i] => s[i] = t[i] /\ (i # 1 => g[i - 1] = h[i - 1])
    <3> SUFFICES ASSUME NEW i \in 1..Len(s), g[i] = h[i]
                 PROVE  s[i] = t[i] /\ (i # 1 => g[i - 1] = h[i - 1])
      OBVIOUS
    <3>1. CASE i = 1
      BY <2>5, <3>1
    <3>2. CASE i # 1
      <4>1. /\ g[i] = g[i - 1] \o s[i] /\ h[i] = h[i - 1] \o t[i]
            /\ g[i - 1] \in Seq(Nat) /\ h[i - 1] \in Seq(Nat) /\ Len(g[i - 1]) = Len(h[i - 1])
            /\ s[i] \in Seq(Nat) /\ t[i] \in Seq(Nat) /\ Len(s[i]) = Len(t[i])
        <5>1. i - 1 \in 1..Len(s) /\ i \in 1..Len(t)
          BY <2>4, <3>2
        <5>2. Len(g[i - 1]) = (i - 1) * L /\ Len(h[i - 1]) = (i - 1) * L
          BY <2>5, <5>1
        <5> QED
          BY <1>1, <2>5, <3>2, <5>1, <5>2
      <4>2. \A a, b, c, d \in Seq(Nat) : a \o c = b \o d /\ Len(a) = Len(b) => a = b
        <5> SUFFICES ASSUME NEW a \in Seq(Nat), NEW b \in Seq(Nat), NEW c \in Seq(Nat), NEW d \in Seq(Nat),
                            a \o c = b \o d, Len(a) = Len(b)
                     PROVE  a = b
          OBVIOUS
        <5>1. \A n \in 1..Len(a) : a[n] = (a \o c)[n] /\ b[n] = (b \o d)[n]
          BY SMTT(30)
        <5> QED
          BY <5>1, SeqEqual, SMTT(30)
      <4>3. g[i - 1] = h[i - 1]
        BY <4>1, <4>2
      <4>4. s[i] = t[i]
        BY <4>1, <4>3, ConcatSimplifications
      <4> QED
        BY <4>3, <4>4
    <3> QED
      BY <3>1, <3>2
  <2>7. g[Len(s)] = h[Len(s)]
    <3>1. g[Len(s)] = h[Len(t)]
      BY <2>1, <2>2, Zenon
    <3> QED
      BY <2>4, <3>1
  <2>8. \A n \in Nat : n < Len(s) => g[Len(s) - n] = h[Len(s) - n]
    <3> DEFINE Bad == {n \in Nat : n < Len(s) /\ g[Len(s) - n] # h[Len(s) - n]}
    <3> SUFFICES ASSUME Bad # {} PROVE FALSE
      OBVIOUS
    <3>1. PICK n \in Bad : \A m \in Bad : n <= m
      <4>1. Bad \in SUBSET Nat
        OBVIOUS
      <4> HIDE DEF Bad
      <4> QED
        BY <4>1, LeastNat
    <3>2. n \in Nat /\ n < Len(s) /\ g[Len(s) - n] # h[Len(s) - n]
      OBVIOUS
    <3>3. n # 0
      <4>1. Len(s) - 0 = Len(s)
        BY <2>3
      <4> QED
        BY <2>7, <3>2, <4>1
    <3>4. n - 1 \notin Bad
      <4> HIDE DEF Bad
      <4> QED
        BY <3>1, <3>2
    <3>5. n - 1 \in Nat /\ n - 1 < Len(s)
      BY <2>3, <3>2, <3>3
    <3>6. g[Len(s) - (n - 1)] = h[Len(s) - (n - 1)]
      BY <3>4, <3>5
    <3>7. Len(s) - (n - 1) \in 1..Len(s) /\ Len(s) - (n - 1) # 1 /\ Len(s) - (n - 1) - 1 = Len(s) - n
      BY <2>3, <3>2, <3>3
    <3> QED
      BY <2>6, <3>2, <3>6, <3>7
  <2>9. \A i \in 1..Len(s) : s[i] = t[i]
    <3> SUFFICES ASSUME NEW i \in 1..Len(s) PROVE s[i] = t[i]
      OBVIOUS
    <3>1. Len(s) - i \in Nat /\ Len(s) - i < Len(s) /\ Len(s) - (Len(s) - i) = i
      BY <2>3
    <3>2. g[i] = h[i]
      BY <2>8, <3>1
    <3> QED
      BY <2>6, <3>2
  <2> QED
    BY <2>4, <2>9, SeqEqual
<1> QED
  BY <1>4, <1>5
=============================================================================
