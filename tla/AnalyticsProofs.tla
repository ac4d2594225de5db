-------------------------- MODULE AnalyticsProofs ---------------------------
(***************************************************************************)
(* Proofs about Analytics, for any events, trackers' sessions, ranges,     *)
(* filters, limits, instants and numbers of rows.                          *)
(*                                                                         *)
(* A request of the panel runs several statements one after the other, and *)
(* trackers store rows between any two of them.  The table only grows at   *)
(* its end, so what a statement read is what it says of the first rows of  *)
(* the table as it is now, sorted in some way: the invariant remembers how *)
(* many.  From there the proofs are about tables and not about steps: U is *)
(* T with more rows and maybe sorted otherwise, and what a query says of T *)
(* is compared to what another says of U.                                  *)
(*                                                                         *)
(* The module goes from the bottom up: finite sets and sums of their sizes,*)
(* tables that have grown, the list of sessions, each query and what it    *)
(* adds up to, then the invariant, its steps and what follows from it.     *)
(***************************************************************************)
EXTENDS Analytics, FiniteSetTheorems, FunctionTheorems, SequenceTheorems,
        WellFoundedInduction, TLAPS
-----------------------------------------------------------------------------
(* Finite sets. *)

\* Whatever follows for a subset from its own smaller subsets, holds for a finite set.
LEMMA Strong ==
  ASSUME NEW S, IsFiniteSet(S), NEW Q,
         \A T \in SUBSET S : (\A U \in SUBSET T : U # T => U \in Q) => T \in Q
  PROVE  S \in Q
<1>1. SUFFICES ASSUME S \notin Q PROVE FALSE
  OBVIOUS
<1> DEFINE D == {T \in SUBSET S : T \notin Q}
<1>2. D \subseteq FiniteSubsetsOf(S) /\ D # {}
  <2>1. \A T \in SUBSET S : IsFiniteSet(T)
    BY FS_Subset
  <2> QED BY <1>1, <2>1 DEF FiniteSubsetsOf
<1>3. IsWellFoundedOn(StrictSubsetOrdering(S), FiniteSubsetsOf(S))
  BY FS_StrictSubsetOrderingWellFounded
<1>4. PICK d \in D : \A e \in D : ~ (<<e, d>> \in StrictSubsetOrdering(S))
  <2> HIDE DEF D
  <2> QED BY <1>2, <1>3, WFMin
<1>5. ASSUME NEW U \in SUBSET d, U # d PROVE U \in Q
  <2>1. SUFFICES ASSUME U \notin Q PROVE FALSE
    OBVIOUS
  <2>2. U \in D
    BY <2>1
  <2>3. <<U, d>> \in StrictSubsetOrdering(S)
    <3>1. U \in FiniteSubsetsOf(S) /\ d \in FiniteSubsetsOf(S)
      BY <1>2, <2>2
    <3> QED BY <1>5, <3>1 DEF StrictSubsetOrdering
  <2> QED BY <1>4, <2>2, <2>3
<1> QED
  BY <1>4, <1>5

\* The least of some rows.
LEMMA Least ==
  ASSUME NEW K, K \subseteq Nat, K # {}
  PROVE  Min(K) \in K /\ \A y \in K : Min(K) <= y
<1> DEFINE D == {0..x : x \in K}
<1>1. D \subseteq FiniteSubsetsOf(Nat) /\ D # {}
  <2>1. \A x \in K : 0..x \in FiniteSubsetsOf(Nat)
    <3>1. SUFFICES ASSUME NEW x \in K PROVE 0..x \in FiniteSubsetsOf(Nat)
      OBVIOUS
    <3>2. x \in Nat /\ 0..x \subseteq Nat /\ IsFiniteSet(0..x)
      BY FS_Interval
    <3> QED BY <3>2 DEF FiniteSubsetsOf
  <2> QED BY <2>1
<1>2. IsWellFoundedOn(StrictSubsetOrdering(Nat), FiniteSubsetsOf(Nat))
  BY FS_StrictSubsetOrderingWellFounded
<1>3. PICK d \in D : \A e \in D : ~ (<<e, d>> \in StrictSubsetOrdering(Nat))
  <2> HIDE DEF D
  <2> QED BY <1>1, <1>2, WFMin
<1>4. PICK x \in K : d = 0..x
  OBVIOUS
<1>5. ASSUME NEW y \in K PROVE x <= y
  <2>1. SUFFICES ASSUME y < x PROVE FALSE
    OBVIOUS
  <2>2. 0..y \in D /\ 0..y \in FiniteSubsetsOf(Nat) /\ 0..x \in FiniteSubsetsOf(Nat)
    BY <1>1
  <2>3. 0..y \subseteq 0..x /\ 0..y # 0..x
    <3>1. x \in 0..x /\ x \notin 0..y
      BY <2>1
    <3> QED BY <2>1, <3>1
  <2>4. <<0..y, 0..x>> \in StrictSubsetOrdering(Nat)
    BY <2>2, <2>3 DEF StrictSubsetOrdering
  <2> QED BY <1>3, <1>4, <2>2, <2>4
<1>6. \E z \in K : \A y \in K : z <= y
  BY <1>5
<1> QED
  BY <1>6 DEF Min

\* Subsets of a finite set.
LEMMA Within ==
  ASSUME NEW S, IsFiniteSet(S), NEW T, T \subseteq S
  PROVE  /\ IsFiniteSet(T) /\ Cardinality(T) <= Cardinality(S)
         /\ Cardinality(T) \in Nat /\ Cardinality(S) \in Nat
         /\ Cardinality(T) = Cardinality(S) => T = S
BY FS_Subset, FS_CardinalityType

\* A set that f maps another onto is no greater, and as great if f is one to one.
LEMMA Onto ==
  ASSUME NEW S, IsFiniteSet(S), NEW f, NEW T, T = {f[x] : x \in S}
  PROVE  /\ IsFiniteSet(T) /\ Cardinality(T) <= Cardinality(S) /\ Cardinality(T) \in Nat
         /\ (\A x, y \in S : f[x] = f[y] => x = y) => Cardinality(T) = Cardinality(S)
<1> DEFINE g == [x \in S |-> f[x]]
<1>1. g \in Surjection(S, T)
  BY DEF Surjection
<1>2. (\A x, y \in S : f[x] = f[y] => x = y) => g \in Injection(S, T)
  BY DEF Injection, IsInjective
<1> HIDE DEF g
<1> QED
  BY <1>1, <1>2, FS_Surjection, FS_CardinalityType

\* Two sets without a common element.
LEMMA Apart ==
  ASSUME NEW S, IsFiniteSet(S), NEW T, IsFiniteSet(T), S \cap T = {}
  PROVE  /\ IsFiniteSet(S \cup T) /\ Cardinality(S \cup T) = Cardinality(S) + Cardinality(T)
         /\ Cardinality(S) \in Nat /\ Cardinality(T) \in Nat
BY FS_Union, FS_EmptySet, FS_CardinalityType

\* In a row of things, as many come before one as its place says; each place is taken.
LEMMA Places ==
  ASSUME NEW M, IsFiniteSet(M), NEW before \in [M -> SUBSET M],
         \A x \in M : x \notin before[x],
         \A x, y \in M : y \in before[x] => before[y] \subseteq before[x],
         \A x, y \in M : x # y => x \in before[y] \/ y \in before[x]
  PROVE  [x \in M |-> Cardinality(before[x])] \in Bijection(M, 0 .. Cardinality(M) - 1)
<1> DEFINE N == Cardinality(M)
           place == [x \in M |-> Cardinality(before[x])]
<1>1. N \in Nat
  BY FS_CardinalityType
<1>2. \A x \in M : IsFiniteSet(before[x]) /\ Cardinality(before[x]) \in Nat
  BY Within
<1>3. \A x \in M : place[x] \in 0 .. N - 1
  <2> SUFFICES ASSUME NEW x \in M PROVE Cardinality(before[x]) \in 0 .. N - 1
    OBVIOUS
  <2>1. IsFiniteSet(M \ {x}) /\ Cardinality(M \ {x}) = N - 1
    BY FS_RemoveElement
  <2>2. Cardinality(before[x]) <= Cardinality(M \ {x})
    <3>1. before[x] \subseteq M \ {x}
      OBVIOUS
    <3> QED BY <2>1, <3>1, Within
  <2> QED BY <1>1, <1>2, <2>1, <2>2
<1>4. \A x, y \in M : y \in before[x] => place[y] < place[x]
  <2> SUFFICES ASSUME NEW x \in M, NEW y \in M, y \in before[x]
               PROVE  Cardinality(before[y]) < Cardinality(before[x])
    OBVIOUS
  <2>1. before[y] \subseteq before[x] /\ before[y] # before[x]
    OBVIOUS
  <2>2. IsFiniteSet(before[x]) /\ Cardinality(before[x]) \in Nat
    BY <1>2
  <2>3. /\ Cardinality(before[y]) <= Cardinality(before[x])
        /\ Cardinality(before[y]) # Cardinality(before[x])
        /\ Cardinality(before[y]) \in Nat
    BY <2>1, <2>2, Within
  <2> QED BY <2>2, <2>3
<1>5. \A x, y \in M : place[x] = place[y] => x = y
  <2> SUFFICES ASSUME NEW x \in M, NEW y \in M, place[x] = place[y], x # y PROVE FALSE
    OBVIOUS
  <2>1. place[x] < place[y] \/ place[y] < place[x]
    BY <1>4
  <2>2. place[x] \in Nat
    BY <1>2
  <2> HIDE DEF place
  <2> QED BY <2>1, <2>2
<1>6. place \in Injection(M, 0 .. N - 1)
  <2>1. place \in [M -> 0 .. N - 1]
    BY <1>3
  <2> HIDE DEF place
  <2> QED BY <1>5, <2>1 DEF Injection, IsInjective
<1>7. IsFiniteSet(0 .. N - 1) /\ Cardinality(0 .. N - 1) = N
  BY <1>1, FS_Interval
<1>8. place \in Surjection(M, 0 .. N - 1)
  <2> HIDE DEF place
  <2> QED BY <1>6, <1>7, FS_Injection
<1> QED
  BY <1>6, <1>8 DEF Bijection

\* before[x] is what comes before x in M put in a row.
InRow(M, before) ==
  /\ IsFiniteSet(M) /\ before \in [M -> SUBSET M]
  /\ \A x \in M : x \notin before[x]
  /\ \A x, y \in M : y \in before[x] => before[y] \subseteq before[x]
  /\ \A x, y \in M : x # y => x \in before[y] \/ y \in before[x]

\* Those in the n places from a on.
Slice(M, before, a, n) ==
  {x \in M : a <= Cardinality(before[x]) /\ Cardinality(before[x]) < a + n}

\* How many of them take one of n places from a on.
LEMMA SliceSize ==
  ASSUME NEW M, NEW before, InRow(M, before), NEW a \in Nat, NEW n \in Nat
  PROVE  /\ Cardinality(Slice(M, before, a, n)) = IF Cardinality(M) - a > n THEN n
                             ELSE IF Cardinality(M) > a THEN Cardinality(M) - a ELSE 0
         /\ IsFiniteSet(Slice(M, before, a, n)) /\ Cardinality(M) \in Nat
         /\ \A x \in M : Cardinality(before[x]) \in 0 .. Cardinality(M) - 1
<1> DEFINE C == Slice(M, before, a, n)
<1> DEFINE N == Cardinality(M)
           place == [x \in M |-> Cardinality(before[x])]
           last == IF N - a > n THEN a + n ELSE N
<1>1. place \in Bijection(M, 0 .. N - 1)
  BY Places DEF InRow
<1>2. N \in Nat /\ last \in Nat
  <2>1. N \in Nat
    BY FS_CardinalityType DEF InRow
  <2> QED BY <2>1
<1>3. IsFiniteSet(C)
  BY Within DEF InRow, Slice
<1>4. C = {x \in M : a <= place[x] /\ place[x] < a + n}
  BY DEF Slice
<1>0. \A x \in M : Cardinality(before[x]) = place[x]
  OBVIOUS
<1> HIDE DEF place, C
<1>5. /\ \A x \in M : place[x] \in 0 .. N - 1
      /\ \A x, y \in M : place[x] = place[y] => x = y
      /\ \A k \in 0 .. N - 1 : \E x \in M : place[x] = k
  BY <1>1 DEF Bijection, Injection, Surjection, IsInjective
<1>6. \A k \in a .. last - 1 : k \in 0 .. N - 1 /\ a <= k /\ k < a + n
  BY <1>2
<1>7. \A k \in 0 .. N - 1 : a <= k /\ k < a + n => k \in a .. last - 1
  BY <1>2
<1> HIDE DEF last, N
<1>8. a .. last - 1 = {place[x] : x \in C}
  <2>1. ASSUME NEW k \in a .. last - 1 PROVE k \in {place[x] : x \in C}
    <3>1. k \in 0 .. N - 1 /\ a <= k /\ k < a + n
      BY <1>6
    <3>2. PICK x \in M : place[x] = k
      BY <1>5, <3>1
    <3> QED BY <1>4, <3>1, <3>2
  <2>2. ASSUME NEW x \in C PROVE place[x] \in a .. last - 1
    <3>1. x \in M /\ a <= place[x] /\ place[x] < a + n
      BY <1>4
    <3> QED BY <1>5, <1>7, <3>1
  <2> QED BY <2>1, <2>2
<1>9. Cardinality(a .. last - 1) = Cardinality(C)
  <2>1. \A x, y \in C : place[x] = place[y] => x = y
    BY <1>4, <1>5
  <2> DEFINE I == a .. last - 1
  <2>2. I = {place[x] : x \in C}
    BY <1>8
  <2> HIDE DEF I
  <2>3. Cardinality(I) = Cardinality(C)
    BY <1>3, <2>1, <2>2, Onto
  <2> QED BY <2>3 DEF I
<1>10. Cardinality(a .. last - 1) = IF a > last - 1 THEN 0 ELSE (last - 1) - a + 1
  BY <1>2, FS_Interval
<1>11. \A x \in M : Cardinality(before[x]) \in 0 .. N - 1
  BY <1>0, <1>5
<1> QED
  BY <1>2, <1>3, <1>9, <1>10, <1>11 DEF last, N, C

\* What f maps S to.
ImageOf(f, S) == {f[x] : x \in S}

\* An image has no more elements than what it is of,
LEMMA Image ==
  ASSUME NEW f, NEW S, IsFiniteSet(S)
  PROVE  /\ IsFiniteSet(ImageOf(f, S)) /\ Cardinality(ImageOf(f, S)) \in Nat
         /\ Cardinality(ImageOf(f, S)) <= Cardinality(S)
<1> DEFINE I == {f[x] : x \in S}
<1>1. I = {f[x] : x \in S}
  OBVIOUS
<1> HIDE DEF I
<1>2. IsFiniteSet(I) /\ Cardinality(I) \in Nat /\ Cardinality(I) <= Cardinality(S)
  BY <1>1, Onto
<1> QED
  BY <1>1, <1>2 DEF ImageOf

\* and as many if no two elements have the same.
LEMMA OneToOne ==
  ASSUME NEW f, NEW S, IsFiniteSet(S), \A x, y \in S : f[x] = f[y] => x = y
  PROVE  Cardinality(ImageOf(f, S)) = Cardinality(S)
<1> DEFINE I == {f[x] : x \in S}
<1>1. I = {f[x] : x \in S}
  OBVIOUS
<1> HIDE DEF I
<1>2. Cardinality(I) = Cardinality(S)
  BY <1>1, Onto
<1> QED
  BY <1>1, <1>2 DEF ImageOf

\* The greatest of finitely many numbers.
LEMMA Highest ==
  ASSUME NEW K, K \subseteq Nat, IsFiniteSet(K), K # {}
  PROVE  Max(K) \in K /\ \A y \in K : Max(K) >= y
<1> DEFINE Q == {S \in SUBSET K : S = {} \/ \E x \in S : \A y \in S : x >= y}
<1>1. ASSUME NEW S \in SUBSET K, \A U \in SUBSET S : U # S => U \in Q PROVE S \in Q
  <2>1. CASE S = {}
    BY <2>1
  <2>2. CASE S # {}
    <3>1. PICK z \in S : TRUE
      BY <2>2
    <3>2. S \ {z} \in Q
      <4>1. S \ {z} \in SUBSET S /\ S \ {z} # S
        BY <3>1
      <4> HIDE DEF Q
      <4> QED BY <1>1, <4>1
    <3>3. z \in Nat /\ S \subseteq Nat
      BY <3>1
    <3>4. CASE S \ {z} = {}
      <4>1. \A y \in S : y = z
        BY <3>4
      <4> QED BY <3>1, <3>3, <4>1
    <3>5. CASE \E x \in S \ {z} : \A y \in S \ {z} : x >= y
      <4>1. PICK x \in S \ {z} : \A y \in S \ {z} : x >= y
        BY <3>5
      <4>2. x \in Nat
        BY <3>3, <4>1
      <4>3. CASE x >= z
        <5>1. \A y \in S : x >= y
          BY <4>1, <4>3
        <5> QED BY <4>1, <5>1
      <4>4. CASE ~ (x >= z)
        <5>1. \A y \in S : z >= y
          BY <3>3, <4>1, <4>2, <4>4
        <5> QED BY <3>1, <5>1
      <4> QED BY <4>3, <4>4
    <3> QED BY <3>2, <3>4, <3>5
  <2> QED BY <2>1, <2>2
<1>2. K \in Q
  <2> HIDE DEF Q
  <2> QED BY <1>1, Strong
<1>3. \E x \in K : \A y \in K : x >= y
  BY <1>2
<1> QED
  BY <1>3 DEF Max
-----------------------------------------------------------------------------
(* Sums.  All of them are of the sizes of sets. *)

\* The recursive definition in Total, for the sum g[s] of c over each set s.
Adds(g, c) ==
  g = [s \in SUBSET (DOMAIN c) |->
         IF s = {} THEN 0 ELSE LET x == CHOOSE y \in s : TRUE IN c[x] + g[s \ {x}]]

\* Total is the sum that the definition describes.
LEMMA TotalDef ==
  ASSUME NEW c
  PROVE  Total(c) = LET g == CHOOSE h : Adds(h, c) IN g[DOMAIN c]
BY DEF Total, MapThenSumSet, MapThenFoldSet, Adds

\* The sets A[x] made disjoint.
Pairs(D, A) == UNION {{x} \X A[x] : x \in D}

\* The pairs are finitely many,
LEMMA PairsFinite ==
  ASSUME NEW D, IsFiniteSet(D), NEW A, \A x \in D : IsFiniteSet(A[x])
  PROVE  IsFiniteSet(Pairs(D, A))
<1> DEFINE f == [x \in D |-> {x} \X A[x]]
           E == {f[x] : x \in D}
<1>1. \A x \in D : IsFiniteSet(f[x])
  <2> SUFFICES ASSUME NEW x \in D PROVE IsFiniteSet({x} \X A[x])
    OBVIOUS
  <2>1. IsFiniteSet({x})
    BY FS_Singleton
  <2> QED BY <2>1, FS_Product
<1>2. Pairs(D, A) = UNION E
  BY DEF Pairs
<1>3. IsFiniteSet(E)
  <2> HIDE DEF f
  <2> QED BY Onto
<1> HIDE DEF f
<1>4. \A e \in E : IsFiniteSet(e)
  BY <1>1
<1> HIDE DEF E
<1> QED
  BY <1>2, <1>3, <1>4, FS_UNION

\* and without those of x, as many fewer as x has elements.
LEMMA PairsWithout ==
  ASSUME NEW D, IsFiniteSet(D), NEW A, \A x \in D : IsFiniteSet(A[x]), NEW x \in D
  PROVE  /\ Cardinality(Pairs(D, A)) = Cardinality(A[x]) + Cardinality(Pairs(D \ {x}, A))
         /\ Cardinality(Pairs(D, A)) \in Nat
<1> DEFINE P == {x} \X A[x]
           R == Pairs(D \ {x}, A)
<1>1. Pairs(D, A) = P \cup R /\ P \cap R = {}
  BY DEF Pairs
<1>2. IsFiniteSet(R) /\ IsFiniteSet(Pairs(D, A))
  <2>1. IsFiniteSet(D \ {x})
    BY FS_RemoveElement
  <2> QED BY <2>1, PairsFinite
<1>3. IsFiniteSet(P) /\ Cardinality(P) = Cardinality(A[x])
  <2> DEFINE f == [y \in A[x] |-> <<x, y>>]
  <2>1. \A p \in P : \E y \in A[x] : p = f[y]
    <3> SUFFICES ASSUME NEW p \in P PROVE \E y \in A[x] : p = f[y]
      OBVIOUS
    <3>1. p[2] \in A[x] /\ p = <<x, p[2]>>
      OBVIOUS
    <3> QED BY <3>1
  <2>2. \A y \in A[x] : f[y] \in P
    OBVIOUS
  <2>3. \A y, z \in A[x] : f[y] = f[z] => y = z
    OBVIOUS
  <2> HIDE DEF f, P
  <2>4. P = {f[y] : y \in A[x]}
    BY <2>1, <2>2
  <2>5. IsFiniteSet(A[x])
    OBVIOUS
  <2> QED BY <2>3, <2>4, <2>5, Onto
<1> HIDE DEF P, R
<1>4. Cardinality(P \cup R) = Cardinality(P) + Cardinality(R)
  BY <1>1, <1>2, <1>3, Apart
<1> QED
  BY <1>1, <1>2, <1>3, <1>4, FS_CardinalityType DEF R

\* A sum of sizes is the number of pairs.
LEMMA Summed ==
  ASSUME NEW c, IsFiniteSet(DOMAIN c), NEW A,
         \A x \in DOMAIN c : IsFiniteSet(A[x]) /\ c[x] = Cardinality(A[x])
  PROVE  Total(c) = Cardinality(Pairs(DOMAIN c, A))
<1> DEFINE D == DOMAIN c
           sum == [s \in SUBSET D |-> Cardinality(Pairs(s, A))]
<1>1. \A s \in SUBSET D : IsFiniteSet(s)
  BY Within
<1>2. \A s \in SUBSET D : \A x \in s : sum[s] = c[x] + sum[s \ {x}]
  <2> SUFFICES ASSUME NEW s \in SUBSET D, NEW x \in s
               PROVE  Cardinality(Pairs(s, A)) = c[x] + Cardinality(Pairs(s \ {x}, A))
    OBVIOUS
  <2> QED BY <1>1, PairsWithout
<1>3. sum[{}] = 0
  <2>1. Pairs({}, A) = {}
    BY DEF Pairs
  <2> QED BY <2>1, FS_EmptySet
<1>4. \A s \in SUBSET D : s # {} => (CHOOSE y \in s : TRUE) \in s
  OBVIOUS
<1>5. Adds(sum, c)
  <2>1. \A s \in SUBSET D :
          sum[s] = IF s = {} THEN 0 ELSE LET x == CHOOSE y \in s : TRUE IN c[x] + sum[s \ {x}]
    <3> HIDE DEF sum
    <3> QED BY <1>2, <1>3, <1>4
  <2>2. sum = [s \in SUBSET D |-> sum[s]]
    OBVIOUS
  <2> HIDE DEF sum
  <2> QED BY <2>1, <2>2 DEF Adds
<1> DEFINE g == CHOOSE h : Adds(h, c)
<1>6. Adds(g, c)
  <2> HIDE DEF sum
  <2> QED BY <1>5
<1> HIDE DEF g, sum
<1>7. \A s \in SUBSET D :
        g[s] = IF s = {} THEN 0 ELSE LET x == CHOOSE y \in s : TRUE IN c[x] + g[s \ {x}]
  BY <1>6 DEF Adds
<1> DEFINE Q == {s \in SUBSET D : g[s] = sum[s]}
<1>8. ASSUME NEW s \in SUBSET D, \A u \in SUBSET s : u # s => u \in Q PROVE s \in Q
  <2>1. CASE s = {}
    BY <1>3, <1>7, <2>1
  <2>2. CASE s # {}
    <3> DEFINE x == CHOOSE y \in s : TRUE
    <3>1. x \in s
      BY <2>2
    <3>2. g[s] = c[x] + g[s \ {x}]
      BY <1>7, <2>2
    <3> HIDE DEF x
    <3>3. s \ {x} \in Q
      <4>1. s \ {x} \in SUBSET s /\ s \ {x} # s
        BY <3>1
      <4> HIDE DEF Q
      <4> QED BY <1>8, <4>1
    <3>4. sum[s] = c[x] + sum[s \ {x}]
      BY <1>2, <3>1
    <3> QED BY <3>2, <3>3, <3>4
  <2> QED BY <2>1, <2>2
<1>9. D \in Q
  <2> HIDE DEF Q
  <2> QED BY <1>8, Strong
<1>10. Total(c) = g[D]
  BY TotalDef DEF g
<1>11. sum[D] = Cardinality(Pairs(D, A))
  BY DEF sum
<1> QED
  BY <1>9, <1>10, <1>11

\* c says how many each group A[x] has.
Groups(c, A) ==
  /\ IsFiniteSet(DOMAIN c)
  /\ \A x \in DOMAIN c : IsFiniteSet(A[x]) /\ c[x] = Cardinality(A[x])

\* All that is in one of the sets.
Together(c, A) == UNION {A[x] : x \in DOMAIN c}

\* Groups that share no element add up to what they hold together.
LEMMA Partition ==
  ASSUME NEW c, NEW A, Groups(c, A),
         \A x, y \in DOMAIN c : x # y => A[x] \cap A[y] = {}
  PROVE  /\ Total(c) = Cardinality(Together(c, A)) /\ IsFiniteSet(Together(c, A))
         /\ Total(c) \in Nat
<1> DEFINE B == UNION {A[x] : x \in DOMAIN c}
           P == Pairs(DOMAIN c, A)
           f == [p \in P |-> p[2]]
<1>1. B = {f[p] : p \in P}
  <2>1. \A p \in P : p[2] \in B
    BY DEF Pairs
  <2>2. ASSUME NEW b \in B PROVE \E p \in P : p[2] = b
    <3>1. PICK x \in DOMAIN c : b \in A[x]
      OBVIOUS
    <3>2. <<x, b>> \in P /\ <<x, b>>[2] = b
      BY <3>1 DEF Pairs
    <3> QED BY <3>2
  <2> HIDE DEF P
  <2> QED BY <2>1, <2>2
<1>2. \A p, q \in P : f[p] = f[q] => p = q
  <2> SUFFICES ASSUME NEW p \in P, NEW q \in P, p[2] = q[2] PROVE p = q
    OBVIOUS
  <2>1. PICK x \in DOMAIN c : p \in {x} \X A[x]
    BY DEF Pairs
  <2>2. PICK y \in DOMAIN c : q \in {y} \X A[y]
    BY DEF Pairs
  <2>3. p = <<x, p[2]>> /\ p[2] \in A[x] /\ q = <<y, q[2]>> /\ q[2] \in A[y]
    BY <2>1, <2>2
  <2>4. x = y
    BY <2>3
  <2> QED BY <2>3, <2>4
<1>3. IsFiniteSet(P) /\ Total(c) = Cardinality(P)
  BY Summed, PairsFinite DEF Groups
<1> HIDE DEF P, f
<1> DEFINE I == {f[p] : p \in P}
<1>4. IsFiniteSet(I) /\ Cardinality(I) \in Nat /\ Cardinality(I) = Cardinality(P)
  <2>1. I = {f[p] : p \in P}
    OBVIOUS
  <2> HIDE DEF I
  <2> QED BY <1>2, <1>3, <2>1, Onto
<1> QED
  BY <1>1, <1>3, <1>4 DEF Together

\* And groups that do, to no less.
LEMMA Cover ==
  ASSUME NEW c, NEW A, Groups(c, A)
  PROVE  /\ Cardinality(Together(c, A)) <= Total(c) /\ IsFiniteSet(Together(c, A))
         /\ Total(c) \in Nat /\ Cardinality(Together(c, A)) \in Nat
<1> DEFINE B == UNION {A[x] : x \in DOMAIN c}
           P == Pairs(DOMAIN c, A)
           f == [p \in P |-> p[2]]
<1>1. B = {f[p] : p \in P}
  <2>1. \A p \in P : p[2] \in B
    BY DEF Pairs
  <2>2. ASSUME NEW b \in B PROVE \E p \in P : p[2] = b
    <3>1. PICK x \in DOMAIN c : b \in A[x]
      OBVIOUS
    <3>2. <<x, b>> \in P /\ <<x, b>>[2] = b
      BY <3>1 DEF Pairs
    <3> QED BY <3>2
  <2> HIDE DEF P
  <2> QED BY <2>1, <2>2
<1>2. IsFiniteSet(P) /\ Total(c) = Cardinality(P)
  BY Summed, PairsFinite DEF Groups
<1> HIDE DEF P, f
<1> DEFINE I == {f[p] : p \in P}
<1>3. IsFiniteSet(I) /\ Cardinality(I) \in Nat /\ Cardinality(I) <= Cardinality(P)
  <2>1. I = {f[p] : p \in P}
    OBVIOUS
  <2> HIDE DEF I
  <2> QED BY <1>2, <2>1, Onto
<1>4. Cardinality(P) \in Nat
  BY <1>2, FS_CardinalityType
<1> QED
  BY <1>1, <1>2, <1>3, <1>4 DEF Together
-----------------------------------------------------------------------------
(* Tables, and tables that have grown.                                     *)

\* Events as they are stored: a session has one visitor, an instant one day.
Log(T) ==
  /\ T \in Seq(Row)
  /\ \A i, j \in 1 .. Len(T) : T[i].session = T[j].session => T[i].visitor = T[j].visitor
  /\ \A i, j \in 1 .. Len(T) : T[i].at = T[j].at => T[i].day = T[j].day

\* And as a statement reads them, sorted by their instants.
Table(T) ==
  /\ Log(T)
  /\ \A i, j \in 1 .. Len(T) :
       i # j => T[i].nth # T[j].nth /\ (T[i].at < T[j].at => T[i].nth < T[j].nth)

\* The same row, maybe in another place of the order.
Same(x, y) ==
  /\ x.session = y.session /\ x.visitor = y.visitor /\ x.place = y.place /\ x.tag = y.tag
  /\ x.num = y.num /\ x.type = y.type /\ x.name = y.name /\ x.at = y.at /\ x.day = y.day

\* U has the rows of T and maybe more at its end.
Grown(T, U) ==
  /\ Log(T) /\ Log(U) /\ Len(T) <= Len(U)
  /\ \A i \in 1 .. Len(T) : Same(T[i], U[i])

\* S is some rows of a table.
RowsIn(T, S) == Log(T) /\ S \subseteq 1 .. Len(T)

\* What a row of a table is.
LEMMA RowTypes ==
  ASSUME NEW T, Log(T)
  PROVE  /\ Len(T) \in Nat /\ IsFiniteSet(1 .. Len(T))
         /\ \A i \in 1 .. Len(T) :
              /\ i \in Nat /\ T[i].day \in Int /\ T[i].at \in Nat /\ T[i].nth \in Nat
              /\ {T[i].session, T[i].visitor, T[i].place, T[i].tag, T[i].num} \subseteq Nat
<1>1. Len(T) \in Nat /\ \A i \in 1 .. Len(T) : T[i] \in Row
  BY DEF Log
<1>2. IsFiniteSet(1 .. Len(T))
  BY <1>1, FS_Interval
<1>0. DOMAIN Day \subseteq Nat
  <2>1. Day \in Seq(Int)
    BY AnalyticsAssumption
  <2> QED BY <2>1
<1>3. ASSUME NEW i \in 1 .. Len(T)
      PROVE  /\ i \in Nat /\ T[i].day \in Int /\ T[i].at \in Nat /\ T[i].nth \in Nat
             /\ {T[i].session, T[i].visitor, T[i].place, T[i].tag, T[i].num} \subseteq Nat
  <2>1. T[i] \in Row
    BY <1>1
  <2>2. i \in Nat
    BY <1>1
  <2> QED BY <1>0, <2>1, <2>2 DEF Row
<1> QED
  BY <1>1, <1>2, <1>3

\* Growth on growth.
LEMMA GrownTwice ==
  ASSUME NEW T, NEW U, NEW V, Grown(T, U), Grown(U, V)
  PROVE  Grown(T, V)
<1>1. Log(T) /\ Log(U) /\ Log(V) /\ Len(T) <= Len(U) /\ Len(U) <= Len(V)
  BY DEF Grown
<1>2. Len(T) \in Nat /\ Len(U) \in Nat /\ Len(V) \in Nat
  BY <1>1, RowTypes
<1>3. ASSUME NEW i \in 1 .. Len(T) PROVE Same(T[i], V[i])
  <2>1. i \in 1 .. Len(U)
    BY <1>1, <1>2
  <2>2. Same(T[i], U[i]) /\ Same(U[i], V[i])
    BY <2>1 DEF Grown
  <2> QED BY <2>2 DEF Same
<1> QED
  BY <1>1, <1>2, <1>3 DEF Grown

\* What is selected from some rows of a table is finite.
LEMMA Selected ==
  ASSUME NEW T, NEW S, RowsIn(T, S)
  PROVE  /\ IsFiniteSet(S) /\ Cardinality(S) \in Nat
         /\ IsFiniteSet(VisitorsOf(T, S)) /\ Cardinality(VisitorsOf(T, S)) \in Nat
         /\ VisitorsOf(T, S) \subseteq Nat
         /\ IsFiniteSet(SessionsOf(T, S)) /\ Cardinality(SessionsOf(T, S)) \in Nat
         /\ SessionsOf(T, S) \subseteq Nat
         /\ S \subseteq Nat
<1>1. IsFiniteSet(S) /\ Cardinality(S) \in Nat
  BY RowTypes, Within DEF RowsIn
<1>2. IsFiniteSet(VisitorsOf(T, S)) /\ Cardinality(VisitorsOf(T, S)) \in Nat
  <2> DEFINE f == [i \in S |-> T[i].visitor]
  <2>1. VisitorsOf(T, S) = ImageOf(f, S)
    BY DEF VisitorsOf, ImageOf
  <2> HIDE DEF f
  <2> QED BY <1>1, <2>1, Image
<1>3. IsFiniteSet(SessionsOf(T, S)) /\ Cardinality(SessionsOf(T, S)) \in Nat
  <2> DEFINE f == [i \in S |-> T[i].session]
  <2>1. SessionsOf(T, S) = ImageOf(f, S)
    BY DEF SessionsOf, ImageOf
  <2> HIDE DEF f
  <2> QED BY <1>1, <2>1, Image
<1>4. \A i \in S : T[i].visitor \in Nat /\ T[i].session \in Nat /\ i \in Nat
  BY RowTypes DEF RowsIn
<1> QED
  BY <1>1, <1>2, <1>3, <1>4 DEF VisitorsOf, SessionsOf

\* The first row of a session, and its visitor.
LEMMA First ==
  ASSUME NEW T, Table(T), NEW S, RowsIn(T, S), NEW s \in SessionsOf(T, S)
  PROVE  /\ FirstRow(T, S, s) \in S /\ FirstRow(T, S, s) \in Nat
         /\ T[FirstRow(T, S, s)].session = s
         /\ \A i \in S : T[i].session = s =>
              /\ T[FirstRow(T, S, s)].at <= T[i].at /\ Visitor(T, S, s) = T[i].visitor
         /\ Visitor(T, S, s) \in VisitorsOf(T, S)
         /\ Visitor(T, S, s) = T[FirstRow(T, S, s)].visitor
<1> DEFINE K == RowsOf(T, S, s)
           m == FirstRow(T, S, s)
           N == {T[i].nth : i \in K}
<1>1. K \subseteq S /\ K \subseteq Nat /\ K # {}
  BY Selected DEF RowsOf, SessionsOf
<1>0. \A i \in K : i \in 1 .. Len(T) /\ T[i].nth \in Nat /\ T[i].at \in Nat
  BY <1>1, RowTypes DEF RowsIn
<1>2. m \in K /\ \A i \in K : ~ Before(T, i, m)
  <2>1. N \subseteq Nat /\ N # {}
    BY <1>0, <1>1
  <2>2. Min(N) \in N /\ \A y \in N : Min(N) <= y
    <3> HIDE DEF N
    <3> QED BY <2>1, Least
  <2>3. PICK k \in K : Min(N) = T[k].nth
    BY <2>2
  <2>4. \A i \in K : ~ (T[i].nth < T[k].nth)
    <3> SUFFICES ASSUME NEW i \in K PROVE ~ (T[i].nth < T[k].nth)
      OBVIOUS
    <3>1. T[i].nth \in N /\ T[k].nth <= T[i].nth
      BY <2>2, <2>3
    <3> HIDE DEF N, K
    <3> QED BY <1>0, <3>1
  <2>5. \E x \in K : \A i \in K : ~ Before(T, i, x)
    BY <2>4 DEF Before
  <2>6. m = CHOOSE x \in K : \A i \in K : ~ Before(T, i, x)
    BY DEF FirstRow
  <2> HIDE DEF m, K, N
  <2> QED BY <2>5, <2>6
<1>3. /\ m \in S /\ m \in Nat /\ T[m].session = s
      /\ \A i \in S : T[i].session = s => T[m].at <= T[i].at
  <2>1. m \in S /\ m \in Nat /\ T[m].session = s
    BY <1>1, <1>2 DEF RowsOf
  <2>2. ASSUME NEW i \in K PROVE T[m].at <= T[i].at
    <3>1. ~ (T[i].nth < T[m].nth) /\ T[i].at \in Nat /\ T[m].at \in Nat
      BY <1>0, <1>2 DEF Before
    <3>2. i # m /\ T[i].at < T[m].at => T[i].nth < T[m].nth
      BY <1>0, <1>2 DEF Table
    <3> HIDE DEF m
    <3> QED BY <3>1, <3>2
  <2>3. \A i \in S : T[i].session = s => i \in K
    BY DEF RowsOf
  <2> HIDE DEF m, K
  <2> QED BY <2>1, <2>2, <2>3
<1> DEFINE v == Visitor(T, S, s)
           W == VisitorsOf(T, K)
<1>4. W \subseteq Nat /\ W # {}
  <2>1. RowsIn(T, K)
    BY <1>1 DEF RowsIn
  <2>2. W \subseteq Nat
    BY <2>1, Selected
  <2>3. W # {}
    BY <1>1 DEF VisitorsOf
  <2> QED BY <2>2, <2>3
<1>5. v \in W
  <2>1. v = Min(W)
    BY DEF Visitor
  <2> HIDE DEF v, W
  <2> QED BY <1>4, <2>1, Least
<1>6. PICK k \in K : v = T[k].visitor
  BY <1>5 DEF VisitorsOf
<1>7. \A i \in S : T[i].session = s => v = T[i].visitor
  <2>1. k \in 1 .. Len(T) /\ T[k].session = s
    BY <1>1, <1>6 DEF RowsOf, RowsIn
  <2> QED BY <1>6, <2>1 DEF Log, RowsIn
<1>8. v \in VisitorsOf(T, S)
  BY <1>1, <1>6 DEF VisitorsOf
<1> QED
  BY <1>3, <1>7, <1>8

\* There are as many first rows as sessions.
LEMMA FirstOfEach ==
  ASSUME NEW T, Table(T), NEW S, RowsIn(T, S)
  PROVE  /\ Firsts(T, S) \subseteq S
         /\ Cardinality(Firsts(T, S)) = Cardinality(SessionsOf(T, S))
<1> DEFINE f == [s \in SessionsOf(T, S) |-> FirstRow(T, S, s)]
           F == Firsts(T, S)
           D == SessionsOf(T, S)
<1>1. F = ImageOf(f, D)
  BY DEF Firsts, ImageOf
<1>2. \A s \in D : f[s] \in S /\ T[f[s]].session = s
  <2> SUFFICES ASSUME NEW s \in D PROVE FirstRow(T, S, s) \in S /\ T[FirstRow(T, S, s)].session = s
    OBVIOUS
  <2>1. s \in SessionsOf(T, S)
    OBVIOUS
  <2> HIDE DEF D, F, f
  <2> QED BY <2>1, First
<1>3. IsFiniteSet(D)
  BY Selected
<1> HIDE DEF f, F, D
<1>4. \A s, u \in D : f[s] = f[u] => s = u
  <2> SUFFICES ASSUME NEW s \in D, NEW u \in D, f[s] = f[u] PROVE s = u
    OBVIOUS
  <2>1. T[f[s]].session = s /\ T[f[u]].session = u
    BY <1>2
  <2> QED BY <2>1
<1>5. Cardinality(F) = Cardinality(D)
  BY <1>1, <1>3, <1>4, OneToOne
<1>6. F \subseteq S
  BY <1>1, <1>2 DEF ImageOf
<1> QED
  BY <1>5, <1>6 DEF F, D

\* A visitor has one session at the least.
LEMMA VisitorsAndSessions ==
  ASSUME NEW T, Table(T), NEW S, RowsIn(T, S)
  PROVE  Cardinality(VisitorsOf(T, S)) <= Cardinality(SessionsOf(T, S))
<1> DEFINE f == [s \in SessionsOf(T, S) |-> Visitor(T, S, s)]
           V == VisitorsOf(T, S)
           D == SessionsOf(T, S)
<1>1. \A s \in D : f[s] \in V
  BY First
<1>2. ASSUME NEW v \in V PROVE \E s \in D : f[s] = v
  <2>1. PICK i \in S : v = T[i].visitor
    BY DEF VisitorsOf
  <2>2. T[i].session \in SessionsOf(T, S)
    BY DEF SessionsOf
  <2>3. Visitor(T, S, T[i].session) = v
    <3> HIDE DEF D, V, f
    <3> QED BY <2>1, <2>2, First
  <2> QED BY <2>2, <2>3
<1>3. IsFiniteSet(D)
  BY Selected
<1> HIDE DEF f, V, D
<1>4. V = ImageOf(f, D)
  BY <1>1, <1>2 DEF ImageOf
<1>5. Cardinality(V) <= Cardinality(D)
  BY <1>3, <1>4, Image
<1> QED
  BY <1>5 DEF V, D

\* The rows of a range, in a table and in the table it has grown to.
LEMMA InRange ==
  ASSUME NEW T, Log(T), NEW r
  PROVE  RowsIn(T, Ev(T, r))
BY DEF RowsIn, Ev

\* A range keeps its rows, and gets only later ones.
LEMMA Growth ==
  ASSUME NEW T, NEW U, Grown(T, U), NEW r
  PROVE  /\ Ev(T, r) \subseteq Ev(U, r)
         /\ \A i \in Ev(U, r) : i <= Len(T) => i \in Ev(T, r)
         /\ \A i \in Ev(T, r) : Same(T[i], U[i]) /\ i <= Len(T) /\ i \in Nat
<1>1. Len(T) \in Nat /\ Len(U) \in Nat
  BY RowTypes DEF Grown
<1> QED
  BY <1>1 DEF Grown, Ev, Same

\* What was counted is still counted.
LEMMA MoreCounted ==
  ASSUME NEW T, NEW U, Grown(T, U), NEW r, NEW type, NEW names
  PROVE  /\ VisitorsOf(T, Ev(T, r)) \subseteq VisitorsOf(U, Ev(U, r))
         /\ SessionsOf(T, Ev(T, r)) \subseteq SessionsOf(U, Ev(U, r))
         /\ OfType(T, Ev(T, r), type) \subseteq OfType(U, Ev(U, r), type)
         /\ Named(T, Ev(T, r), names) \subseteq Named(U, Ev(U, r), names)
BY Growth DEF VisitorsOf, SessionsOf, OfType, Named, Same

\* Who converted has converted.
LEMMA StillConverted ==
  ASSUME NEW T, NEW U, Grown(T, U), NEW r, NEW s \in SessionsOf(T, Ev(T, r)),
         Converted(T, Ev(T, r), s)
  PROVE  s \in SessionsOf(U, Ev(U, r)) /\ Converted(U, Ev(U, r), s)
<1>1. s \in SessionsOf(U, Ev(U, r))
  BY MoreCounted
<1> QED
  BY <1>1, Growth DEF Converted, Named, OfType, RowsOf, Same
-----------------------------------------------------------------------------
(* The list of sessions.                                                   *)

\* The sessions that come before s in the list.
Ahead(T, q) ==
  [s \in Matching(T, q) |->
     {u \in Matching(T, q) : Before(T, FirstRow(T, Ev(T, q.range), s), FirstRow(T, Ev(T, q.range), u))}]

\* How many of them there are: the place of s in the list.
Rank(T, q, s) == Cardinality(Ahead(T, q)[s])

\* They order the sessions: no two have the same place, and none has itself ahead.
LEMMA ListOrder ==
  ASSUME NEW T, Table(T), NEW q
  PROVE  InRow(Matching(T, q), Ahead(T, q))
<1> DEFINE S == Ev(T, q.range)
           M == Matching(T, q)
           A == Ahead(T, q)
           first(s) == FirstRow(T, S, s)
<1>1. RowsIn(T, S)
  BY InRange DEF Table
<1>2. M \subseteq SessionsOf(T, S)
  BY DEF Matching
<1>3. IsFiniteSet(M)
  BY <1>1, <1>2, Selected, Within
<1>4. A = [s \in M |-> {u \in M : T[first(s)].nth < T[first(u)].nth}]
  BY DEF Ahead, Before
<1>5. \A s \in M : first(s) \in S /\ T[first(s)].session = s
  BY <1>1, <1>2, First
<1>11. \A i, j \in S : T[i].nth \in Nat /\ (i # j => T[i].nth # T[j].nth)
  BY <1>1, RowTypes DEF RowsIn, Table
<1> HIDE DEF S, M, A, first
<1>12. \A s \in M : T[first(s)].nth \in Nat
  BY <1>5, <1>11
<1>6. A \in [M -> SUBSET M]
  BY <1>4
<1>7. \A s \in M : s \notin A[s]
  BY <1>4, <1>12
<1>8. ASSUME NEW s \in M, NEW u \in M, u \in A[s] PROVE A[u] \subseteq A[s]
  <2>1. T[first(s)].nth < T[first(u)].nth
    BY <1>4, <1>8
  <2>2. ASSUME NEW w \in A[u] PROVE w \in A[s]
    <3>1. w \in M /\ T[first(u)].nth < T[first(w)].nth
      BY <1>4, <2>2
    <3>2. T[first(s)].nth < T[first(w)].nth
      BY <1>12, <2>1, <3>1
    <3> QED BY <1>4, <3>1, <3>2
  <2> QED BY <2>2
<1>9. ASSUME NEW s \in M, NEW u \in M, s # u PROVE s \in A[u] \/ u \in A[s]
  <2>1. first(s) # first(u)
    BY <1>5, <1>9
  <2>2. T[first(s)].nth # T[first(u)].nth
    BY <1>5, <1>11, <2>1
  <2>3. T[first(s)].nth < T[first(u)].nth \/ T[first(u)].nth < T[first(s)].nth
    BY <1>12, <2>2
  <2> QED BY <1>4, <2>3
<1>10. InRow(M, A)
  BY <1>3, <1>6, <1>7, <1>8, <1>9 DEF InRow
<1> QED
  BY <1>10 DEF M, A

\* A page is the sessions of its places, OFFSET and LIMIT.
LEMMA PageIsSlice ==
  ASSUME NEW T, NEW q
  PROVE  /\ Page(T, q) = Slice(Matching(T, q), Ahead(T, q), q.offset, q.limit)
         /\ \A s \in Matching(T, q) :
              s \in Page(T, q) <=> q.offset <= Rank(T, q, s) /\ Rank(T, q, s) < q.offset + q.limit
BY DEF Page, Slice, Ahead, Rank

\* How long a page is, and how far down a session can be.
LEMMA PageSize ==
  ASSUME NEW T, Table(T), NEW q, q.offset \in Nat, q.limit \in Nat
  PROVE  /\ IsFiniteSet(Page(T, q)) /\ Cardinality(Matching(T, q)) \in Nat
         /\ Cardinality(Page(T, q)) =
              IF Cardinality(Matching(T, q)) - q.offset > q.limit THEN q.limit
              ELSE IF Cardinality(Matching(T, q)) > q.offset
                   THEN Cardinality(Matching(T, q)) - q.offset ELSE 0
         /\ \A s \in Matching(T, q) : Rank(T, q, s) \in 0 .. Cardinality(Matching(T, q)) - 1
BY ListOrder, PageIsSlice, SliceSize DEF Rank

\* Row i is the earliest of its session among S, maybe with others.
OpensIn(T, S, i) == \A j \in RowsOf(T, S, T[i].session) : T[i].at <= T[j].at

\* No two rows of one instant begin sessions of the range.
ApartIn(T, r) ==
  LET S == Ev(T, r)
  IN \A i, j \in S : (OpensIn(T, S, i) /\ OpensIn(T, S, j) /\ T[i].at = T[j].at) => i = j

\* No row that came after the first n moved its session's start.
KeptIn(T, r, n) ==
  \A j \in Ev(T, r) :
    LET known == {i \in RowsOf(T, Ev(T, r), T[j].session) : i < j}
    IN (j > n /\ known # {}) => \E i \in known : T[i].at < T[j].at

\* What Steady says, of any table.
SteadyIn(T, r, n) == ApartIn(T, r) /\ KeptIn(T, r, n)

\* U is T, or T and one row more.
OneAtMost(T, U) == Grown(T, U) /\ Len(U) <= Len(T) + 1

\* What is steady with a new row was steady without it.
LEMMA SteadyBefore ==
  ASSUME NEW T, NEW U, OneAtMost(T, U), NEW r, NEW n \in Nat, n <= Len(T), SteadyIn(U, r, n)
  PROVE  SteadyIn(T, r, n)
<1> DEFINE S == Ev(T, r)
           V == Ev(U, r)
<1>1. /\ S \subseteq V /\ \A i \in V : i <= Len(T) => i \in S
      /\ \A i \in S : Same(T[i], U[i]) /\ i <= Len(T) /\ i \in Nat
  BY Growth DEF OneAtMost
<1>2. /\ Len(T) \in Nat /\ Len(U) \in Nat /\ Len(U) <= Len(T) + 1
      /\ \A i \in V : i \in 1 .. Len(U) /\ U[i].at \in Nat
  BY RowTypes DEF OneAtMost, Grown, Ev
<1>3. /\ \A i, j \in V : OpensIn(U, V, i) /\ OpensIn(U, V, j) /\ U[i].at = U[j].at => i = j
      /\ \A j \in V : \A k \in V : (j > n /\ U[k].session = U[j].session /\ k < j) =>
           \E i \in V : U[i].session = U[j].session /\ i < j /\ U[i].at < U[j].at
  BY DEF SteadyIn, ApartIn, KeptIn, RowsOf
<1>4. \A i \in S : T[i].session = U[i].session /\ T[i].at = U[i].at
  BY <1>1 DEF Same
<1> HIDE DEF S, V
<1>5. ASSUME NEW i \in S, OpensIn(T, S, i) PROVE OpensIn(U, V, i)
  <2>1. \A j \in S : U[j].session = U[i].session => U[i].at <= U[j].at
    BY <1>4, <1>5 DEF OpensIn, RowsOf
  <2>2. ASSUME NEW j \in V, U[j].session = U[i].session PROVE U[i].at <= U[j].at
    <3>1. CASE j <= Len(T)
      BY <1>1, <2>1, <2>2, <3>1
    <3>2. CASE ~ (j <= Len(T))
      <4>1. j = Len(T) + 1 /\ j > n /\ i < j /\ i \in V
        BY <1>1, <1>2, <3>2
      <4>2. PICK k \in V : U[k].session = U[j].session /\ k < j /\ U[k].at < U[j].at
        BY <1>3, <2>2, <4>1
      <4>3. k \in S
        BY <1>1, <1>2, <4>1, <4>2
      <4>4. U[i].at <= U[k].at
        BY <2>1, <2>2, <4>2, <4>3
      <4> QED BY <1>2, <4>1, <4>2, <4>4
    <3> QED BY <3>1, <3>2
  <2> QED BY <2>2 DEF OpensIn, RowsOf
<1>6. ASSUME NEW i \in S, NEW j \in S, OpensIn(T, S, i), OpensIn(T, S, j), T[i].at = T[j].at
      PROVE  i = j
  BY <1>1, <1>3, <1>4, <1>5, <1>6
<1>7. ASSUME NEW j \in S, NEW k \in S, j > n, T[k].session = T[j].session, k < j
      PROVE  \E i \in S : T[i].session = T[j].session /\ i < j /\ T[i].at < T[j].at
  <2>1. PICK i \in V : U[i].session = U[j].session /\ i < j /\ U[i].at < U[j].at
    BY <1>1, <1>3, <1>4, <1>7
  <2>2. i \in S
    BY <1>1, <1>2, <2>1
  <2> QED BY <1>4, <2>1, <2>2
<1>8. ApartIn(T, r)
  BY <1>6 DEF ApartIn, S
<1>9. KeptIn(T, r, n)
  <2> SUFFICES ASSUME NEW j \in S, j > n, NEW k \in RowsOf(T, S, T[j].session), k < j
               PROVE  \E i \in {l \in RowsOf(T, S, T[j].session) : l < j} : T[i].at < T[j].at
    BY DEF KeptIn, S
  <2>1. k \in S /\ T[k].session = T[j].session
    BY DEF RowsOf
  <2>2. PICK i \in S : T[i].session = T[j].session /\ i < j /\ T[i].at < T[j].at
    BY <1>7, <2>1
  <2> QED BY <2>2 DEF RowsOf
<1> QED
  BY <1>8, <1>9 DEF SteadyIn

\* A session's first row stays the first, and the first rows stay in their order, sorted
\* as they may be.
LEMMA SameFirst ==
  ASSUME NEW T, Table(T), NEW U, Table(U), OneAtMost(T, U), NEW r, NEW n \in Nat, n <= Len(T),
         SteadyIn(U, r, n), NEW s \in SessionsOf(T, Ev(T, r))
  PROVE  /\ FirstRow(U, Ev(U, r), s) = FirstRow(T, Ev(T, r), s)
         /\ Same(T[FirstRow(T, Ev(T, r), s)], U[FirstRow(T, Ev(T, r), s)])
         /\ OpensIn(T, Ev(T, r), FirstRow(T, Ev(T, r), s))
<1> DEFINE S == Ev(T, r)
           V == Ev(U, r)
           m == FirstRow(T, S, s)
           p == FirstRow(U, V, s)
<1>1. /\ S \subseteq V /\ \A i \in V : i <= Len(T) => i \in S
      /\ \A i \in S : Same(T[i], U[i]) /\ i <= Len(T) /\ i \in Nat
  BY Growth DEF OneAtMost
<1>2. /\ Len(T) \in Nat /\ Len(U) \in Nat /\ Len(U) <= Len(T) + 1
      /\ \A i \in V : i \in 1 .. Len(U) /\ U[i].at \in Nat
  BY RowTypes DEF OneAtMost, Grown, Ev
<1>3. /\ \A j \in V : \A k \in V : (j > n /\ U[k].session = U[j].session /\ k < j) =>
           \E i \in V : U[i].session = U[j].session /\ i < j /\ U[i].at < U[j].at
  BY DEF SteadyIn, KeptIn, RowsOf
<1>4. \A i \in S : T[i].session = U[i].session /\ T[i].at = U[i].at
  BY <1>1 DEF Same
<1>5. m \in S /\ T[m].session = s /\ \A i \in S : T[i].session = s => T[m].at <= T[i].at
  BY InRange, First DEF Table
<1>6. p \in V /\ U[p].session = s /\ \A i \in V : U[i].session = s => U[p].at <= U[i].at
  <2>1. s \in SessionsOf(U, V)
    BY MoreCounted DEF OneAtMost
  <2> QED BY <2>1, InRange, First DEF Table
<1>7. \A i, j \in S : OpensIn(T, S, i) /\ OpensIn(T, S, j) /\ T[i].at = T[j].at => i = j
  BY SteadyBefore DEF SteadyIn, ApartIn
<1> HIDE DEF S, V, m, p
<1>8. p \in S
  <2>1. CASE p <= Len(T)
    BY <1>1, <1>6, <2>1
  <2>2. CASE ~ (p <= Len(T))
    <3>1. p = Len(T) + 1 /\ p > n /\ m < p /\ m \in V /\ U[m].session = U[p].session
      BY <1>1, <1>2, <1>4, <1>5, <1>6, <2>2
    <3>2. PICK k \in V : U[k].session = U[p].session /\ k < p /\ U[k].at < U[p].at
      BY <1>3, <1>6, <3>1
    <3>3. U[p].at <= U[k].at /\ U[p].at \in Nat /\ U[k].at \in Nat
      BY <1>2, <1>6, <3>2
    <3> QED BY <3>2, <3>3
  <2> QED BY <2>1, <2>2
<1>9. OpensIn(T, S, m)
  BY <1>5 DEF OpensIn, RowsOf
<1>10. OpensIn(T, S, p)
  <2>1. T[p].session = s /\ \A i \in S : T[i].session = s => T[p].at <= T[i].at
    BY <1>1, <1>4, <1>6, <1>8
  <2> QED BY <2>1 DEF OpensIn, RowsOf
<1>11. T[m].at = T[p].at
  <2>1. T[m].at <= T[p].at /\ T[p].at <= T[m].at
    BY <1>1, <1>4, <1>5, <1>6, <1>8
  <2>2. T[m].at \in Nat /\ T[p].at \in Nat
    BY <1>1, <1>2, <1>4, <1>5, <1>8
  <2> QED BY <2>1, <2>2
<1>12. m = p
  BY <1>5, <1>7, <1>8, <1>9, <1>10, <1>11
<1> QED
  BY <1>1, <1>5, <1>9, <1>12 DEF S, V, m, p

\* A list only grows, and pushes along what was in it.
LEMMA ListGrows ==
  ASSUME NEW T, Table(T), NEW U, Table(U), OneAtMost(T, U), NEW q, NEW n \in Nat, n <= Len(T),
         SteadyIn(U, q.range, n)
  PROVE  /\ Matching(T, q) \subseteq Matching(U, q)
         /\ Cardinality(Matching(T, q)) <= Cardinality(Matching(U, q))
         /\ \A s \in Matching(T, q) : Rank(T, q, s) <= Rank(U, q, s)
<1> DEFINE S == Ev(T, q.range)
           V == Ev(U, q.range)
           first(s) == FirstRow(T, S, s)
<1>1. \A s \in SessionsOf(T, S) :
        /\ FirstRow(U, V, s) = first(s) /\ Same(T[first(s)], U[first(s)])
        /\ OpensIn(T, S, first(s))
  BY SameFirst
<1>2. Matching(T, q) \subseteq Matching(U, q)
  <2> SUFFICES ASSUME NEW s \in Matching(T, q) PROVE s \in Matching(U, q)
    OBVIOUS
  <2>1. /\ s \in SessionsOf(T, S) /\ (q.converted => Converted(T, S, s))
        /\ q.tag # 0 => T[first(s)].tag = q.tag
    BY DEF Matching
  <2>2. s \in SessionsOf(U, V) /\ (Converted(T, S, s) => Converted(U, V, s))
    <3>1. Grown(T, U)
      BY DEF OneAtMost
    <3> QED BY <2>1, <3>1, StillConverted, MoreCounted
  <2> HIDE DEF S, V, first
  <2>3. U[FirstRow(U, V, s)].tag = T[first(s)].tag
    BY <1>1, <2>1 DEF Same
  <2> QED BY <2>1, <2>2, <2>3 DEF Matching, V
<1>3. InRow(Matching(U, q), Ahead(U, q))
  BY ListOrder
<1>4. Cardinality(Matching(T, q)) <= Cardinality(Matching(U, q))
  BY <1>2, <1>3, Within DEF InRow
<1>6. ASSUME NEW s \in Matching(T, q), NEW u \in Matching(T, q), Before(T, first(s), first(u))
      PROVE  Before(U, FirstRow(U, V, s), FirstRow(U, V, u))
  <2>1. s \in SessionsOf(T, S) /\ u \in SessionsOf(T, S)
    BY DEF Matching
  <2>2. /\ first(s) \in S /\ first(u) \in S
        /\ first(s) \in 1 .. Len(T) /\ first(u) \in 1 .. Len(T)
    <3>1. first(s) \in S /\ first(u) \in S
      BY <2>1, InRange, First DEF Table
    <3> QED BY <3>1 DEF Ev
  <2>3. first(s) \in 1 .. Len(U) /\ first(u) \in 1 .. Len(U)
    <3>1. Len(T) \in Nat /\ Len(U) \in Nat /\ Len(T) <= Len(U)
      BY RowTypes DEF OneAtMost, Grown
    <3> HIDE DEF S, V, first
    <3> QED BY <2>2, <3>1
  <2>4. SteadyIn(T, q.range, n)
    BY SteadyBefore
  <2>5. OpensIn(T, S, first(s)) /\ OpensIn(T, S, first(u))
    BY <1>1, <2>1
  <2>6. T[first(s)].at = T[first(u)].at => first(s) = first(u)
    BY <2>2, <2>4, <2>5 DEF SteadyIn, ApartIn
  <2>7. T[first(s)].nth < T[first(u)].nth
    BY <1>6 DEF Before
  <2>8. U[first(s)].at = T[first(s)].at /\ U[first(u)].at = T[first(u)].at
    BY <1>1, <2>1 DEF Same
  <2> DEFINE a == first(s)
             b == first(u)
  <2>9. /\ a \in 1 .. Len(T) /\ b \in 1 .. Len(T) /\ a \in 1 .. Len(U) /\ b \in 1 .. Len(U)
        /\ T[a].at = T[b].at => a = b
        /\ T[a].nth < T[b].nth /\ U[a].at = T[a].at /\ U[b].at = T[b].at
    BY <2>2, <2>3, <2>6, <2>7, <2>8
  <2> HIDE DEF a, b
  <2>10. /\ T[a].nth \in Nat /\ T[b].nth \in Nat /\ T[a].at \in Nat /\ T[b].at \in Nat
    BY <2>9, RowTypes DEF Table
  <2>11. a # b
    BY <2>9, <2>10
  <2>12. T[a].at < T[b].at
    <3>1. T[b].at < T[a].at => T[b].nth < T[a].nth
      BY <2>9, <2>11 DEF Table
    <3> QED BY <2>9, <2>10, <2>11, <3>1
  <2>13. U[a].nth < U[b].nth
    BY <2>9, <2>11, <2>12 DEF Table
  <2> QED BY <1>1, <2>1, <2>13 DEF a, b, Before
<1>5. ASSUME NEW s \in Matching(T, q) PROVE Rank(T, q, s) <= Rank(U, q, s)
  <2>1. Ahead(T, q)[s] \subseteq Ahead(U, q)[s]
    BY <1>2, <1>5, <1>6 DEF Ahead
  <2>2. IsFiniteSet(Ahead(U, q)[s])
    <3>1. Ahead(U, q)[s] \subseteq Matching(U, q)
      BY <1>2, <1>5 DEF Ahead
    <3> QED BY <1>3, <3>1, Within DEF InRow
  <2> QED BY <2>1, <2>2, Within DEF Rank
<1> QED
  BY <1>2, <1>4, <1>5

\* Each element of S is counted under its key.
LEMMA Keyed ==
  ASSUME NEW S, IsFiniteSet(S), NEW key, NEW D, IsFiniteSet(D), \A i \in S : key[i] \in D
  PROVE  /\ Total([x \in D |-> Cardinality({i \in S : key[i] = x})]) = Cardinality(S)
         /\ \A x \in D : /\ Cardinality({i \in S : key[i] = x}) \in Nat
                         /\ Cardinality({i \in S : key[i] = x}) <= Cardinality(S)
<1> DEFINE A == [x \in D |-> {i \in S : key[i] = x}]
           c == [x \in D |-> Cardinality({i \in S : key[i] = x})]
<1>1. \A x \in D : IsFiniteSet(A[x]) /\ Cardinality(A[x]) \in Nat /\ Cardinality(A[x]) <= Cardinality(S)
  <2> SUFFICES ASSUME NEW x \in D
               PROVE  /\ IsFiniteSet({i \in S : key[i] = x})
                      /\ Cardinality({i \in S : key[i] = x}) \in Nat
                      /\ Cardinality({i \in S : key[i] = x}) <= Cardinality(S)
    OBVIOUS
  <2> DEFINE K == {i \in S : key[i] = x}
  <2>1. K \subseteq S
    OBVIOUS
  <2> HIDE DEF K
  <2>2. IsFiniteSet(K) /\ Cardinality(K) \in Nat /\ Cardinality(K) <= Cardinality(S)
    BY <2>1, Within
  <2> QED BY <2>2 DEF K
<1>2. DOMAIN c = D /\ \A x \in D : c[x] = Cardinality(A[x])
  OBVIOUS
<1>3. \A x, y \in D : x # y => A[x] \cap A[y] = {}
  OBVIOUS
<1>4. UNION {A[x] : x \in D} = S
  OBVIOUS
<1>5. \A x \in D : A[x] = {i \in S : key[i] = x}
  OBVIOUS
<1> HIDE DEF A, c
<1>6. Groups(c, A) /\ Together(c, A) = S
  BY <1>1, <1>2, <1>4 DEF Groups, Together
<1>7. Total(c) = Cardinality(S)
  BY <1>2, <1>3, <1>6, Partition
<1>8. \A x \in D : /\ Cardinality({i \in S : key[i] = x}) \in Nat
                   /\ Cardinality({i \in S : key[i] = x}) <= Cardinality(S)
  BY <1>1, <1>5
<1> QED
  BY <1>7, <1>8 DEF c

\* Counts by a number.
Counts(c) == IsFiniteSet(DOMAIN c) /\ DOMAIN c \subseteq Nat /\ c \in [DOMAIN c -> Nat]

\* A ranked list shows some of the counts, and all of them unless it is full.
LEMMA Shown ==
  ASSUME NEW c, Counts(c)
  PROVE  /\ DOMAIN Ranked(c) \subseteq DOMAIN c /\ \A t \in DOMAIN Ranked(c) : Ranked(c)[t] = c[t]
         /\ Cardinality(DOMAIN Ranked(c)) < TopRows => Ranked(c) = c
<1> DEFINE D == DOMAIN c
           B(t, u) == c[t] > c[u] \/ (c[t] = c[u] /\ t < u)
           A == [u \in D |-> {t \in D : B(t, u)}]
           Top == {u \in D : Cardinality({t \in D : B(t, u)}) < TopRows}
<1>1. Ranked(c) = [u \in Top |-> c[u]]
  BY DEF Ranked
<1>2. InRow(D, A)
  <2>1. \A t \in D : t \in Nat /\ c[t] \in Nat
    BY DEF Counts
  <2>2. \A t \in D : ~ B(t, t)
    BY <2>1
  <2>3. \A t, u, w \in D : B(t, u) /\ B(u, w) => B(t, w)
    BY <2>1
  <2>4. \A t, u \in D : t # u => B(t, u) \/ B(u, t)
    BY <2>1
  <2>5. IsFiniteSet(D)
    BY DEF Counts
  <2> HIDE DEF B, D
  <2> QED BY <2>2, <2>3, <2>4, <2>5 DEF InRow
<1>3. TopRows \in Nat
  BY AnalyticsAssumption
<1>4. Top = Slice(D, A, 0, TopRows)
  <2>1. \A u \in D : Cardinality(A[u]) \in Nat
    <3>1. \A u \in D : Cardinality(A[u]) \in 0 .. Cardinality(D) - 1
      <4> HIDE DEF A, D
      <4> QED BY <1>2, <1>3, SliceSize
    <3>2. \A u \in D : A[u] \subseteq D
      OBVIOUS
    <3> HIDE DEF A, D
    <3>3. \A u \in D : IsFiniteSet(A[u])
      BY <1>2, <3>2, Within DEF InRow
    <3> QED BY <3>3, FS_CardinalityType
  <2>2. \A u \in D : A[u] = {t \in D : B(t, u)}
    OBVIOUS
  <2> HIDE DEF A, B, D
  <2>3. \A u \in D : 0 <= Cardinality(A[u]) /\ 0 + TopRows = TopRows
    BY <1>3, <2>1
  <2> QED BY <2>2, <2>3 DEF Slice
<1>5. Cardinality(Top) < TopRows => Top = D
  <2> HIDE DEF A, D, Top
  <2>1. /\ Cardinality(Top) = IF Cardinality(D) - 0 > TopRows THEN TopRows
                              ELSE IF Cardinality(D) > 0 THEN Cardinality(D) - 0 ELSE 0
        /\ Cardinality(D) \in Nat
    BY <1>2, <1>3, <1>4, SliceSize
  <2>2. Cardinality(Top) < TopRows => Cardinality(Top) = Cardinality(D)
    BY <1>3, <2>1
  <2>3. Top \subseteq D /\ IsFiniteSet(D)
    BY <1>2, <1>4 DEF Slice, InRow
  <2> QED BY <2>2, <2>3, Within
<1>6. c = [u \in D |-> c[u]]
  BY DEF Counts
<1>7. Top \subseteq D
  OBVIOUS
<1> HIDE DEF Top
<1>8. DOMAIN Ranked(c) = Top /\ \A t \in Top : Ranked(c)[t] = c[t]
  BY <1>1
<1>9. Top = D => Ranked(c) = c
  BY <1>1, <1>6
<1> QED
  BY <1>5, <1>7, <1>8, <1>9
-----------------------------------------------------------------------------
(* The parts of an overview.                                               *)

\* Rows counted by tag: each is counted once.
LEMMA ByTag ==
  ASSUME NEW T, NEW S, RowsIn(T, S)
  PROVE  Counts(CountByTag(T, S)) /\ Total(CountByTag(T, S)) = Cardinality(S)
<1> DEFINE key == [i \in S |-> T[i].tag]
           D == {T[i].tag : i \in S}
<1>1. IsFiniteSet(S)
  BY Selected
<1>2. D = ImageOf(key, S)
  BY DEF ImageOf
<1>3. CountByTag(T, S) = [x \in D |-> Cardinality({i \in S : key[i] = x})]
  BY DEF CountByTag
<1>4. \A i \in S : key[i] \in D
  OBVIOUS
<1>5. D \subseteq Nat
  BY RowTypes DEF RowsIn
<1> HIDE DEF key, D
<1>6. IsFiniteSet(D)
  BY <1>1, <1>2, Image
<1>7. /\ Total([x \in D |-> Cardinality({i \in S : key[i] = x})]) = Cardinality(S)
      /\ \A x \in D : Cardinality({i \in S : key[i] = x}) \in Nat
  BY <1>1, <1>4, <1>6, Keyed
<1> QED
  BY <1>3, <1>5, <1>6, <1>7 DEF Counts

\* Visitors by tag: each is counted under one tag at the least, and once under each.
LEMMA VisitorsEach ==
  ASSUME NEW T, NEW S, RowsIn(T, S)
  PROVE  /\ Counts(VisitorsByTag(T, S))
         /\ Cardinality(VisitorsOf(T, S)) <= Total(VisitorsByTag(T, S))
         /\ Total(VisitorsByTag(T, S)) \in Nat
         /\ \A t \in DOMAIN VisitorsByTag(T, S) :
              VisitorsByTag(T, S)[t] <= Cardinality(VisitorsOf(T, S))
<1> DEFINE key == [i \in S |-> T[i].tag]
           D == {T[i].tag : i \in S}
           c == VisitorsByTag(T, S)
           A == [t \in D |-> VisitorsOf(T, {i \in S : T[i].tag = t})]
<1>1. IsFiniteSet(D)
  <2>1. D = ImageOf(key, S)
    BY DEF ImageOf
  <2>2. IsFiniteSet(S)
    BY Selected
  <2> HIDE DEF key, D
  <2> QED BY <2>1, <2>2, Image
<1>2. c = [t \in D |-> Cardinality(A[t])]
  BY DEF VisitorsByTag, Distinct
<1>3. D \subseteq Nat
  BY RowTypes DEF RowsIn
<1>4. UNION {A[t] : t \in D} = VisitorsOf(T, S)
  <2>1. \A t \in D : A[t] \subseteq VisitorsOf(T, S)
    BY DEF VisitorsOf
  <2>2. ASSUME NEW v \in VisitorsOf(T, S) PROVE \E t \in D : v \in A[t]
    <3>1. PICK i \in S : v = T[i].visitor
      BY DEF VisitorsOf
    <3>2. v \in VisitorsOf(T, {j \in S : T[j].tag = T[i].tag})
      BY <3>1 DEF VisitorsOf
    <3> QED BY <3>2
  <2> HIDE DEF A, D
  <2> QED BY <2>1, <2>2
<1>5. IsFiniteSet(VisitorsOf(T, S))
  BY Selected
<1> HIDE DEF key, D, c, A
<1>6. \A t \in D : A[t] \subseteq VisitorsOf(T, S)
  BY <1>4
<1>7. \A t \in D : /\ IsFiniteSet(A[t]) /\ Cardinality(A[t]) \in Nat
                   /\ Cardinality(A[t]) <= Cardinality(VisitorsOf(T, S))
  BY <1>5, <1>6, Within
<1>8. Groups(c, A) /\ Together(c, A) = VisitorsOf(T, S)
  BY <1>1, <1>2, <1>4, <1>7 DEF Groups, Together
<1>9. Cardinality(VisitorsOf(T, S)) <= Total(c) /\ Total(c) \in Nat
  BY <1>8, Cover
<1>10. Counts(c)
  BY <1>1, <1>2, <1>3, <1>7 DEF Counts
<1>11. \A t \in DOMAIN c : c[t] <= Cardinality(VisitorsOf(T, S))
  BY <1>2, <1>7
<1> QED
  BY <1>9, <1>10, <1>11 DEF c

\* The sessions of S that converted.
ConvertedOf(T, S) == {s \in SessionsOf(T, S) : Converted(T, S, s)}

\* The sessions that converted are those of the conversions.
LEMMA ConvertedNamed ==
  ASSUME NEW T, NEW S
  PROVE  ConvertedOf(T, S) = SessionsOf(T, Named(T, S, Conversions))
BY DEF ConvertedOf, Converted, SessionsOf, Named, OfType, RowsOf

\* Visitors by the tag of a session's first row.
VisitorsFrom(T, S, tags) ==
  [t \in tags |->
     Cardinality({Visitor(T, S, s) : s \in {u \in SessionsOf(T, S) : T[FirstRow(T, S, u)].tag = t}})]

\* They are counts, and finitely many.
LEMMA FromCounts ==
  ASSUME NEW T, Table(T), NEW S, RowsIn(T, S), NEW tags, tags \subseteq {T[i].tag : i \in Firsts(T, S)}
  PROVE  Counts(VisitorsFrom(T, S, tags))
<1> DEFINE tag == [i \in Firsts(T, S) |-> T[i].tag]
<1>1. IsFiniteSet(tags)
  <2>1. {T[i].tag : i \in Firsts(T, S)} = ImageOf(tag, Firsts(T, S))
    BY DEF ImageOf
  <2>2. RowsIn(T, Firsts(T, S))
    BY FirstOfEach DEF RowsIn
  <2>3. IsFiniteSet(Firsts(T, S))
    BY <2>2, Selected
  <2> HIDE DEF tag
  <2>4. IsFiniteSet(ImageOf(tag, Firsts(T, S)))
    BY <2>3, Image
  <2> QED BY <2>1, <2>4, Within
<1>2. tags \subseteq Nat
  <2>1. \A i \in Firsts(T, S) : T[i].tag \in Nat
    BY FirstOfEach, RowTypes DEF RowsIn
  <2> QED BY <2>1
<1>3. ASSUME NEW t \in tags
      PROVE  Cardinality({Visitor(T, S, s) : s \in {u \in SessionsOf(T, S) : T[FirstRow(T, S, u)].tag = t}})
               \in Nat
  <2> DEFINE K == {u \in SessionsOf(T, S) : T[FirstRow(T, S, u)].tag = t}
             f == [s \in K |-> Visitor(T, S, s)]
             I == {Visitor(T, S, s) : s \in K}
  <2>1. I = ImageOf(f, K)
    BY DEF ImageOf
  <2>2. IsFiniteSet(K)
    <3>1. IsFiniteSet(SessionsOf(T, S)) /\ K \subseteq SessionsOf(T, S)
      BY Selected
    <3> HIDE DEF K
    <3> QED BY <3>1, Within
  <2> HIDE DEF f, K, I
  <2>3. Cardinality(I) \in Nat
    BY <2>1, <2>2, Image
  <2> QED BY <2>3 DEF I, K
<1> QED
  BY <1>1, <1>2, <1>3 DEF Counts, VisitorsFrom

\* Converted sessions by the tag of their first row: each is counted once, if its tag is shown.
LEMMA ConvertedOnce ==
  ASSUME NEW T, Table(T), NEW S, RowsIn(T, S), NEW tags, tags \subseteq {T[i].tag : i \in Firsts(T, S)},
         NEW E, E = DOMAIN Ranked(VisitorsFrom(T, S, tags))
  PROVE  /\ Total(ByFirst(T, S, tags).conversions) =
              Cardinality({s \in ConvertedOf(T, S) : T[FirstRow(T, S, s)].tag \in E})
         /\ DOMAIN ByFirst(T, S, tags).conversions = E
         /\ Cardinality(E) < TopRows => E = tags
<1> DEFINE K == {s \in ConvertedOf(T, S) : T[FirstRow(T, S, s)].tag \in E}
           key == [s \in K |-> T[FirstRow(T, S, s)].tag]
           c == [t \in E |->
                  Cardinality({s \in {u \in SessionsOf(T, S) : T[FirstRow(T, S, u)].tag = t} :
                                 Converted(T, S, s)})]
<1>0. Counts(VisitorsFrom(T, S, tags)) /\ DOMAIN VisitorsFrom(T, S, tags) = tags
  BY FromCounts DEF VisitorsFrom
<1>1. ByFirst(T, S, tags).conversions = c
  BY DEF ByFirst, VisitorsFrom, Distinct
<1>2. \A t \in E : {s \in {u \in SessionsOf(T, S) : T[FirstRow(T, S, u)].tag = t} :
                         Converted(T, S, s)} = {s \in K : key[s] = t}
  BY DEF ConvertedOf
<1>3. c = [t \in E |-> Cardinality({s \in K : key[s] = t})]
  <2> HIDE DEF K, key
  <2> QED BY <1>2
<1>4. \A s \in K : key[s] \in E
  OBVIOUS
<1>5. IsFiniteSet(K)
  <2>1. K \subseteq SessionsOf(T, S)
    BY DEF ConvertedOf
  <2>2. IsFiniteSet(SessionsOf(T, S))
    BY Selected
  <2> HIDE DEF K
  <2> QED BY <2>1, <2>2, Within
<1>8. DOMAIN c = E
  OBVIOUS
<1> HIDE DEF K, key, c
<1>9. E \subseteq tags /\ (Cardinality(E) < TopRows => E = tags)
  BY <1>0, Shown
<1>6. IsFiniteSet(E)
  BY <1>0, <1>9, Within DEF Counts
<1>7. Total([t \in E |-> Cardinality({s \in K : key[s] = t})]) = Cardinality(K)
  BY <1>4, <1>5, <1>6, Keyed
<1> QED
  BY <1>1, <1>3, <1>7, <1>8, <1>9 DEF K

\* The rows of each day, and what is counted of them.
OfDay(T, S, d) == {i \in S : T[i].day = d}

\* Whatever is counted per day, is counted on one day at the least, and each day has no
\* more of it than all.
LEMMA EachDay ==
  ASSUME NEW r \in Days, NEW A, NEW B, IsFiniteSet(B),
         \A d \in r.from .. r.to : A[d] \subseteq B,
         \A x \in B : \E d \in r.from .. r.to : x \in A[d]
  PROVE  /\ Cardinality(B) <= Total([d \in r.from .. r.to |-> Cardinality(A[d])])
         /\ Cardinality(B) \in Nat
         /\ Total([d \in r.from .. r.to |-> Cardinality(A[d])]) \in Nat
         /\ \A d \in r.from .. r.to : Cardinality(A[d]) <= Cardinality(B)
<1> DEFINE D == r.from .. r.to
           c == [d \in D |-> Cardinality(A[d])]
<1>1. IsFiniteSet(D)
  <2>1. r.from \in Int /\ r.to \in Int
    BY DEF Days
  <2> QED BY <2>1, FS_Interval
<1>2. \A d \in D : IsFiniteSet(A[d]) /\ Cardinality(A[d]) <= Cardinality(B)
  BY Within
<1>3. DOMAIN c = D /\ \A d \in D : c[d] = Cardinality(A[d])
  OBVIOUS
<1>4. UNION {A[d] : d \in D} = B
  OBVIOUS
<1> HIDE DEF c, D
<1>5. Groups(c, A) /\ Together(c, A) = B
  BY <1>1, <1>2, <1>3, <1>4 DEF Groups, Together
<1>6. Cardinality(B) <= Total(c) /\ Total(c) \in Nat
  BY <1>5, Cover
<1> QED
  BY <1>2, <1>6, FS_CardinalityType DEF c, D

\* The days of a range.
LEMMA DaysOfRange ==
  ASSUME NEW T, Table(T), NEW r \in Days
  PROVE  /\ \A i \in Ev(T, r) : T[i].day \in r.from .. r.to
         /\ IsFiniteSet(r.from .. r.to)
<1>1. r.from \in Int /\ r.to \in Int
  BY DEF Days
<1>2. \A i \in Ev(T, r) : T[i].day \in Int /\ r.from <= T[i].day /\ T[i].day <= r.to
  BY RowTypes DEF Ev, Table
<1> QED
  BY <1>1, <1>2, FS_Interval

\* The points of a timeseries against the totals.
LEMMA Points ==
  ASSUME NEW T, Table(T), NEW r \in Days
  PROVE  /\ Sum(Timeseries(T, r), "pageviews") = Cardinality(OfType(T, Ev(T, r), "pageview"))
         /\ Cardinality(VisitorsOf(T, Ev(T, r))) <= Sum(Timeseries(T, r), "visitors")
         /\ Cardinality(SessionsOf(T, Ev(T, r))) <= Sum(Timeseries(T, r), "sessions")
         /\ Cardinality(ConvertedOf(T, Ev(T, r))) <= Sum(Timeseries(T, r), "conversions")
         /\ {Sum(Timeseries(T, r), "visitors"), Sum(Timeseries(T, r), "sessions"),
             Sum(Timeseries(T, r), "conversions")} \subseteq Nat
         /\ \A d \in DOMAIN Timeseries(T, r) :
              /\ Timeseries(T, r)[d].visitors <= Cardinality(VisitorsOf(T, Ev(T, r)))
              /\ Timeseries(T, r)[d].sessions <= Cardinality(SessionsOf(T, Ev(T, r)))
<1> DEFINE S == Ev(T, r)
           D == r.from .. r.to
           views == OfType(T, S, "pageview")
           key == [i \in views |-> T[i].day]
           leads == Named(T, S, Conversions)
           V == [d \in D |-> VisitorsOf(T, OfDay(T, S, d))]
           W == [d \in D |-> SessionsOf(T, OfDay(T, S, d))]
           C == [d \in D |-> SessionsOf(T, Named(T, OfDay(T, S, d), Conversions))]
<1>1. RowsIn(T, S) /\ \A i \in S : T[i].day \in D
  BY InRange, DaysOfRange DEF Table
<1>2. RowsIn(T, views) /\ RowsIn(T, leads) /\ \A i \in views : T[i].day \in D
  BY <1>1 DEF RowsIn, OfType, Named
<1>3. /\ Sum(Timeseries(T, r), "pageviews") = Total([d \in D |-> Cardinality({i \in views : key[i] = d})])
      /\ Sum(Timeseries(T, r), "visitors") = Total([d \in D |-> Cardinality(V[d])])
      /\ Sum(Timeseries(T, r), "sessions") = Total([d \in D |-> Cardinality(W[d])])
      /\ Sum(Timeseries(T, r), "conversions") = Total([d \in D |-> Cardinality(C[d])])
      /\ DOMAIN Timeseries(T, r) = D
      /\ \A d \in D : /\ Timeseries(T, r)[d].visitors = Cardinality(V[d])
                      /\ Timeseries(T, r)[d].sessions = Cardinality(W[d])
  <2> DEFINE ts == Timeseries(T, r)
  <2>1. DOMAIN ts = D
    BY DEF Timeseries
  <2>2. \A d \in D : /\ ts[d]["visitors"] = Cardinality(V[d])
                     /\ ts[d]["sessions"] = Cardinality(W[d])
                     /\ ts[d]["conversions"] = Cardinality(C[d])
    BY DEF Timeseries, Distinct, OfDay
  <2>3. \A d \in D : ts[d]["pageviews"] = Cardinality({i \in views : key[i] = d})
    <3>1. \A d \in D : {i \in views : key[i] = d} = OfType(T, OfDay(T, S, d), "pageview")
      BY DEF OfType, OfDay
    <3>2. \A d \in D : ts[d]["pageviews"] = Cardinality(OfType(T, OfDay(T, S, d), "pageview"))
      BY DEF Timeseries, OfDay
    <3> HIDE DEF ts, D, views, key, S
    <3> QED BY <3>1, <3>2
  <2> HIDE DEF ts, D, V, W, C, views, key, S
  <2>4. /\ [d \in D |-> ts[d]["pageviews"]] = [d \in D |-> Cardinality({i \in views : key[i] = d})]
        /\ [d \in D |-> ts[d]["visitors"]] = [d \in D |-> Cardinality(V[d])]
        /\ [d \in D |-> ts[d]["sessions"]] = [d \in D |-> Cardinality(W[d])]
        /\ [d \in D |-> ts[d]["conversions"]] = [d \in D |-> Cardinality(C[d])]
    BY <2>2, <2>3
  <2>5. /\ Sum(ts, "pageviews") = Total([d \in D |-> Cardinality({i \in views : key[i] = d})])
        /\ Sum(ts, "visitors") = Total([d \in D |-> Cardinality(V[d])])
        /\ Sum(ts, "sessions") = Total([d \in D |-> Cardinality(W[d])])
        /\ Sum(ts, "conversions") = Total([d \in D |-> Cardinality(C[d])])
    <3>1. \A f : Sum(ts, f) = Total([d \in D |-> ts[d][f]])
      BY <2>1 DEF Sum
    <3> QED BY <2>4, <3>1
  <2>6. \A d \in D : ts[d].visitors = Cardinality(V[d]) /\ ts[d].sessions = Cardinality(W[d])
    BY <2>2
  <2> QED BY <2>1, <2>5, <2>6 DEF ts
<1>4. \A i \in views : key[i] \in D
  BY <1>2
<1>5. /\ \A d \in D : V[d] \subseteq VisitorsOf(T, S)
      /\ \A x \in VisitorsOf(T, S) : \E d \in D : x \in V[d]
  <2>1. \A d \in D : V[d] \subseteq VisitorsOf(T, S)
    BY DEF VisitorsOf, OfDay
  <2>2. ASSUME NEW x \in VisitorsOf(T, S) PROVE \E d \in D : x \in V[d]
    <3>1. PICK i \in S : x = T[i].visitor
      BY DEF VisitorsOf
    <3>2. x \in VisitorsOf(T, OfDay(T, S, T[i].day)) /\ T[i].day \in D
      BY <1>1, <3>1 DEF VisitorsOf, OfDay
    <3> HIDE DEF D, S
    <3> QED BY <3>2
  <2> HIDE DEF V, D, S
  <2> QED BY <2>1, <2>2
<1>6. /\ \A d \in D : W[d] \subseteq SessionsOf(T, S)
      /\ \A x \in SessionsOf(T, S) : \E d \in D : x \in W[d]
  <2>1. \A d \in D : W[d] \subseteq SessionsOf(T, S)
    BY DEF SessionsOf, OfDay
  <2>2. ASSUME NEW x \in SessionsOf(T, S) PROVE \E d \in D : x \in W[d]
    <3>1. PICK i \in S : x = T[i].session
      BY DEF SessionsOf
    <3>2. x \in SessionsOf(T, OfDay(T, S, T[i].day)) /\ T[i].day \in D
      BY <1>1, <3>1 DEF SessionsOf, OfDay
    <3> HIDE DEF D, S
    <3> QED BY <3>2
  <2> HIDE DEF W, D, S
  <2> QED BY <2>1, <2>2
<1>7. /\ \A d \in D : C[d] \subseteq SessionsOf(T, leads)
      /\ \A x \in SessionsOf(T, leads) : \E d \in D : x \in C[d]
  <2>1. \A d \in D : C[d] \subseteq SessionsOf(T, leads)
    BY DEF SessionsOf, OfDay, Named, OfType
  <2>2. ASSUME NEW x \in SessionsOf(T, leads) PROVE \E d \in D : x \in C[d]
    <3>1. PICK i \in leads : x = T[i].session
      BY DEF SessionsOf
    <3>2. i \in S
      BY DEF Named, OfType
    <3>3. i \in Named(T, OfDay(T, S, T[i].day), Conversions)
      BY DEF Named, OfType, OfDay
    <3>4. x \in SessionsOf(T, Named(T, OfDay(T, S, T[i].day), Conversions)) /\ T[i].day \in D
      BY <1>1, <3>1, <3>2, <3>3 DEF SessionsOf
    <3> HIDE DEF D, S, leads
    <3> QED BY <3>4
  <2> HIDE DEF C, D, S, leads
  <2> QED BY <2>1, <2>2
<1>8. /\ IsFiniteSet(VisitorsOf(T, S)) /\ IsFiniteSet(SessionsOf(T, S))
      /\ IsFiniteSet(SessionsOf(T, leads)) /\ IsFiniteSet(views) /\ IsFiniteSet(D)
  BY <1>1, <1>2, Selected, DaysOfRange
<1>9. ConvertedOf(T, S) = SessionsOf(T, leads)
  BY ConvertedNamed
<1> HIDE DEF key, views, leads, V, W, C, S
<1>10. Total([d \in D |-> Cardinality({i \in views : key[i] = d})]) = Cardinality(views)
  <2> HIDE DEF D
  <2> QED BY <1>4, <1>8, Keyed
<1>11. /\ Cardinality(VisitorsOf(T, S)) <= Total([d \in D |-> Cardinality(V[d])])
       /\ Total([d \in D |-> Cardinality(V[d])]) \in Nat
       /\ \A d \in D : Cardinality(V[d]) <= Cardinality(VisitorsOf(T, S))
  BY <1>5, <1>8, EachDay
<1>12. /\ Cardinality(SessionsOf(T, S)) <= Total([d \in D |-> Cardinality(W[d])])
       /\ Total([d \in D |-> Cardinality(W[d])]) \in Nat
       /\ \A d \in D : Cardinality(W[d]) <= Cardinality(SessionsOf(T, S))
  BY <1>6, <1>8, EachDay
<1>13. /\ Cardinality(SessionsOf(T, leads)) <= Total([d \in D |-> Cardinality(C[d])])
       /\ Total([d \in D |-> Cardinality(C[d])]) \in Nat
  BY <1>7, <1>8, EachDay
<1> HIDE DEF D
<1> QED
  BY <1>3, <1>9, <1>10, <1>11, <1>12, <1>13 DEF S, views

\* The heatmap holds every session once.
LEMMA Heat ==
  ASSUME NEW T, Table(T), NEW r \in Days
  PROVE  Total(Heatmap(T, r)) = Cardinality(SessionsOf(T, Ev(T, r)))
<1> DEFINE D == r.from .. r.to
           F == Firsts(T, Ev(T, r))
           key == [i \in F |-> T[i].day]
<1>1. RowsIn(T, Ev(T, r))
  BY InRange DEF Table
<1>2. F \subseteq Ev(T, r) /\ Cardinality(F) = Cardinality(SessionsOf(T, Ev(T, r)))
  BY <1>1, FirstOfEach
<1>3. IsFiniteSet(F)
  BY <1>1, <1>2, Selected, Within
<1>4. IsFiniteSet(D) /\ \A i \in F : key[i] \in D
  BY <1>2, DaysOfRange
<1>5. Heatmap(T, r) = [d \in D |-> Cardinality({i \in F : key[i] = d})]
  BY DEF Heatmap
<1> HIDE DEF D, F, key
<1>6. Total([d \in D |-> Cardinality({i \in F : key[i] = d})]) = Cardinality(F)
  BY <1>3, <1>4, Keyed
<1> QED
  BY <1>2, <1>5, <1>6

\* So does a breakdown of sessions, unless it is full.
LEMMA Devices ==
  ASSUME NEW T, Table(T), NEW r
  PROVE  Cardinality(DOMAIN SessionBreakdown(T, r)) < TopRows =>
           Total(SessionBreakdown(T, r)) = Cardinality(SessionsOf(T, Ev(T, r)))
<1> DEFINE F == Firsts(T, Ev(T, r))
<1>1. F \subseteq Ev(T, r) /\ Cardinality(F) = Cardinality(SessionsOf(T, Ev(T, r)))
  BY InRange, FirstOfEach DEF Table
<1>2. RowsIn(T, F)
  BY <1>1, InRange DEF RowsIn, Table
<1>3. SessionBreakdown(T, r) = Ranked(CountByTag(T, F))
  BY DEF SessionBreakdown
<1> HIDE DEF F
<1>4. Counts(CountByTag(T, F)) /\ Total(CountByTag(T, F)) = Cardinality(F)
  BY <1>2, ByTag
<1>5. Cardinality(DOMAIN Ranked(CountByTag(T, F))) < TopRows
        => Ranked(CountByTag(T, F)) = CountByTag(T, F)
  BY <1>4, Shown
<1> QED
  BY <1>1, <1>3, <1>4, <1>5

\* The sources and the campaigns hold no converted session twice, and the sources, unless
\* their list is full, all of them.
LEMMA Origins ==
  ASSUME NEW T, Table(T), NEW r
  PROVE  /\ Cardinality(DOMAIN Sources(T, r).conversions) < TopRows =>
              Total(Sources(T, r).conversions) = Cardinality(ConvertedOf(T, Ev(T, r)))
         /\ Total(Sources(T, r).conversions) <= Cardinality(ConvertedOf(T, Ev(T, r)))
         /\ Total(Campaigns(T, r).conversions) <= Cardinality(ConvertedOf(T, Ev(T, r)))
<1> DEFINE S == Ev(T, r)
           tags == {T[i].tag : i \in Firsts(T, S)}
           C == ConvertedOf(T, S)
           named == tags \ {0}
           E == DOMAIN Ranked(VisitorsFrom(T, S, tags))
           F == DOMAIN Ranked(VisitorsFrom(T, S, named))
           all == {s \in C : T[FirstRow(T, S, s)].tag \in E}
           some == {s \in C : T[FirstRow(T, S, s)].tag \in F}
<1>1. RowsIn(T, S)
  BY InRange DEF Table
<1>2. IsFiniteSet(C)
  <2>1. C \subseteq SessionsOf(T, S)
    BY DEF ConvertedOf
  <2> QED BY <1>1, <2>1, Selected, Within
<1>3. \A s \in C : T[FirstRow(T, S, s)].tag \in tags
  BY DEF ConvertedOf, Firsts
<1>4. Sources(T, r) = ByFirst(T, S, tags) /\ Campaigns(T, r) = ByFirst(T, S, named)
  BY DEF Sources, Campaigns
<1>5. tags \subseteq {T[i].tag : i \in Firsts(T, S)} /\ named \subseteq {T[i].tag : i \in Firsts(T, S)}
  OBVIOUS
<1>8. all \subseteq C /\ some \subseteq C /\ (E = tags => all = C)
  BY <1>3
<1> HIDE DEF S, tags, named, E, F
<1>6. /\ Total(ByFirst(T, S, tags).conversions) = Cardinality(all)
      /\ DOMAIN ByFirst(T, S, tags).conversions = E
      /\ Cardinality(E) < TopRows => E = tags
  BY <1>1, <1>5, ConvertedOnce DEF E
<1>9. Total(ByFirst(T, S, named).conversions) = Cardinality(some)
  BY <1>1, <1>5, ConvertedOnce DEF F
<1> HIDE DEF C, all, some
<1>7. Cardinality(some) <= Cardinality(C) /\ Cardinality(all) <= Cardinality(C)
  BY <1>2, <1>8, Within
<1> QED
  BY <1>4, <1>6, <1>7, <1>8, <1>9 DEF C, S

\* A list of leads holds every lead of its kind.
LEMMA Leads ==
  ASSUME NEW T, Table(T), NEW r, NEW name
  PROVE  Total(CustomEventBreakdown(T, r, name)) = Cardinality(Named(T, Ev(T, r), {name}))
<1>1. RowsIn(T, Named(T, Ev(T, r), {name}))
  BY InRange DEF RowsIn, Named, OfType, Table
<1> QED
  BY <1>1, ByTag DEF CustomEventBreakdown

\* The pages shown hold no pageview twice.
LEMMA Views ==
  ASSUME NEW T, Table(T), NEW r
  PROVE  Total(TopPages(T, r)) <= Cardinality(OfType(T, Ev(T, r), "pageview"))
<1> DEFINE B == OfType(T, Ev(T, r), "pageview")
           S == {i \in B : T[i].place # 0}
           key == [i \in S |-> T[i].place]
           D == {T[i].place : i \in S}
           c == [p \in D |-> Cardinality({i \in S : T[i].place = p})]
           top == Ranked(c)
           E == DOMAIN top
           K == {i \in S : T[i].place \in E}
           k == [i \in K |-> T[i].place]
<1>1. RowsIn(T, B) /\ RowsIn(T, S)
  BY InRange DEF RowsIn, OfType, Table
<1>2. IsFiniteSet(S) /\ IsFiniteSet(B)
  BY <1>1, Selected
<1>3. Counts(c)
  <2>1. c = [p \in D |-> Cardinality({i \in S : key[i] = p})] /\ D = ImageOf(key, S)
    BY DEF ImageOf
  <2>2. D \subseteq Nat
    BY <1>1, RowTypes DEF RowsIn
  <2>3. \A i \in S : key[i] \in D
    OBVIOUS
  <2> HIDE DEF S, key, D, c
  <2>4. IsFiniteSet(D)
    BY <1>2, <2>1, Image
  <2>5. /\ Total([p \in D |-> Cardinality({i \in S : key[i] = p})]) = Cardinality(S)
        /\ \A p \in D : Cardinality({i \in S : key[i] = p}) \in Nat
    BY <1>2, <2>3, <2>4, Keyed
  <2> QED BY <2>1, <2>2, <2>4, <2>5 DEF Counts
<1>4. TopPages(T, r) = top
  BY DEF TopPages
<1>5. E \subseteq D /\ \A p \in E : top[p] = c[p]
  <2>1. DOMAIN c = D
    OBVIOUS
  <2> HIDE DEF c, D
  <2> QED BY <1>3, <2>1, Shown
<1>6. top = [p \in E |-> Cardinality({i \in K : k[i] = p})]
  <2>1. top = [p \in E |-> top[p]]
    BY DEF Ranked
  <2>2. ASSUME NEW p \in E PROVE top[p] = Cardinality({i \in K : k[i] = p})
    <3>1. {i \in K : k[i] = p} = {i \in S : T[i].place = p}
      OBVIOUS
    <3>2. top[p] = c[p] /\ p \in D
      BY <1>5
    <3>3. c[p] = Cardinality({i \in S : T[i].place = p})
      BY <3>2
    <3> HIDE DEF top, c, K, S, E, D
    <3> QED BY <3>1, <3>2, <3>3
  <2> HIDE DEF top, E, K
  <2> QED BY <2>1, <2>2
<1>7. IsFiniteSet(K) /\ Cardinality(K) <= Cardinality(B)
  <2>1. K \subseteq B
    OBVIOUS
  <2> HIDE DEF K, B, S
  <2> QED BY <1>2, <2>1, Within
<1>8. IsFiniteSet(E)
  <2>1. IsFiniteSet(D)
    <3>1. DOMAIN c = D
      OBVIOUS
    <3> HIDE DEF c, D
    <3> QED BY <1>3, <3>1 DEF Counts
  <2> HIDE DEF D, E
  <2> QED BY <1>5, <2>1, Within
<1>9. \A i \in K : k[i] \in E
  OBVIOUS
<1> HIDE DEF top, E, K, k, c, D, S, B
<1>10. Total([p \in E |-> Cardinality({i \in K : k[i] = p})]) = Cardinality(K)
  BY <1>7, <1>8, <1>9, Keyed
<1> QED
  BY <1>4, <1>6, <1>7, <1>10 DEF B

\* Visitors by language, unless the list is full, and by country.
LEMMA Groups2 ==
  ASSUME NEW T, Table(T), NEW r
  PROVE  /\ Cardinality(DOMAIN BrowserLanguages(T, r)) < TopRows =>
              /\ Cardinality(VisitorsOf(T, Ev(T, r))) <= Total(BrowserLanguages(T, r))
              /\ Total(BrowserLanguages(T, r)) \in Nat
         /\ \A t \in DOMAIN Locations(T, r) : Locations(T, r)[t] <= Cardinality(VisitorsOf(T, Ev(T, r)))
<1> DEFINE S == Ev(T, r)
           K == {i \in S : T[i].tag # 0}
           a == VisitorsByTag(T, S)
           b == VisitorsByTag(T, K)
<1>1. RowsIn(T, S)
  BY InRange DEF Table
<1>2. RowsIn(T, K)
  BY <1>1 DEF RowsIn
<1>3. BrowserLanguages(T, r) = Ranked(a) /\ Locations(T, r) = Ranked(b)
  BY DEF BrowserLanguages, Locations
<1>4. VisitorsOf(T, K) \subseteq VisitorsOf(T, S)
  BY DEF VisitorsOf
<1>5. /\ Cardinality(VisitorsOf(T, K)) <= Cardinality(VisitorsOf(T, S))
      /\ Cardinality(VisitorsOf(T, K)) \in Nat /\ Cardinality(VisitorsOf(T, S)) \in Nat
  <2>1. IsFiniteSet(VisitorsOf(T, S))
    BY <1>1, Selected
  <2> HIDE DEF K, S
  <2> QED BY <1>4, <2>1, Within
<1> HIDE DEF S, K
<1>6. Counts(a) /\ Cardinality(VisitorsOf(T, S)) <= Total(a) /\ Total(a) \in Nat
  BY <1>1, VisitorsEach
<1>7. Counts(b) /\ \A t \in DOMAIN b : b[t] <= Cardinality(VisitorsOf(T, K))
  BY <1>2, VisitorsEach
<1> HIDE DEF a, b
<1>8. Cardinality(DOMAIN Ranked(a)) < TopRows => Ranked(a) = a
  BY <1>6, Shown
<1>9. DOMAIN Ranked(b) \subseteq DOMAIN b /\ \A t \in DOMAIN Ranked(b) : Ranked(b)[t] = b[t]
  BY <1>7, Shown
<1>10. \A t \in DOMAIN b : b[t] \in Nat
  BY <1>7 DEF Counts
<1>11. \A t \in DOMAIN Ranked(b) : Ranked(b)[t] <= Cardinality(VisitorsOf(T, S))
  <2> SUFFICES ASSUME NEW t \in DOMAIN Ranked(b) PROVE b[t] <= Cardinality(VisitorsOf(T, S))
    BY <1>9
  <2> QED BY <1>5, <1>7, <1>9, <1>10
<1> QED
  BY <1>3, <1>6, <1>8, <1>11 DEF S

\* Of the sessions, those that came to a section or to a depth.
LEMMA Reached ==
  ASSUME NEW T, Table(T), NEW r
  PROVE  /\ \A x \in DOMAIN Funnel(T, r) : Funnel(T, r)[x] <= Cardinality(SessionsOf(T, Ev(T, r)))
         /\ \A d \in DOMAIN ScrollDepth(T, r) : ScrollDepth(T, r)[d] <= Cardinality(SessionsOf(T, Ev(T, r)))
<1> DEFINE S == Ev(T, r)
<1>1. IsFiniteSet(SessionsOf(T, S))
  BY InRange, Selected DEF Table
<1>2. \A K : K \subseteq S => Cardinality(SessionsOf(T, K)) <= Cardinality(SessionsOf(T, S))
  <2> SUFFICES ASSUME NEW K, K \subseteq S
               PROVE  Cardinality(SessionsOf(T, K)) <= Cardinality(SessionsOf(T, S))
    OBVIOUS
  <2>1. SessionsOf(T, K) \subseteq SessionsOf(T, S)
    BY DEF SessionsOf
  <2> QED BY <1>1, <2>1, Within
<1>3. ASSUME NEW x PROVE {i \in OfType(T, S, "section_view") : T[i].place = x} \subseteq S
  BY DEF OfType
<1>4. ASSUME NEW d PROVE {i \in Named(T, S, {"scroll_depth"}) : T[i].num >= d} \subseteq S
  BY DEF OfType, Named
<1>5. ASSUME NEW x \in DOMAIN Funnel(T, r)
      PROVE  Funnel(T, r)[x] <= Cardinality(SessionsOf(T, S))
  <2> DEFINE K == {i \in OfType(T, S, "section_view") : T[i].place = x}
  <2>1. Funnel(T, r)[x] = Cardinality(SessionsOf(T, K))
    BY DEF Funnel, Distinct
  <2>2. K \subseteq S
    BY <1>3
  <2> HIDE DEF K, S
  <2> QED BY <1>2, <2>1, <2>2
<1>6. ASSUME NEW d \in DOMAIN ScrollDepth(T, r)
      PROVE  ScrollDepth(T, r)[d] <= Cardinality(SessionsOf(T, S))
  <2> DEFINE K == {i \in Named(T, S, {"scroll_depth"}) : T[i].num >= d}
  <2>1. ScrollDepth(T, r)[d] = Cardinality(SessionsOf(T, K))
    BY DEF ScrollDepth, Distinct
  <2>2. K \subseteq S
    BY <1>4
  <2> HIDE DEF K, S
  <2> QED BY <1>2, <2>1, <2>2
<1> QED
  BY <1>5, <1>6
-----------------------------------------------------------------------------
(* The totals.                                                             *)

\* What each of the totals counts.
LEMMA Totals ==
  ASSUME NEW T, NEW r
  PROVE  /\ KpiTotals(T, r).visitors = Cardinality(VisitorsOf(T, Ev(T, r)))
         /\ KpiTotals(T, r).sessions = Cardinality(SessionsOf(T, Ev(T, r)))
         /\ KpiTotals(T, r).pageviews = Cardinality(OfType(T, Ev(T, r), "pageview"))
         /\ KpiTotals(T, r).resumes = Cardinality(Named(T, Ev(T, r), {"resume_download"}))
         /\ KpiTotals(T, r).contacts = Cardinality(Named(T, Ev(T, r), {"contact_click"}))
         /\ KpiTotals(T, r).converted = Cardinality(ConvertedOf(T, Ev(T, r)))
         /\ KpiTotals(T, r).bounced =
              Cardinality({s \in SessionsOf(T, Ev(T, r)) : Bounced(T, Ev(T, r), s)})
         /\ KpiTotals(T, r).returning =
              Cardinality({s \in SessionsOf(T, Ev(T, r)) : Returning(T, Ev(T, r), s)})
BY DEF KpiTotals, Distinct, ConvertedOf

\* Of a table that has grown every total is at least what it was.
LEMMA TotalsGrow ==
  ASSUME NEW T, NEW U, Grown(T, U), NEW r
  PROVE  /\ KpiTotals(T, r).visitors <= KpiTotals(U, r).visitors
         /\ KpiTotals(T, r).sessions <= KpiTotals(U, r).sessions
         /\ KpiTotals(T, r).pageviews <= KpiTotals(U, r).pageviews
         /\ KpiTotals(T, r).resumes <= KpiTotals(U, r).resumes
         /\ KpiTotals(T, r).contacts <= KpiTotals(U, r).contacts
         /\ KpiTotals(T, r).converted <= KpiTotals(U, r).converted
<1> DEFINE S == Ev(T, r)
           V == Ev(U, r)
<1>1. RowsIn(U, V)
  BY InRange DEF Grown
<1>2. /\ VisitorsOf(T, S) \subseteq VisitorsOf(U, V)
      /\ SessionsOf(T, S) \subseteq SessionsOf(U, V)
  BY MoreCounted
<1>3. OfType(T, S, "pageview") \subseteq OfType(U, V, "pageview")
  BY MoreCounted
<1>4. /\ Named(T, S, {"resume_download"}) \subseteq Named(U, V, {"resume_download"})
      /\ Named(T, S, {"contact_click"}) \subseteq Named(U, V, {"contact_click"})
  BY MoreCounted
<1>5. ConvertedOf(T, S) \subseteq ConvertedOf(U, V)
  BY StillConverted DEF ConvertedOf
<1>6. /\ IsFiniteSet(VisitorsOf(U, V)) /\ IsFiniteSet(SessionsOf(U, V)) /\ IsFiniteSet(V)
  BY <1>1, Selected
<1>7. /\ OfType(U, V, "pageview") \subseteq V
      /\ Named(U, V, {"resume_download"}) \subseteq V /\ Named(U, V, {"contact_click"}) \subseteq V
      /\ ConvertedOf(U, V) \subseteq SessionsOf(U, V)
  BY DEF OfType, Named, ConvertedOf
<1> HIDE DEF S, V
<1>8. /\ IsFiniteSet(OfType(U, V, "pageview")) /\ IsFiniteSet(Named(U, V, {"resume_download"}))
      /\ IsFiniteSet(Named(U, V, {"contact_click"})) /\ IsFiniteSet(ConvertedOf(U, V))
  BY <1>6, <1>7, Within
<1>9. /\ Cardinality(VisitorsOf(T, S)) <= Cardinality(VisitorsOf(U, V))
      /\ Cardinality(SessionsOf(T, S)) <= Cardinality(SessionsOf(U, V))
      /\ Cardinality(OfType(T, S, "pageview")) <= Cardinality(OfType(U, V, "pageview"))
      /\ Cardinality(Named(T, S, {"resume_download"})) <= Cardinality(Named(U, V, {"resume_download"}))
      /\ Cardinality(Named(T, S, {"contact_click"})) <= Cardinality(Named(U, V, {"contact_click"}))
      /\ Cardinality(ConvertedOf(T, S)) <= Cardinality(ConvertedOf(U, V))
  BY <1>2, <1>3, <1>4, <1>5, <1>6, <1>8, Within
<1> QED
  BY <1>9, Totals DEF S, V

\* The totals are numbers, and no part of the sessions is more than the sessions.
LEMMA TotalsOrder ==
  ASSUME NEW T, Table(T), NEW r
  PROVE  /\ {KpiTotals(T, r).visitors, KpiTotals(T, r).sessions, KpiTotals(T, r).pageviews,
             KpiTotals(T, r).resumes, KpiTotals(T, r).contacts, KpiTotals(T, r).converted,
             KpiTotals(T, r).returning} \subseteq Nat
         /\ KpiTotals(T, r).visitors <= KpiTotals(T, r).sessions
         /\ KpiTotals(T, r).bounced <= KpiTotals(T, r).sessions
<1> DEFINE S == Ev(T, r)
           D == SessionsOf(T, S)
           B == {s \in D : Bounced(T, S, s)}
           O == {s \in D : Returning(T, S, s)}
<1>1. RowsIn(T, S)
  BY InRange DEF Table
<1>2. /\ IsFiniteSet(S) /\ IsFiniteSet(D) /\ Cardinality(VisitorsOf(T, S)) \in Nat
      /\ Cardinality(D) \in Nat
  BY <1>1, Selected
<1>3. /\ OfType(T, S, "pageview") \subseteq S /\ ConvertedOf(T, S) \subseteq D
      /\ Named(T, S, {"resume_download"}) \subseteq S /\ Named(T, S, {"contact_click"}) \subseteq S
      /\ B \subseteq D /\ O \subseteq D
  BY DEF OfType, Named, ConvertedOf
<1>4. Cardinality(VisitorsOf(T, S)) <= Cardinality(D)
  BY <1>1, VisitorsAndSessions
<1>5. /\ KpiTotals(T, r).visitors = Cardinality(VisitorsOf(T, S))
      /\ KpiTotals(T, r).sessions = Cardinality(D)
      /\ KpiTotals(T, r).pageviews = Cardinality(OfType(T, S, "pageview"))
      /\ KpiTotals(T, r).resumes = Cardinality(Named(T, S, {"resume_download"}))
      /\ KpiTotals(T, r).contacts = Cardinality(Named(T, S, {"contact_click"}))
      /\ KpiTotals(T, r).converted = Cardinality(ConvertedOf(T, S))
      /\ KpiTotals(T, r).bounced = Cardinality(B)
      /\ KpiTotals(T, r).returning = Cardinality(O)
  BY Totals
<1> HIDE DEF S, D, B, O
<1>6. /\ Cardinality(OfType(T, S, "pageview")) \in Nat /\ Cardinality(ConvertedOf(T, S)) \in Nat
      /\ Cardinality(Named(T, S, {"resume_download"})) \in Nat
      /\ Cardinality(Named(T, S, {"contact_click"})) \in Nat
      /\ Cardinality(B) <= Cardinality(D) /\ Cardinality(O) \in Nat
  BY <1>2, <1>3, Within
<1> QED
  BY <1>2, <1>4, <1>5, <1>6

\* What follows a has b in it, and is the same if nothing came between.
Bounds(T, U, a, b) == a <= b /\ (Grown(U, T) => a = b)

\* The sums over the parts read from U against the totals read from T.
LEMMA Sums ==
  ASSUME NEW T, Table(T), NEW U, Table(U), Grown(T, U), NEW r \in Days
  PROVE  LET C == KpiTotals(T, r) IN
         /\ Bounds(T, U, C.pageviews, Sum(Timeseries(U, r), "pageviews"))
         /\ Bounds(T, U, C.sessions, Total(Heatmap(U, r)))
         /\ Cardinality(DOMAIN SessionBreakdown(U, r)) < TopRows
              => Bounds(T, U, C.sessions, Total(SessionBreakdown(U, r)))
         /\ Cardinality(DOMAIN Sources(U, r).conversions) < TopRows
              => Bounds(T, U, C.converted, Total(Sources(U, r).conversions))
         /\ Grown(U, T) => Total(Sources(U, r).conversions) <= C.converted
         /\ Grown(U, T) => Total(Campaigns(U, r).conversions) <= C.converted
         /\ Bounds(T, U, C.resumes, Total(CustomEventBreakdown(U, r, "resume_download")))
         /\ Bounds(T, U, C.contacts, Total(CustomEventBreakdown(U, r, "contact_click")))
         /\ Grown(U, T) => Total(TopPages(U, r)) <= C.pageviews
<1> DEFINE C == KpiTotals(T, r)
           K == KpiTotals(U, r)
<1>1. /\ Bounds(T, U, C.sessions, K.sessions) /\ Bounds(T, U, C.pageviews, K.pageviews)
      /\ Bounds(T, U, C.resumes, K.resumes) /\ Bounds(T, U, C.contacts, K.contacts)
      /\ Bounds(T, U, C.converted, K.converted)
  <2>1. /\ C.sessions <= K.sessions /\ C.pageviews <= K.pageviews /\ C.resumes <= K.resumes
        /\ C.contacts <= K.contacts /\ C.converted <= K.converted
    BY TotalsGrow
  <2>2. Grown(U, T) =>
          /\ K.sessions <= C.sessions /\ K.pageviews <= C.pageviews /\ K.resumes <= C.resumes
          /\ K.contacts <= C.contacts /\ K.converted <= C.converted
    BY TotalsGrow
  <2>3. /\ {C.sessions, C.pageviews, C.resumes, C.contacts, C.converted} \subseteq Nat
        /\ {K.sessions, K.pageviews, K.resumes, K.contacts, K.converted} \subseteq Nat
    BY TotalsOrder
  <2>4. \A a, b \in Nat : a <= b /\ b <= a => a = b
    BY SMT
  <2> HIDE DEF C, K
  <2> QED BY <2>1, <2>2, <2>3, <2>4 DEF Bounds
<1> DEFINE S == Ev(U, r)
<1>3. /\ Sum(Timeseries(U, r), "pageviews") = Cardinality(OfType(U, S, "pageview"))
      /\ Total(Heatmap(U, r)) = Cardinality(SessionsOf(U, S))
      /\ Cardinality(DOMAIN SessionBreakdown(U, r)) < TopRows
           => Total(SessionBreakdown(U, r)) = Cardinality(SessionsOf(U, S))
  BY Points, Heat, Devices
<1>4. /\ Cardinality(DOMAIN Sources(U, r).conversions) < TopRows
           => Total(Sources(U, r).conversions) = Cardinality(ConvertedOf(U, S))
      /\ Total(Sources(U, r).conversions) <= Cardinality(ConvertedOf(U, S))
      /\ Total(Campaigns(U, r).conversions) <= Cardinality(ConvertedOf(U, S))
      /\ Total(TopPages(U, r)) <= Cardinality(OfType(U, S, "pageview"))
  BY Origins, Views
<1>5. /\ Total(CustomEventBreakdown(U, r, "resume_download")) = Cardinality(Named(U, S, {"resume_download"}))
      /\ Total(CustomEventBreakdown(U, r, "contact_click")) = Cardinality(Named(U, S, {"contact_click"}))
  BY Leads
<1>0. /\ K.sessions = Cardinality(SessionsOf(U, S))
      /\ K.pageviews = Cardinality(OfType(U, S, "pageview"))
      /\ K.resumes = Cardinality(Named(U, S, {"resume_download"}))
      /\ K.contacts = Cardinality(Named(U, S, {"contact_click"}))
      /\ K.converted = Cardinality(ConvertedOf(U, S))
  BY Totals
<1>6. Grown(U, T) => C.converted = K.converted /\ C.pageviews = K.pageviews
  BY <1>1 DEF Bounds
<1> HIDE DEF C, K, S
<1>7. /\ Grown(U, T) => Total(Sources(U, r).conversions) <= C.converted
      /\ Grown(U, T) => Total(Campaigns(U, r).conversions) <= C.converted
      /\ Grown(U, T) => Total(TopPages(U, r)) <= C.pageviews
  BY <1>0, <1>4, <1>6
<1> QED
  BY <1>0, <1>1, <1>3, <1>4, <1>5, <1>7 DEF C

\* And the distinct counts.
LEMMA Distincts ==
  ASSUME NEW T, Table(T), NEW U, Table(U), Grown(T, U), NEW r \in Days
  PROVE  LET C == KpiTotals(T, r) IN
         /\ C.visitors <= Sum(Timeseries(U, r), "visitors")
         /\ C.sessions <= Sum(Timeseries(U, r), "sessions")
         /\ C.converted <= Sum(Timeseries(U, r), "conversions")
         /\ Grown(U, T) => \A d \in DOMAIN Timeseries(U, r) :
              /\ Timeseries(U, r)[d].visitors <= C.visitors
              /\ Timeseries(U, r)[d].sessions <= C.sessions
         /\ Cardinality(DOMAIN BrowserLanguages(U, r)) < TopRows
              => C.visitors <= Total(BrowserLanguages(U, r))
         /\ Grown(U, T) => \A t \in DOMAIN Locations(U, r) : Locations(U, r)[t] <= C.visitors
         /\ Grown(U, T) => \A x \in DOMAIN Funnel(U, r) : Funnel(U, r)[x] <= C.sessions
         /\ Grown(U, T) => \A x \in DOMAIN ScrollDepth(U, r) : ScrollDepth(U, r)[x] <= C.sessions
<1> DEFINE C == KpiTotals(T, r)
           K == KpiTotals(U, r)
           ts == Timeseries(U, r)
<1>2. /\ C.visitors <= K.visitors /\ C.sessions <= K.sessions /\ C.converted <= K.converted
      /\ {C.visitors, C.sessions, C.converted, K.visitors, K.sessions, K.converted} \subseteq Nat
  BY TotalsGrow, TotalsOrder
<1> DEFINE S == Ev(U, r)
           v == Cardinality(VisitorsOf(U, S))
           n == Cardinality(SessionsOf(U, S))
<1>3. /\ v <= Sum(ts, "visitors") /\ n <= Sum(ts, "sessions")
      /\ Cardinality(ConvertedOf(U, S)) <= Sum(ts, "conversions")
      /\ {Sum(ts, "visitors"), Sum(ts, "sessions"), Sum(ts, "conversions")} \subseteq Nat
      /\ \A d \in DOMAIN ts : ts[d].visitors <= v /\ ts[d].sessions <= n
  BY Points
<1>4. /\ Cardinality(DOMAIN BrowserLanguages(U, r)) < TopRows
           => v <= Total(BrowserLanguages(U, r)) /\ Total(BrowserLanguages(U, r)) \in Nat
      /\ \A t \in DOMAIN Locations(U, r) : Locations(U, r)[t] <= v
  BY Groups2
<1>5. /\ \A x \in DOMAIN Funnel(U, r) : Funnel(U, r)[x] <= n
      /\ \A x \in DOMAIN ScrollDepth(U, r) : ScrollDepth(U, r)[x] <= n
  BY Reached
<1>6. K.visitors = v /\ K.sessions = n /\ K.converted = Cardinality(ConvertedOf(U, S))
  BY Totals
<1>7. Grown(U, T) => C.visitors = v /\ C.sessions = n
  <2>1. Grown(U, T) => K.visitors <= C.visitors /\ K.sessions <= C.sessions
    BY TotalsGrow
  <2> HIDE DEF C, K, v, n
  <2> QED BY <1>2, <1>6, <2>1
<1>8. C.visitors <= v /\ C.sessions <= n /\ C.converted <= Cardinality(ConvertedOf(U, S))
  BY <1>2, <1>6
<1>9. {C.visitors, C.sessions, C.converted, v, n, Cardinality(ConvertedOf(U, S))} \subseteq Nat
  BY <1>2, <1>6
<1> HIDE DEF C, K, S, ts, v, n
<1>10. \A a, b, c \in Nat : a <= b /\ b <= c => a <= c
  BY SMT
<1>11. /\ C.visitors <= Sum(ts, "visitors") /\ C.sessions <= Sum(ts, "sessions")
       /\ C.converted <= Sum(ts, "conversions")
  BY <1>3, <1>8, <1>9, <1>10
<1>12. Cardinality(DOMAIN BrowserLanguages(U, r)) < TopRows
         => C.visitors <= Total(BrowserLanguages(U, r))
  BY <1>4, <1>8, <1>9, <1>10
<1>13. /\ Grown(U, T) => \A d \in DOMAIN ts : ts[d].visitors <= C.visitors /\ ts[d].sessions <= C.sessions
       /\ Grown(U, T) => \A t \in DOMAIN Locations(U, r) : Locations(U, r)[t] <= C.visitors
       /\ Grown(U, T) => \A x \in DOMAIN Funnel(U, r) : Funnel(U, r)[x] <= C.sessions
       /\ Grown(U, T) => \A x \in DOMAIN ScrollDepth(U, r) : ScrollDepth(U, r)[x] <= C.sessions
  BY <1>3, <1>4, <1>5, <1>7
<1> QED
  BY <1>11, <1>12, <1>13 DEF C, ts
-----------------------------------------------------------------------------
(* Two periods.                                                            *)

\* The period before: it ends the day before, and is as long.
LEMMA PeriodBefore ==
  ASSUME NEW r \in Days, NEW q, q = PreviousRange(r, ValidDays(r)), ValidDays(r) # 0
  PROVE  /\ r.from <= r.to /\ r.from \in Int /\ r.to \in Int /\ q \in Days
         /\ q.from = 2 * r.from - r.to - 1 /\ q.to = r.from - 1
<1>1. r.from \in Int /\ r.to \in Int
  BY DEF Days
<1>2. ~ (r.from > r.to) /\ ValidDays(r) = r.to - r.from + 1
  BY DEF ValidDays
<1>3. q.from = r.from - 1 - (ValidDays(r) - 1) /\ q.to = r.from - 1
      /\ q = [from |-> r.from - 1 - (ValidDays(r) - 1), to |-> r.from - 1]
  BY DEF PreviousRange
<1>4. ASSUME NEW a \in Int, NEW b \in Int, ~ (a > b)
      PROVE  /\ a <= b /\ a - 1 - ((b - a + 1) - 1) = 2 * a - b - 1
             /\ a - 1 - ((b - a + 1) - 1) \in Int /\ a - 1 \in Int
  BY <1>4, SMT
<1>5. /\ r.from <= r.to
      /\ r.from - 1 - ((r.to - r.from + 1) - 1) = 2 * r.from - r.to - 1
      /\ r.from - 1 - ((r.to - r.from + 1) - 1) \in Int /\ r.from - 1 \in Int
  BY <1>1, <1>2, <1>4
<1> QED
  BY <1>1, <1>2, <1>3, <1>5 DEF Days

\* Together they hold every pageview of their days once.
LEMMA Tiles ==
  ASSUME NEW T, Table(T), NEW r \in Days, NEW q \in Days, r.from <= r.to,
         q.from = 2 * r.from - r.to - 1, q.to = r.from - 1
  PROVE  KpiTotals(T, r).pageviews + KpiTotals(T, q).pageviews =
           Cardinality({i \in 1 .. Len(T) : /\ T[i].type = "pageview"
                                            /\ T[i].day \in (2 * r.from - r.to - 1) .. r.to})
<1> DEFINE A == OfType(T, Ev(T, r), "pageview")
           B == OfType(T, Ev(T, q), "pageview")
           K == {i \in 1 .. Len(T) : /\ T[i].type = "pageview"
                                     /\ T[i].day \in (2 * r.from - r.to - 1) .. r.to}
<1>1. r.from \in Int /\ r.to \in Int
  BY DEF Days
<1>2. \A i \in 1 .. Len(T) : T[i].day \in Int
  BY RowTypes DEF Table
<1>3. ASSUME NEW a \in Int, NEW b \in Int, a <= b, NEW d \in Int
      PROVE  /\ d \in (2 * a - b - 1) .. b <=> (a <= d /\ d <= b) \/ (2 * a - b - 1 <= d /\ d <= a - 1)
             /\ ~ ((a <= d /\ d <= b) /\ (2 * a - b - 1 <= d /\ d <= a - 1))
  BY <1>3, SMT
<1>4. \A i \in 1 .. Len(T) :
        /\ T[i].day \in (2 * r.from - r.to - 1) .. r.to <=>
             \/ r.from <= T[i].day /\ T[i].day <= r.to
             \/ q.from <= T[i].day /\ T[i].day <= q.to
        /\ ~ ((r.from <= T[i].day /\ T[i].day <= r.to) /\ (q.from <= T[i].day /\ T[i].day <= q.to))
  BY <1>1, <1>2, <1>3
<1>5. K = A \cup B /\ A \cap B = {}
  BY <1>4 DEF OfType, Ev
<1>6. IsFiniteSet(A) /\ IsFiniteSet(B)
  <2>1. RowsIn(T, A) /\ RowsIn(T, B)
    BY InRange DEF RowsIn, OfType, Table
  <2> HIDE DEF A, B
  <2> QED BY <2>1, Selected
<1>7. KpiTotals(T, r).pageviews = Cardinality(A) /\ KpiTotals(T, q).pageviews = Cardinality(B)
  BY Totals
<1> HIDE DEF A, B, K
<1>8. Cardinality(A \cup B) = Cardinality(A) + Cardinality(B)
  BY <1>5, <1>6, Apart
<1> QED
  BY <1>5, <1>7, <1>8 DEF K

\* The sessions that are not returning, and the visitors of them.
New(T, S) == {s \in SessionsOf(T, S) : ~ Returning(T, S, s)}
\* Those who came for the first time in one of these sessions.
NewVisitors(T, S) == {Visitor(T, S, s) : s \in New(T, S)}

\* No row is of the visitor of row i and from before it.
DebutIn(T, i) == \A j \in 1 .. Len(T) : T[j].visitor = T[i].visitor => T[i].at <= T[j].at

\* One session brought each visitor.
OneDebut(T) ==
  \A i, j \in 1 .. Len(T) : (T[i].visitor = T[j].visitor /\ DebutIn(T, i) /\ DebutIn(T, j))
                              => T[i].session = T[j].session

\* What VisitorsInOrder says, of any table.
InOrder(T, n) ==
  /\ OneDebut(T)
  /\ \A j \in (n + 1) .. Len(T) : T[j].visitor \in VisitorsOf(T, 1 .. n) =>
       \E i \in 1 .. n : T[i].visitor = T[j].visitor /\ T[i].at <= T[j].at

\* A debut stays one, and a visitor has it in one session already.
LEMMA DebutStays ==
  ASSUME NEW T, NEW U, Grown(T, U), InOrder(U, Len(T))
  PROVE  /\ \A i \in 1 .. Len(T) : DebutIn(T, i) => DebutIn(U, i)
         /\ OneDebut(T)
<1>1. /\ Len(T) \in Nat /\ Len(U) \in Nat /\ Len(T) <= Len(U)
      /\ \A i \in 1 .. Len(U) : U[i].at \in Nat
  BY RowTypes DEF Grown
<1>2. /\ \A i \in 1 .. Len(T) : i \in 1 .. Len(U)
      /\ \A i \in 1 .. Len(U) : i \in 1 .. Len(T) \/ i \in (Len(T) + 1) .. Len(U)
  BY <1>1
<1>3. \A i \in 1 .. Len(T) : /\ T[i].visitor = U[i].visitor /\ T[i].at = U[i].at
                             /\ T[i].session = U[i].session
  BY DEF Grown, Same
<1>4. ASSUME NEW i \in 1 .. Len(T), DebutIn(T, i) PROVE DebutIn(U, i)
  <2>1. \A k \in 1 .. Len(T) : U[k].visitor = U[i].visitor => U[i].at <= U[k].at
    BY <1>3, <1>4 DEF DebutIn
  <2>2. ASSUME NEW j \in (Len(T) + 1) .. Len(U), U[j].visitor = U[i].visitor
        PROVE  U[i].at <= U[j].at
    <3>1. U[j].visitor \in VisitorsOf(U, 1 .. Len(T))
      BY <2>2 DEF VisitorsOf
    <3>2. PICK k \in 1 .. Len(T) : U[k].visitor = U[j].visitor /\ U[k].at <= U[j].at
      BY <3>1 DEF InOrder
    <3>3. U[i].at <= U[k].at
      BY <2>1, <2>2, <3>2
    <3>4. U[i].at \in Nat /\ U[j].at \in Nat /\ U[k].at \in Nat
      <4>1. j \in 1 .. Len(U)
        BY <1>1
      <4> QED BY <1>1, <1>2, <4>1
    <3> QED BY <3>2, <3>3, <3>4
  <2> QED BY <1>2, <2>1, <2>2 DEF DebutIn
<1>5. OneDebut(T)
  BY <1>2, <1>3, <1>4 DEF OneDebut, InOrder
<1> QED
  BY <1>4, <1>5

\* Each of these visitors has one of these sessions, which starts with their debut.
LEMMA NewSessions ==
  ASSUME NEW T, Table(T), NEW S, RowsIn(T, S), OneDebut(T)
  PROVE  /\ IsFiniteSet(New(T, S)) /\ IsFiniteSet(NewVisitors(T, S))
         /\ Cardinality(New(T, S)) = Cardinality(NewVisitors(T, S))
         /\ NewVisitors(T, S) \subseteq VisitorsOf(T, S)
         /\ \A v \in NewVisitors(T, S) : \E i \in S : T[i].visitor = v /\ DebutIn(T, i)
<1> DEFINE N == New(T, S)
           f == [s \in N |-> Visitor(T, S, s)]
           first(s) == FirstRow(T, S, s)
<1>1. N \subseteq SessionsOf(T, S)
  BY DEF New
<1>2. IsFiniteSet(N)
  <2>1. IsFiniteSet(SessionsOf(T, S))
    BY Selected
  <2> HIDE DEF N
  <2> QED BY <1>1, <2>1, Within
<1>3. NewVisitors(T, S) = ImageOf(f, N)
  BY DEF NewVisitors, ImageOf
<1>4. \A s \in N : /\ first(s) \in S /\ T[first(s)].session = s
                   /\ T[first(s)].visitor = Visitor(T, S, s)
                   /\ Visitor(T, S, s) \in VisitorsOf(T, S)
  BY <1>1, First
<1>5. S \subseteq 1 .. Len(T) /\ \A i \in 1 .. Len(T) : T[i].at \in Nat
  BY RowTypes DEF RowsIn
<1>6. ASSUME NEW s \in N PROVE DebutIn(T, first(s))
  <2>1. \A o \in 1 .. Len(T) : T[o].visitor = Visitor(T, S, s) => ~ (T[o].at < T[first(s)].at)
    BY DEF New, Returning
  <2>2. first(s) \in 1 .. Len(T) /\ T[first(s)].visitor = Visitor(T, S, s)
    BY <1>4, <1>5
  <2> HIDE DEF first, N
  <2>3. \A o \in 1 .. Len(T) : T[o].visitor = T[first(s)].visitor => T[first(s)].at <= T[o].at
    BY <1>5, <2>1, <2>2
  <2> QED BY <2>3 DEF DebutIn
<1>7. ASSUME NEW s \in N, NEW u \in N, Visitor(T, S, s) = Visitor(T, S, u) PROVE s = u
  <2>1. /\ first(s) \in 1 .. Len(T) /\ first(u) \in 1 .. Len(T)
        /\ T[first(s)].visitor = T[first(u)].visitor
        /\ T[first(s)].session = s /\ T[first(u)].session = u
    BY <1>4, <1>5, <1>7
  <2>2. DebutIn(T, first(s)) /\ DebutIn(T, first(u))
    BY <1>6
  <2> HIDE DEF first
  <2> QED BY <2>1, <2>2 DEF OneDebut
<1>8. \A s, u \in N : f[s] = f[u] => s = u
  BY <1>7
<1> HIDE DEF f
<1>9. /\ IsFiniteSet(NewVisitors(T, S))
      /\ Cardinality(NewVisitors(T, S)) = Cardinality(N)
  BY <1>2, <1>3, <1>8, Image, OneToOne
<1>10. NewVisitors(T, S) \subseteq VisitorsOf(T, S)
  BY <1>4 DEF NewVisitors
<1>11. ASSUME NEW v \in NewVisitors(T, S)
       PROVE  \E i \in S : T[i].visitor = v /\ DebutIn(T, i)
  <2>1. PICK s \in N : v = Visitor(T, S, s)
    BY DEF NewVisitors
  <2>2. first(s) \in S /\ T[first(s)].visitor = v
    BY <1>4, <2>1
  <2>3. DebutIn(T, first(s))
    BY <1>6
  <2> QED BY <2>2, <2>3
<1> QED
  BY <1>2, <1>9, <1>10, <1>11

\* The sessions that are not returning are the new ones.
LEMMA NewAreTheRest ==
  ASSUME NEW T, Table(T), NEW r
  PROVE  KpiTotals(T, r).sessions - KpiTotals(T, r).returning = Cardinality(New(T, Ev(T, r)))
<1> DEFINE S == Ev(T, r)
           D == SessionsOf(T, S)
           O == {s \in D : Returning(T, S, s)}
           N == New(T, S)
<1>1. D = O \cup N /\ O \cap N = {}
  BY DEF New
<1>2. IsFiniteSet(O) /\ IsFiniteSet(N)
  <2>1. IsFiniteSet(D)
    BY InRange, Selected DEF Table
  <2>2. O \subseteq D /\ N \subseteq D
    BY DEF New
  <2> HIDE DEF D, O, N
  <2> QED BY <2>1, <2>2, Within
<1>3. KpiTotals(T, r).sessions = Cardinality(D) /\ KpiTotals(T, r).returning = Cardinality(O)
  BY Totals
<1> HIDE DEF D, O, N
<1>4. /\ Cardinality(O \cup N) = Cardinality(O) + Cardinality(N)
      /\ Cardinality(O) \in Nat /\ Cardinality(N) \in Nat
  BY <1>1, <1>2, Apart
<1>5. Cardinality(D) - Cardinality(O) = Cardinality(N)
  BY <1>1, <1>4
<1> QED
  BY <1>3, <1>5 DEF N, S

\* A visitor is new in one session of one of two periods without a common day.
LEMMA NewInOne ==
  ASSUME NEW T, Table(T), NEW U, Table(U), Grown(T, U), InOrder(U, Len(T)),
         NEW r \in Days, NEW q \in Days, q.to = r.from - 1
  PROVE  (KpiTotals(T, r).sessions - KpiTotals(T, r).returning)
           + (KpiTotals(U, q).sessions - KpiTotals(U, q).returning)
           <= Cardinality(VisitorsOf(U, 1 .. Len(U)))
<1> DEFINE S == Ev(T, r)
           V == Ev(U, q)
           A == NewVisitors(T, S)
           B == NewVisitors(U, V)
           W == VisitorsOf(U, 1 .. Len(U))
<1>1. RowsIn(T, S) /\ RowsIn(U, V) /\ RowsIn(U, 1 .. Len(U)) /\ Log(T) /\ Log(U)
  BY InRange DEF Grown, RowsIn
<1>0. OneDebut(T) /\ OneDebut(U) /\ \A i \in 1 .. Len(T) : DebutIn(T, i) => DebutIn(U, i)
  BY DebutStays DEF InOrder
<1>2. /\ IsFiniteSet(A) /\ Cardinality(New(T, S)) = Cardinality(A)
      /\ IsFiniteSet(B) /\ Cardinality(New(U, V)) = Cardinality(B)
  BY <1>0, <1>1, NewSessions
<1>3. A \subseteq W /\ B \subseteq W
  <2>1. A \subseteq VisitorsOf(T, S) /\ B \subseteq VisitorsOf(U, V)
    BY <1>0, <1>1, NewSessions
  <2>2. VisitorsOf(T, S) \subseteq VisitorsOf(U, Ev(U, r))
    BY MoreCounted
  <2>3. VisitorsOf(U, Ev(U, r)) \subseteq W /\ VisitorsOf(U, V) \subseteq W
    BY DEF VisitorsOf, Ev
  <2> QED BY <2>1, <2>2, <2>3
<1>4. A \cap B = {}
  <2> SUFFICES ASSUME NEW v \in A, v \in B PROVE FALSE
    OBVIOUS
  <2>1. PICK i \in S : T[i].visitor = v /\ DebutIn(T, i)
    BY <1>0, <1>1, NewSessions
  <2>2. PICK j \in V : U[j].visitor = v /\ DebutIn(U, j)
    BY <1>0, <1>1, NewSessions
  <2>3. /\ i \in 1 .. Len(T) /\ r.from <= T[i].day
        /\ j \in 1 .. Len(U) /\ U[j].day <= q.to
    BY DEF Ev
  <2>4. i \in 1 .. Len(U) /\ Same(T[i], U[i])
    <3>1. Len(T) \in Nat /\ Len(U) \in Nat /\ Len(T) <= Len(U)
      BY RowTypes DEF Grown
    <3>2. i \in 1 .. Len(U)
      BY <2>3, <3>1
    <3> QED BY <2>3, <3>2 DEF Grown
  <2>5. U[i].visitor = v /\ DebutIn(U, i) /\ r.from <= U[i].day
    BY <1>0, <2>1, <2>3, <2>4 DEF Same
  <2>6. U[i].at <= U[j].at /\ U[j].at <= U[i].at
    BY <2>2, <2>3, <2>4, <2>5 DEF DebutIn
  <2>7. U[i].at \in Nat /\ U[j].at \in Nat /\ U[i].day \in Int
    BY <1>1, <2>3, <2>4, RowTypes
  <2>8. U[i].day = U[j].day
    <3>1. U[i].at = U[j].at
      BY <2>6, <2>7
    <3> QED BY <1>1, <2>3, <2>4, <3>1 DEF Log
  <2>9. r.from \in Int /\ q.to = r.from - 1
    BY DEF Days
  <2>10. \A a, d \in Int : ~ (a <= d /\ d <= a - 1)
    OBVIOUS
  <2> QED BY <2>3, <2>5, <2>7, <2>8, <2>9, <2>10
<1>5. IsFiniteSet(W) /\ Cardinality(W) \in Nat
  BY <1>1, Selected
<1>6. /\ KpiTotals(T, r).sessions - KpiTotals(T, r).returning = Cardinality(A)
      /\ KpiTotals(U, q).sessions - KpiTotals(U, q).returning = Cardinality(B)
  BY <1>1, <1>2, NewAreTheRest
<1> HIDE DEF A, B, W, S, V
<1>7. Cardinality(A \cup B) = Cardinality(A) + Cardinality(B)
  BY <1>2, <1>4, Apart
<1>8. Cardinality(A \cup B) <= Cardinality(W)
  BY <1>3, <1>5, Within
<1> QED
  BY <1>6, <1>7, <1>8 DEF W
-----------------------------------------------------------------------------
(* One session, the live view and the export.                              *)

\* What was shown of a session accounts for the summary read before.
LEMMA Accounted ==
  ASSUME NEW T, NEW U, Grown(T, U), NEW s
  PROVE  LET sum == Summary(T, 1 .. Len(T), s)
             E == SessionEvents(U, s)
             shown == [ pageviews   |-> Cardinality(OfType(U, E, "pageview")),
                        conversions |-> {U[i].name : i \in Named(U, E, Conversions)},
                        sections    |-> {U[i].place : i \in OfType(U, E, "section_view")} ]
         IN /\ sum.pageviews <= shown.pageviews
            /\ sum.conversions \subseteq shown.conversions
            /\ sum.sections \subseteq shown.sections
            /\ \/ sum.max_scroll = 0
               \/ \E i \in Named(U, E, {"scroll_depth"}) : U[i].num = sum.max_scroll
            /\ (\A i \in E : i <= Len(T)) => \A f \in DOMAIN shown : shown[f] = sum[f]
<1> DEFINE R == RowsOf(T, 1 .. Len(T), s)
           E == SessionEvents(U, s)
           sum == Summary(T, 1 .. Len(T), s)
           depths == {T[i].num : i \in Named(T, R, {"scroll_depth"})}
           shown == [ pageviews   |-> Cardinality(OfType(U, E, "pageview")),
                      conversions |-> {U[i].name : i \in Named(U, E, Conversions)},
                      sections    |-> {U[i].place : i \in OfType(U, E, "section_view")} ]
<1>1. Log(T) /\ Log(U) /\ Len(T) \in Nat /\ Len(U) \in Nat /\ Len(T) <= Len(U)
  BY RowTypes DEF Grown
<1>2. \A i \in R : i \in 1 .. Len(T) /\ i \in 1 .. Len(U) /\ Same(T[i], U[i])
  BY <1>1 DEF RowsOf, Grown
<1>3. \A i \in R : T[i].type # "heartbeat" => i \in E
  BY <1>2 DEF RowsOf, SessionEvents, Same
<1>4. \A i \in E : i <= Len(T) => i \in R
  BY <1>1 DEF RowsOf, SessionEvents, Grown, Same
<1>5. /\ sum.pageviews = Cardinality(OfType(T, R, "pageview"))
      /\ sum.conversions = {T[i].name : i \in Named(T, R, Conversions)}
      /\ sum.sections = {T[i].place : i \in OfType(T, R, "section_view")}
      /\ sum.max_scroll = IF depths = {} THEN 0 ELSE Max(depths)
  BY DEF Summary
<1>6. /\ OfType(T, R, "pageview") \subseteq OfType(U, E, "pageview")
      /\ Named(T, R, Conversions) \subseteq Named(U, E, Conversions)
      /\ OfType(T, R, "section_view") \subseteq OfType(U, E, "section_view")
      /\ Named(T, R, {"scroll_depth"}) \subseteq Named(U, E, {"scroll_depth"})
  <2> HIDE DEF R, E
  <2> QED BY <1>2, <1>3 DEF OfType, Named, Same
<1>7. IsFiniteSet(E) /\ IsFiniteSet(R) /\ IsFiniteSet(OfType(U, E, "pageview"))
  <2>1. RowsIn(U, E) /\ RowsIn(T, R) /\ RowsIn(U, OfType(U, E, "pageview"))
    BY <1>1 DEF RowsIn, SessionEvents, RowsOf, OfType
  <2> HIDE DEF E, R
  <2> QED BY <2>1, Selected
<1> HIDE DEF R, E, sum
<1>8. sum.pageviews <= shown.pageviews
  <2>1. Cardinality(OfType(T, R, "pageview")) <= Cardinality(OfType(U, E, "pageview"))
    BY <1>6, <1>7, Within
  <2> QED BY <1>5, <2>1
<1>9. sum.conversions \subseteq shown.conversions /\ sum.sections \subseteq shown.sections
  <2>1. \A i \in Named(T, R, Conversions) : T[i].name = U[i].name
    BY <1>2 DEF Named, OfType, Same
  <2>2. \A i \in OfType(T, R, "section_view") : T[i].place = U[i].place
    BY <1>2 DEF OfType, Same
  <2> QED BY <1>5, <1>6, <2>1, <2>2
<1>10. sum.max_scroll = 0 \/ \E i \in Named(U, E, {"scroll_depth"}) : U[i].num = sum.max_scroll
  <2> SUFFICES ASSUME depths # {}
               PROVE  \E i \in Named(U, E, {"scroll_depth"}) : U[i].num = Max(depths)
    BY <1>5
  <2>1. Max(depths) \in depths
    <3> DEFINE f == [i \in Named(T, R, {"scroll_depth"}) |-> T[i].num]
    <3>1. depths = ImageOf(f, Named(T, R, {"scroll_depth"}))
      BY DEF ImageOf
    <3>2. IsFiniteSet(Named(T, R, {"scroll_depth"}))
      <4>1. Named(T, R, {"scroll_depth"}) \subseteq R
        BY DEF Named, OfType
      <4> QED BY <1>7, <4>1, Within
    <3>3. depths \subseteq Nat
      BY <1>1, <1>2, RowTypes DEF Named, OfType
    <3> HIDE DEF depths, f
    <3>4. IsFiniteSet(depths)
      BY <3>1, <3>2, Image
    <3> QED BY <3>3, <3>4, Highest
  <2>2. PICK i \in Named(T, R, {"scroll_depth"}) : T[i].num = Max(depths)
    <3>1. \A x \in depths : \E i \in Named(T, R, {"scroll_depth"}) : T[i].num = x
      OBVIOUS
    <3> HIDE DEF depths
    <3> QED BY <2>1, <3>1
  <2>3. T[i].num = U[i].num /\ i \in Named(U, E, {"scroll_depth"})
    BY <1>2, <1>6 DEF Named, OfType, Same
  <2> HIDE DEF depths
  <2> QED BY <2>2, <2>3
<1>11. ASSUME \A i \in E : i <= Len(T) PROVE \A f \in DOMAIN shown : shown[f] = sum[f]
  <2>1. \A i \in E : i \in R /\ Same(T[i], U[i])
    BY <1>2, <1>4, <1>11
  <2>2. /\ OfType(U, E, "pageview") = OfType(T, R, "pageview")
        /\ Named(U, E, Conversions) = Named(T, R, Conversions)
        /\ OfType(U, E, "section_view") = OfType(T, R, "section_view")
    BY <1>6, <2>1 DEF OfType, Named, Same
  <2>3. /\ \A i \in Named(T, R, Conversions) : T[i].name = U[i].name
        /\ \A i \in OfType(T, R, "section_view") : T[i].place = U[i].place
    BY <1>2 DEF Named, OfType, Same
  <2>4. /\ {U[i].name : i \in Named(U, E, Conversions)} = {T[i].name : i \in Named(T, R, Conversions)}
        /\ {U[i].place : i \in OfType(U, E, "section_view")}
             = {T[i].place : i \in OfType(T, R, "section_view")}
    BY <2>2, <2>3
  <2>5. /\ shown.pageviews = sum.pageviews /\ shown.conversions = sum.conversions
        /\ shown.sections = sum.sections
    BY <1>5, <2>2, <2>4
  <2>6. DOMAIN shown = {"pageviews", "conversions", "sections"}
    OBVIOUS
  <2> HIDE DEF shown
  <2> QED BY <2>5, <2>6
<1> QED
  BY <1>8, <1>9, <1>10, <1>11 DEF E, sum

\* The latest rows of a visitor in the window.
LatestIn(T, since, v) ==
  LET S == {i \in Window(T, since) : T[i].visitor = v}
  IN {i \in S : \A j \in S : T[j].at <= T[i].at}

\* The visitors of the window all of whose latest rows say that they are there, and those
\* of whom one does.
Surely(T, since) ==
  {v \in VisitorsOf(T, Window(T, since)) : \A i \in LatestIn(T, since, v) : T[i].type # "leave"}
\* One of them does.
Maybe(T, since) ==
  {v \in VisitorsOf(T, Window(T, since)) : \E i \in LatestIn(T, since, v) : T[i].type # "leave"}

\* The live view counts the former, and nobody who is not of the latter.
LEMMA Present ==
  ASSUME NEW T, Table(T), NEW since
  PROVE  /\ Cardinality(Surely(T, since)) <= Total(Live(T, since))
         /\ Total(Live(T, since)) <= Cardinality(Maybe(T, since))
<1> DEFINE W == Window(T, since)
           S == {i \in W : /\ T[i].type # "leave"
                           /\ \A j \in W : T[i].nth < T[j].nth => T[j].visitor # T[i].visitor}
           path == [i \in S |-> IF T[i].place = 0 THEN Home ELSE T[i].place]
           D == {path[i] : i \in S}
           who == [i \in S |-> T[i].visitor]
           I == {T[i].visitor : i \in S}
<1>0. Log(T)
  BY DEF Table
<1>1. W \subseteq 1 .. Len(T) /\ \A i \in W : T[i].nth \in Nat /\ T[i].at \in Nat
  BY <1>0, RowTypes DEF Window
<1>11. \A i, j \in W : i # j => T[i].nth # T[j].nth /\ (T[i].at < T[j].at => T[i].nth < T[j].nth)
  BY <1>1 DEF Table
<1>12. IsFiniteSet(W) /\ IsFiniteSet(VisitorsOf(T, W))
  <2>1. RowsIn(T, W)
    BY <1>0, <1>1 DEF RowsIn
  <2> HIDE DEF W
  <2> QED BY <2>1, Selected
<1>2. S \subseteq W /\ IsFiniteSet(S)
  <2>1. S \subseteq W
    OBVIOUS
  <2> HIDE DEF S, W
  <2> QED BY <1>12, <2>1, Within
<1>3. Live(T, since) = [p \in D |-> Cardinality({i \in S : path[i] = p})]
  <2>1. Live(T, since) = Counted(T, S)
    BY DEF Live, Before
  <2>2. \A i \in S : path[i] = IF T[i].place = 0 THEN Home ELSE T[i].place
    OBVIOUS
  <2> HIDE DEF S, path
  <2>3. /\ {IF T[i].place = 0 THEN Home ELSE T[i].place : i \in S} = D
        /\ \A p : {i \in S : (IF T[i].place = 0 THEN Home ELSE T[i].place) = p} = {i \in S : path[i] = p}
    BY <2>2
  <2> HIDE DEF D
  <2> QED BY <2>1, <2>3 DEF Counted
<1>4. Total(Live(T, since)) = Cardinality(S)
  <2>1. D = ImageOf(path, S) /\ \A i \in S : path[i] \in D
    BY DEF ImageOf
  <2> HIDE DEF S, path, D
  <2>2. IsFiniteSet(D)
    BY <1>2, <2>1, Image
  <2>3. Total([p \in D |-> Cardinality({i \in S : path[i] = p})]) = Cardinality(S)
    BY <1>2, <2>1, <2>2, Keyed
  <2> QED BY <1>3, <2>3
<1>5. Cardinality(I) = Cardinality(S) /\ IsFiniteSet(I)
  <2>1. \A i, j \in S : who[i] = who[j] => i = j
    <3> SUFFICES ASSUME NEW i \in S, NEW j \in S, T[i].visitor = T[j].visitor, i # j PROVE FALSE
      OBVIOUS
    <3>1. i \in W /\ j \in W /\ ~ (T[i].nth < T[j].nth) /\ ~ (T[j].nth < T[i].nth)
      OBVIOUS
    <3> HIDE DEF S, W
    <3> QED BY <1>1, <1>11, <3>1
  <2>2. I = ImageOf(who, S)
    BY DEF ImageOf
  <2> HIDE DEF S, who, I
  <2> QED BY <1>2, <2>1, <2>2, OneToOne, Image
<1>6. ASSUME NEW i \in S PROVE T[i].visitor \in Maybe(T, since)
  <2>1. i \in W /\ T[i].type # "leave" /\ T[i].visitor \in VisitorsOf(T, W)
    BY DEF VisitorsOf
  <2>2. ASSUME NEW j \in W, T[j].visitor = T[i].visitor PROVE T[j].at <= T[i].at
    <3>1. ~ (T[i].nth < T[j].nth)
      BY <2>2
    <3> HIDE DEF S, W
    <3>2. ~ (T[i].at < T[j].at)
      BY <1>1, <1>11, <2>1, <2>2, <3>1
    <3> QED BY <1>1, <2>1, <2>2, <3>2
  <2>3. i \in LatestIn(T, since, T[i].visitor)
    BY <2>1, <2>2 DEF LatestIn
  <2> QED BY <2>1, <2>3 DEF Maybe
<1>7. ASSUME NEW v \in Surely(T, since) PROVE v \in I
  <2> DEFINE K == {i \in W : T[i].visitor = v}
             N == {T[i].nth : i \in K}
             f == [i \in K |-> T[i].nth]
  <2>1. K # {} /\ K \subseteq W
    BY DEF Surely, VisitorsOf
  <2>2. N \subseteq Nat /\ N # {}
    <3> HIDE DEF K, W
    <3> QED BY <1>1, <2>1
  <2>3. IsFiniteSet(N)
    <3>1. N = ImageOf(f, K)
      BY DEF ImageOf
    <3> HIDE DEF K, N, f, W
    <3>2. IsFiniteSet(K)
      BY <1>12, <2>1, Within
    <3> QED BY <3>1, <3>2, Image
  <2>4. Max(N) \in N /\ \A y \in N : Max(N) >= y
    <3> HIDE DEF N
    <3> QED BY <2>2, <2>3, Highest
  <2>5. PICK m \in K : Max(N) = T[m].nth
    BY <2>4
  <2>6. \A j \in K : ~ (T[m].nth < T[j].nth)
    <3> SUFFICES ASSUME NEW j \in K PROVE ~ (T[m].nth < T[j].nth)
      OBVIOUS
    <3>1. T[j].nth \in N /\ T[m].nth >= T[j].nth
      BY <2>4, <2>5
    <3>2. T[j].nth \in Nat /\ T[m].nth \in Nat
      BY <1>1, <2>1
    <3> HIDE DEF N, K, W
    <3> QED BY <3>1, <3>2
  <2> HIDE DEF N, f
  <2>7. \A j \in K : T[j].at <= T[m].at
    <3> SUFFICES ASSUME NEW j \in K PROVE T[j].at <= T[m].at
      OBVIOUS
    <3>1. ~ (T[m].nth < T[j].nth) /\ j \in W /\ m \in W
      BY <2>1, <2>6
    <3> HIDE DEF K, W
    <3>2. ~ (T[m].at < T[j].at)
      BY <1>1, <1>11, <3>1
    <3> QED BY <1>1, <3>1, <3>2
  <2>8. T[m].type # "leave"
    <3>1. m \in LatestIn(T, since, v)
      BY <2>7 DEF LatestIn
    <3> QED BY <3>1 DEF Surely
  <2>9. m \in S /\ T[m].visitor = v
    BY <2>6, <2>8
  <2> QED BY <2>9
<1>8. IsFiniteSet(Maybe(T, since))
  <2>1. Maybe(T, since) \subseteq VisitorsOf(T, W)
    BY DEF Maybe
  <2> HIDE DEF W
  <2> QED BY <1>12, <2>1, Within
<1>9. Surely(T, since) \subseteq I /\ I \subseteq Maybe(T, since)
  BY <1>6, <1>7
<1> HIDE DEF S, I
<1>10. Cardinality(Surely(T, since)) <= Cardinality(I) /\ Cardinality(I) <= Cardinality(Maybe(T, since))
  BY <1>5, <1>8, <1>9, Within
<1> QED
  BY <1>4, <1>5, <1>10

\* The export holds the rows of the range, or the latest of them.
LEMMA Exported ==
  ASSUME NEW T, Table(T), NEW r, NEW limit \in Nat
  PROVE  LET rows == Export(T, r, limit)
             cut == Ev(T, r) \ rows
         IN /\ rows \subseteq Ev(T, r)
            /\ cut # {} => /\ Cardinality(rows) = limit
                           /\ \A i \in cut, j \in rows : T[i].at <= T[j].at
<1> DEFINE S == Ev(T, r)
           rows == Export(T, r, limit)
           A == [i \in S |-> {j \in S : T[i].nth < T[j].nth}]
<1>1. RowsIn(T, S)
  BY InRange DEF Table
<1>2. IsFiniteSet(S) /\ \A i \in S : T[i].nth \in Nat /\ T[i].at \in Nat
  BY <1>1, Selected, RowTypes DEF RowsIn
<1>0. \A i, j \in S : i # j => T[i].nth # T[j].nth /\ (T[i].at < T[j].at => T[i].nth < T[j].nth)
  BY <1>1 DEF RowsIn, Table
<1>3. rows = {i \in S : Cardinality({j \in S : T[i].nth < T[j].nth}) < limit}
  BY DEF Export, Before
<1> HIDE DEF S
<1>5. A \in [S -> SUBSET S]
  OBVIOUS
<1>6. InRow(S, A)
  <2>1. /\ \A i \in S : i \notin A[i]
        /\ \A i, j \in S : i # j => i \in A[j] \/ j \in A[i]
    BY <1>0, <1>2
  <2>2. ASSUME NEW i \in S, NEW j \in S, j \in A[i] PROVE A[j] \subseteq A[i]
    <3>1. \A k \in S : T[j].nth < T[k].nth => T[i].nth < T[k].nth
      <4>1. T[i].nth \in Nat /\ T[j].nth \in Nat /\ T[i].nth < T[j].nth
        BY <1>2, <2>2
      <4> QED BY <1>2, <4>1
    <3> QED BY <3>1
  <2> HIDE DEF A
  <2> QED BY <1>2, <1>5, <2>1, <2>2 DEF InRow
<1>7. \A i \in S : A[i] = {j \in S : T[i].nth < T[j].nth} /\ Cardinality(A[i]) \in Nat
  <2>1. \A i \in S : A[i] = {j \in S : T[i].nth < T[j].nth} /\ A[i] \subseteq S
    OBVIOUS
  <2> HIDE DEF A
  <2> QED BY <1>2, <2>1, Within
<1> HIDE DEF A, rows
<1>8. rows = Slice(S, A, 0, limit)
  <2>1. \A i \in S : 0 <= Cardinality(A[i]) /\ 0 + limit = limit
    BY <1>7
  <2>2. \A i \in S : Cardinality({j \in S : T[i].nth < T[j].nth}) = Cardinality(A[i])
    BY <1>7
  <2> QED BY <1>3, <2>1, <2>2 DEF Slice
<1>9. /\ Cardinality(rows) = IF Cardinality(S) - 0 > limit THEN limit
                             ELSE IF Cardinality(S) > 0 THEN Cardinality(S) - 0 ELSE 0
      /\ Cardinality(S) \in Nat
  BY <1>6, <1>8, SliceSize
<1>10. rows \subseteq S
  BY <1>3
<1>11. ASSUME S \ rows # {} PROVE Cardinality(rows) = limit
  <2>1. rows \subseteq S /\ rows # S
    BY <1>3, <1>11
  <2>2. Cardinality(rows) # Cardinality(S)
    BY <1>2, <2>1, Within
  <2> QED BY <1>9, <2>2
<1>12. ASSUME NEW i \in S \ rows, NEW j \in rows PROVE T[i].at <= T[j].at
  <2>1. j \in S /\ Cardinality(A[j]) < limit /\ ~ (Cardinality(A[i]) < limit)
    BY <1>3, <1>7
  <2>2. SUFFICES ASSUME T[j].at < T[i].at PROVE FALSE
    BY <1>2, <2>1
  <2>3. T[j].nth < T[i].nth
    <3>1. i # j
      BY <2>1
    <3> QED BY <1>0, <2>1, <2>2, <3>1
  <2>4. A[i] \subseteq A[j]
    <3>1. \A k \in S : T[i].nth < T[k].nth => T[j].nth < T[k].nth
      BY <1>2, <2>1, <2>3
    <3> QED BY <1>7, <2>1, <3>1
  <2>5. IsFiniteSet(A[j])
    BY <1>2, <1>7, <2>1, Within
  <2>6. Cardinality(A[i]) <= Cardinality(A[j])
    BY <2>4, <2>5, Within
  <2> QED BY <1>7, <2>1, <2>6
<1> QED
  BY <1>10, <1>11, <1>12 DEF S, rows
-----------------------------------------------------------------------------
(* The inductive invariant.                                                *)

\* T has the rows of L, sorted as a statement may sort them.
Read(T, L) == Table(T) /\ Grown(T, L) /\ Grown(L, T)

\* The table as it was when it had n rows.
Was(n) == SubSeq(table, 1, n)

\* The row is of an event that some tracker sends.
FromTracker(x) == \E e \in Incoming : x.session = e.session /\ x.visitor = e.visitor

\* The rows are of events the trackers sent, each with the day of its instant.
Sent(L) ==
  /\ L \in Seq(Row)
  /\ \A i \in 1 .. Len(L) : FromTracker(L[i]) /\ L[i].day = Day[L[i].at]

\* The table, which every statement reads.
ITable == Sent(table) /\ Len(table) <= MaxRows

\* The request the process is at.
ITypes ==
  /\ phase \in {"idle", "rejected", "failed", "answered"} \cup Reading
  /\ range \in Ranges \cup {[from |-> 1, to |-> 1]}
  /\ late \in 0 .. MaxLate

\* The part the overview has come to: the totals come first.
IParts ==
  /\ part \in 1 .. (Len(Parts) + 1)
  /\ phase = "idle" => part = 1
  /\ phase = "overview" => ValidDays(range) # 0 /\ part <= Len(Parts)
  /\ part = 1 => asOf = Unread

\* Each part says what its query said of the table it read, the totals the oldest one.
IOverview ==
  /\ asOf \in [DOMAIN Blank -> -1 .. Len(table)] /\ DOMAIN out = DOMAIN Blank
  /\ \A p \in DOMAIN Blank : asOf[p] >= 0 =>
       /\ \E T : Read(T, Was(asOf[p])) /\ out[p] = Answer(T, range, p)
       /\ phase \in {"overview", "answered"} /\ ValidDays(range) # 0
       /\ asOf["current"] <= asOf[p]

\* The sessions K are in the list of q, from a place on.
InList(T, q, K, from) == \A s \in K : s \in Matching(T, q) /\ Rank(T, q, s) >= from

\* However the table L is sorted when it is read.
Listed(L, q, K, from) == \A T : Read(T, L) => InList(T, q, K, from)

\* And n is no more than the list is long.
Promised(L, q, n) == \A T : Read(T, L) => n <= Cardinality(Matching(T, q))

\* Filters after the clamp.
Query == [range : Days, converted : BOOLEAN, tag : Nat, limit : 1 .. MaxLimit, offset : Nat]

\* The list that is asked for, and the page of it.
IQuery ==
  /\ query \in Query
  /\ total \in Nat /\ opened \in 0 .. Len(table)
  /\ IsFiniteSet(page) /\ Cardinality(page) <= query.limit

\* Analytics!Steady.
Calm == SteadyIn(table, query.range, opened)

\* Analytics!NothingMissed and TotalIsCovered, where the list is calm.
AllShown == (phase = "answered" /\ part = 1) => matched \subseteq seen
TotalShown ==
  (phase \in {"page", "answered"} /\ part = 1) =>
    Cardinality(page) >= (IF total - query.offset > query.limit THEN query.limit
                          ELSE total - query.offset)

\* Whoever turns the pages has been shown, or will be, all who matched at the start: who
\* has not been is still to come.
IList ==
  /\ phase \in {"idle", "overview", "summary", "events", "live", "export"}
       => page = {} /\ matched = {} /\ total = 0
  /\ Calm =>
       /\ phase \in {"count", "rows"} => Listed(table, query, matched \ seen, query.offset)
       /\ phase = "rows" => Promised(table, query, total)
       /\ phase = "page" => Listed(table, query, matched \ seen, query.offset + Cardinality(page))
       /\ AllShown /\ TotalShown

\* The summary is of the table of then, the events of the table at the end.
IDetail ==
  /\ detail = [session |-> detail.session, summary |-> detail.summary,
               events |-> detail.events, asOf |-> detail.asOf]
  /\ detail.summary # Nothing =>
       /\ phase \in {"events", "answered"} /\ detail.asOf \in 0 .. Len(table)
       /\ \E T : /\ Read(T, Was(detail.asOf))
                 /\ detail.summary = Summary(T, 1 .. detail.asOf, detail.session)
       /\ phase = "answered" => detail.events = SessionEvents(table, detail.session)

\* What the live view and the export are of a table.
LiveOf(T, since) ==
  [since |-> since, pages |-> Live(T, since), visitors |-> Total(Live(T, since))]
ExportOf(T, r) == [rows |-> Export(T, r, MaxExportRows)]

\* They are of the table as it is.
IReply ==
  reply # Nothing =>
    /\ phase = "answered"
    /\ \E T : /\ Read(T, table)
              /\ \/ \E since \in 1 .. (Len(Day) + 1) : reply = LiveOf(T, since)
                 \/ reply = ExportOf(T, range)

\* The inductive invariant.
IInv == ITable /\ ITypes /\ IParts /\ IOverview /\ IQuery /\ IList /\ IDetail /\ IReply
-----------------------------------------------------------------------------
(* The table, its growth and its readings.                                 *)

\* Rows of events the trackers sent are a log: a session has one visitor, an instant one day.
LEMMA SentLog ==
  ASSUME NEW T, Sent(T)
  PROVE  Log(T) /\ Len(T) \in Nat
<1>1. \A e, f \in Incoming : e.session = f.session => e.visitor = f.visitor
  BY AnalyticsAssumption
<1>2. ASSUME NEW i \in 1 .. Len(T), NEW j \in 1 .. Len(T), T[i].session = T[j].session
      PROVE  T[i].visitor = T[j].visitor
  <2>1. PICK e \in Incoming : T[i].session = e.session /\ T[i].visitor = e.visitor
    BY DEF Sent, FromTracker
  <2>2. PICK f \in Incoming : T[j].session = f.session /\ T[j].visitor = f.visitor
    BY DEF Sent, FromTracker
  <2> QED BY <1>1, <1>2, <2>1, <2>2
<1>3. \A i, j \in 1 .. Len(T) : T[i].at = T[j].at => T[i].day = T[j].day
  BY DEF Sent
<1>4. T \in Seq(Row) /\ Len(T) \in Nat
  BY DEF Sent
<1> QED
  BY <1>2, <1>3, <1>4 DEF Log

\* What the table was is a log.
LEMMA Earlier ==
  ASSUME NEW T, Log(T), NEW m \in 0 .. Len(T), NEW n \in 0 .. Len(T), m <= n
  PROVE  /\ Grown(SubSeq(T, 1, m), SubSeq(T, 1, n)) /\ Grown(SubSeq(T, 1, n), T)
         /\ Len(SubSeq(T, 1, n)) = n /\ Log(SubSeq(T, 1, n))
         /\ \A i \in 1 .. n : SubSeq(T, 1, n)[i] = T[i]
         /\ SubSeq(T, 1, Len(T)) = T
<1>1. T \in Seq(Row) /\ Len(T) \in Nat
  BY DEF Log
<1>2. \A k \in 0 .. Len(T) : /\ SubSeq(T, 1, k) \in Seq(Row) /\ Len(SubSeq(T, 1, k)) = k
                             /\ \A i \in 1 .. k : SubSeq(T, 1, k)[i] = T[i]
  BY <1>1
<1>3. \A k \in 0 .. Len(T) : Log(SubSeq(T, 1, k))
  <2> SUFFICES ASSUME NEW k \in 0 .. Len(T) PROVE Log(SubSeq(T, 1, k))
    OBVIOUS
  <2>1. \A i \in 1 .. k : i \in 1 .. Len(T)
    BY <1>1
  <2> QED BY <1>2, <2>1 DEF Log
<1>4. Grown(SubSeq(T, 1, m), SubSeq(T, 1, n))
  <2>1. \A i \in 1 .. m : i \in 1 .. n
    BY <1>1
  <2> QED BY <1>2, <1>3, <2>1 DEF Grown, Same
<1>5. Grown(SubSeq(T, 1, n), T)
  <2>1. n <= Len(T)
    BY <1>1
  <2> QED BY <1>2, <1>3, <2>1 DEF Grown, Same
<1>6. SubSeq(T, 1, Len(T)) = T
  BY <1>1
<1> QED
  BY <1>2, <1>3, <1>4, <1>5, <1>6

\* An event is stored.
LEMMA OneMore ==
  ASSUME NEW T, Sent(T), NEW e \in Incoming, NEW t \in DOMAIN Day, NEW U, U = Append(T, AsRow(e, t))
  PROVE  /\ Sent(U) /\ OneAtMost(T, U) /\ Len(U) = Len(T) + 1
         /\ \A n \in 0 .. Len(T) : SubSeq(U, 1, n) = SubSeq(T, 1, n)
<1> DEFINE row == AsRow(e, t)
<1>1. e \in [session : Nat, visitor : Nat, place : Nat, tag : Nat, num : Nat, type : STRING, name : STRING]
  BY AnalyticsAssumption
<1>2. /\ row \in Row /\ row.session = e.session /\ row.visitor = e.visitor
      /\ row.day = Day[row.at]
  <2>1. /\ {e.session, e.visitor, e.place, e.tag, e.num} \subseteq Nat
        /\ e.type \in STRING /\ e.name \in STRING
    BY <1>1
  <2>2. Day[t] \in Int
    <3>1. Day \in Seq(Int)
      BY AnalyticsAssumption
    <3> QED BY <3>1
  <2> QED BY <2>1, <2>2 DEF Row, AsRow
<1>3. T \in Seq(Row) /\ Len(T) \in Nat
  BY DEF Sent
<1> HIDE DEF row
<1>4. U = Append(T, row)
  BY DEF row
<1>5. /\ U \in Seq(Row) /\ Len(U) = Len(T) + 1 /\ U[Len(T) + 1] = row
      /\ \A i \in 1 .. Len(T) : U[i] = T[i]
  BY <1>2, <1>3, <1>4
<1>6. Sent(U)
  <2>1. FromTracker(row) /\ row.day = Day[row.at]
    BY <1>2 DEF FromTracker
  <2>2. \A i \in 1 .. Len(U) : i \in 1 .. Len(T) \/ U[i] = row
    BY <1>3, <1>5
  <2>3. \A i \in 1 .. Len(T) : FromTracker(U[i]) /\ U[i].day = Day[U[i].at]
    BY <1>5 DEF Sent
  <2> QED BY <1>5, <2>1, <2>2, <2>3 DEF Sent
<1>7. OneAtMost(T, U)
  <2>1. Len(T) <= Len(U) /\ Len(U) <= Len(T) + 1
    BY <1>3, <1>5
  <2> QED BY <1>5, <1>6, <2>1, SentLog DEF OneAtMost, Grown, Same
<1>8. ASSUME NEW n \in 0 .. Len(T) PROVE SubSeq(U, 1, n) = SubSeq(T, 1, n)
  <2>1. /\ SubSeq(T, 1, n) \in Seq(Row) /\ Len(SubSeq(T, 1, n)) = n
        /\ \A i \in 1 .. n : SubSeq(T, 1, n)[i] = T[i]
    BY <1>3
  <2>2. /\ SubSeq(U, 1, n) \in Seq(Row) /\ Len(SubSeq(U, 1, n)) = n
        /\ \A i \in 1 .. n : SubSeq(U, 1, n)[i] = U[i]
    <3>1. n \in 0 .. Len(U)
      BY <1>3, <1>5
    <3> QED BY <1>5, <3>1
  <2>3. \A i \in 1 .. n : U[i] = T[i]
    BY <1>3, <1>5
  <2> HIDE DEF row
  <2> QED BY <2>1, <2>2, <2>3, SeqEqual
<1> QED
  BY <1>5, <1>6, <1>7, <1>8

\* A function on the numbers up to n is a sequence of that length.
LEMMA AsSequence ==
  ASSUME NEW n \in Nat, NEW S, NEW f \in [1 .. n -> S]
  PROVE  f \in Seq(S) /\ Len(f) = n
<1>1. f = [i \in 1 .. n |-> f[i]] /\ \A i \in 1 .. n : f[i] \in S
  OBVIOUS
<1>2. f \in Seq(S)
  BY <1>1
<1>3. Len(f) \in Nat /\ DOMAIN f = 1 .. Len(f) /\ DOMAIN f = 1 .. n
  BY <1>2, LenProperties
<1>4. Len(f) = n
  <2>1. \A a, b \in Nat : 1 .. a = 1 .. b => a = b
    <3> SUFFICES ASSUME NEW a \in Nat, NEW b \in Nat, 1 .. a = 1 .. b PROVE a = b
      OBVIOUS
    <3>1. a > 0 => a \in 1 .. b
      OBVIOUS
    <3>2. b > 0 => b \in 1 .. a
      OBVIOUS
    <3> QED BY <3>1, <3>2
  <2> QED BY <1>3, <2>1
<1> QED
  BY <1>2, <1>4

\* A statement reads the rows of the table, sorted by their instants.
LEMMA Reads ==
  ASSUME NEW L, Log(L), NEW T \in Readings(L)
  PROVE  Read(T, L)
<1>1. PICK o \in Sorts(L) : T = [i \in 1 .. Len(L) |-> [L[i] EXCEPT !.nth = o[i]]]
  BY DEF Readings
<1>2. /\ o \in [1 .. Len(L) -> 1 .. Len(L)]
      /\ \A i, j \in 1 .. Len(L) : i # j => o[i] # o[j] /\ (L[i].at < L[j].at => o[i] < o[j])
  BY DEF Sorts
<1>3. Len(L) \in Nat /\ \A i \in 1 .. Len(L) : L[i] \in Row
  BY DEF Log
<1>4. ASSUME NEW i \in 1 .. Len(L)
      PROVE  T[i] \in Row /\ T[i].nth = o[i] /\ Same(T[i], L[i]) /\ Same(L[i], T[i])
  <2>1. L[i] \in Row /\ o[i] \in Nat /\ T[i] = [L[i] EXCEPT !.nth = o[i]]
    BY <1>1, <1>2, <1>3
  <2> QED BY <2>1 DEF Row, Same
<1>5. T \in [1 .. Len(L) -> Row]
  BY <1>1, <1>4
<1>6. T \in Seq(Row) /\ Len(T) = Len(L)
  BY <1>3, <1>5, AsSequence
<1>7. Log(T)
  BY <1>4, <1>6 DEF Log, Same
<1>8. Table(T)
  BY <1>2, <1>4, <1>6, <1>7 DEF Table, Same
<1> QED
  BY <1>3, <1>4, <1>6, <1>7, <1>8 DEF Read, Grown

\* Row by row they are the same.
LEMMA SameRows ==
  ASSUME NEW T, NEW L, Read(T, L)
  PROVE  /\ Table(T) /\ Log(L) /\ Len(T) = Len(L) /\ Len(L) \in Nat
         /\ \A i \in 1 .. Len(L) : Same(T[i], L[i])
         /\ \A r : Ev(T, r) = Ev(L, r)
<1>1. Log(L) /\ Table(T) /\ Len(T) <= Len(L) /\ Len(L) <= Len(T)
      /\ \A i \in 1 .. Len(T) : Same(T[i], L[i])
  BY DEF Read, Grown
<1>2. Len(T) = Len(L) /\ Len(L) \in Nat
  <2>1. Len(T) \in Nat /\ Len(L) \in Nat
    BY <1>1, RowTypes DEF Table
  <2> QED BY <1>1, <2>1
<1>3. \A r : Ev(T, r) = Ev(L, r)
  BY <1>1, <1>2 DEF Ev, Same
<1> QED
  BY <1>1, <1>2, <1>3

\* What is read later has grown.
LEMMA ReadLater ==
  ASSUME NEW T, NEW L, Read(T, L), NEW U, NEW M, Read(U, M)
  PROVE  /\ Grown(L, M) => Grown(T, U) /\ Grown(T, M)
         /\ OneAtMost(L, M) => OneAtMost(T, U)
<1>1. Grown(T, L) /\ Grown(M, U) /\ Len(T) = Len(L) /\ Len(U) = Len(M)
  BY SameRows DEF Read
<1>2. ASSUME Grown(L, M) PROVE Grown(T, M)
  BY <1>1, <1>2, GrownTwice
<1>3. ASSUME Grown(L, M) PROVE Grown(T, U)
  BY <1>1, <1>2, <1>3, GrownTwice
<1> QED
  BY <1>1, <1>2, <1>3 DEF OneAtMost

-----------------------------------------------------------------------------
(* Paging.                                                                 *)

\* The list depends on the filters alone.
LEMMA SameList ==
  ASSUME NEW T, NEW q, NEW p, p.range = q.range, p.converted = q.converted, p.tag = q.tag
  PROVE  /\ Matching(T, p) = Matching(T, q)
         /\ \A s : Rank(T, p, s) = Rank(T, q, s)
         /\ \A K, from : InList(T, p, K, from) <=> InList(T, q, K, from)
<1>1. Matching(T, p) = Matching(T, q)
  BY DEF Matching
<1>2. Ahead(T, p) = Ahead(T, q)
  BY <1>1 DEF Ahead
<1>3. \A s : Rank(T, p, s) = Rank(T, q, s)
  BY <1>2 DEF Rank
<1> QED
  BY <1>1, <1>3 DEF InList

\* The sessions of a page that begins at the offset and is as long as the list.
LEMMA Opened ==
  ASSUME NEW T, NEW q \in Query, NEW K, K \subseteq Page(T, [q EXCEPT !.limit = MaxRows])
  PROVE  InList(T, q, K, q.offset)
<1> DEFINE p == [q EXCEPT !.limit = MaxRows]
<1>1. p.range = q.range /\ p.converted = q.converted /\ p.tag = q.tag /\ p.offset = q.offset
  BY DEF Query
<1> HIDE DEF p
<1>2. \A s \in K : s \in Matching(T, p) /\ p.offset <= Rank(T, p, s)
  <2>1. K \subseteq Matching(T, p)
    BY PageIsSlice DEF Page, p
  <2> QED BY <2>1, PageIsSlice DEF p
<1>3. q.offset \in Nat
  BY DEF Query
<1>4. \A s \in K : s \in Matching(T, q) /\ q.offset <= Rank(T, q, s)
  BY <1>1, <1>2, SameList
<1> QED
  BY <1>4 DEF InList

\* However the table is sorted when it is read and read again, before and after a row is
\* stored: if the list is calm then, it was before, and it only grows.
LEMMA CalmReads ==
  ASSUME NEW L, NEW M, OneAtMost(L, M), NEW r, NEW n \in 0 .. Len(L), SteadyIn(M, r, n),
         NEW T, Read(T, L), NEW U, Read(U, M)
  PROVE  /\ Table(T) /\ Table(U) /\ OneAtMost(T, U)
         /\ n \in Nat /\ n <= Len(T) /\ SteadyIn(U, r, n)
<1>1. /\ Table(T) /\ Table(U) /\ Len(T) = Len(L) /\ Len(L) \in Nat /\ Len(U) = Len(M)
      /\ Len(M) \in Nat
  BY SameRows
<1>2. OneAtMost(T, U)
  BY ReadLater
<1>3. n \in Nat /\ n <= Len(T) /\ n <= Len(U)
  <2>1. Len(L) <= Len(M)
    BY DEF OneAtMost, Grown
  <2> QED BY <1>1, <2>1
<1>4. OneAtMost(U, M)
  <2>1. Len(M) <= Len(U) + 1
    BY <1>1
  <2> QED BY <2>1 DEF OneAtMost, Read
<1>5. SteadyIn(U, r, n)
  BY <1>3, <1>4, SteadyBefore
<1> QED
  BY <1>1, <1>2, <1>3, <1>5

\* Who reads a table read it, without the last row, before that was stored.
LEMMA ReadBefore ==
  ASSUME NEW L, NEW M, OneAtMost(L, M), NEW U, Read(U, M)
  PROVE  \E T : Read(T, L)
<1> DEFINE n == Len(L)
           T == SubSeq(U, 1, n)
<1>1. /\ Table(U) /\ Log(M) /\ Log(L) /\ Len(U) = Len(M) /\ n \in Nat /\ n <= Len(M)
      /\ Len(M) \in Nat
  BY SameRows, RowTypes DEF OneAtMost, Grown
<1>2. Log(U) /\ n \in 0 .. Len(U)
  BY <1>1 DEF Table
<1>3. Log(T) /\ Len(T) = n /\ \A i \in 1 .. n : T[i] = U[i]
  BY <1>2, Earlier
<1>4. \A i \in 1 .. n : i \in 1 .. Len(U) /\ Same(T[i], L[i]) /\ Same(L[i], T[i])
  <2> SUFFICES ASSUME NEW i \in 1 .. n
               PROVE  i \in 1 .. Len(U) /\ Same(T[i], L[i]) /\ Same(L[i], T[i])
    OBVIOUS
  <2>1. i \in 1 .. Len(M) /\ i \in 1 .. Len(U)
    BY <1>1
  <2>2. Same(U[i], M[i])
    BY <2>1, SameRows
  <2>3. Same(L[i], M[i])
    BY DEF OneAtMost, Grown
  <2>4. T[i] = U[i]
    BY <1>3
  <2> HIDE DEF T
  <2> QED BY <2>1, <2>2, <2>3, <2>4 DEF Same
<1> HIDE DEF T
<1>5. Table(T)
  BY <1>1, <1>3, <1>4 DEF Table
<1>6. Read(T, L)
  BY <1>1, <1>3, <1>4, <1>5 DEF Read, Grown
<1> QED
  BY <1>6

\* New rows push a session down the list, or leave it where it is.
LEMMA PushedAlong ==
  ASSUME NEW T, Table(T), NEW U, Table(U), OneAtMost(T, U), NEW q \in Query, NEW n \in Nat,
         n <= Len(T), SteadyIn(U, q.range, n), NEW K, NEW from \in Nat, InList(T, q, K, from)
  PROVE  InList(U, q, K, from)
<1> SUFFICES ASSUME NEW s \in K PROVE s \in Matching(U, q) /\ Rank(U, q, s) >= from
  BY DEF InList
<1>1. s \in Matching(T, q) /\ Rank(T, q, s) >= from
  BY DEF InList
<1>2. s \in Matching(U, q) /\ Rank(T, q, s) <= Rank(U, q, s)
  BY <1>1, ListGrows
<1>3. Rank(T, q, s) \in Int /\ Rank(U, q, s) \in Int
  <2>1. q.offset \in Nat /\ q.limit \in Nat
    BY AnalyticsAssumption DEF Query
  <2>2. /\ Rank(T, q, s) \in 0 .. Cardinality(Matching(T, q)) - 1
        /\ Rank(U, q, s) \in 0 .. Cardinality(Matching(U, q)) - 1
        /\ Cardinality(Matching(T, q)) \in Nat /\ Cardinality(Matching(U, q)) \in Nat
    BY <1>1, <1>2, <2>1, PageSize
  <2> QED BY <2>2
<1> QED
  BY <1>1, <1>2, <1>3

\* So whoever is in the list as it was read once is in it however it is read again.
LEMMA StaysListed ==
  ASSUME NEW L, NEW M, OneAtMost(L, M), NEW q \in Query, NEW n \in 0 .. Len(L),
         SteadyIn(M, q.range, n), NEW T, Read(T, L), NEW K, NEW from \in Nat, InList(T, q, K, from)
  PROVE  Listed(M, q, K, from)
<1> SUFFICES ASSUME NEW U, Read(U, M) PROVE InList(U, q, K, from)
  BY DEF Listed
<1>1. /\ Table(T) /\ Table(U) /\ OneAtMost(T, U)
      /\ n \in Nat /\ n <= Len(T) /\ SteadyIn(U, q.range, n)
  BY CalmReads
<1> QED
  BY <1>1, PushedAlong

\* And the list is no shorter.
LEMMA StaysLong ==
  ASSUME NEW L, NEW M, OneAtMost(L, M), NEW q \in Query, NEW n \in 0 .. Len(L),
         SteadyIn(M, q.range, n), NEW T, Read(T, L), NEW k \in Nat,
         k <= Cardinality(Matching(T, q))
  PROVE  Promised(M, q, k)
<1> SUFFICES ASSUME NEW U, Read(U, M) PROVE k <= Cardinality(Matching(U, q))
  BY DEF Promised
<1>1. /\ Table(T) /\ Table(U) /\ OneAtMost(T, U)
      /\ n \in Nat /\ n <= Len(T) /\ SteadyIn(U, q.range, n)
  BY CalmReads
<1>2. Cardinality(Matching(T, q)) <= Cardinality(Matching(U, q))
  BY <1>1, ListGrows
<1>3. Cardinality(Matching(T, q)) \in Nat /\ Cardinality(Matching(U, q)) \in Nat
  <2>1. q.offset \in Nat /\ q.limit \in Nat
    BY AnalyticsAssumption DEF Query
  <2> QED BY <1>1, <2>1, PageSize
<1> QED
  BY <1>2, <1>3

\* Nothing at all in between is the least of it.
LEMMA NoneMore ==
  ASSUME NEW L, Log(L)
  PROVE  OneAtMost(L, L)
<1>1. Len(L) \in Nat
  BY RowTypes
<1> QED
  BY <1>1 DEF OneAtMost, Grown, Same

\* A page shows what is to come next, and is empty only when nothing is.
LEMMA Turn ==
  ASSUME NEW T, Table(T), NEW q \in Query, NEW K, InList(T, q, K, q.offset)
  PROVE  /\ IsFiniteSet(Page(T, q)) /\ Cardinality(Page(T, q)) \in Nat
         /\ Cardinality(Page(T, q)) <= q.limit
         /\ InList(T, q, K \ Page(T, q), q.offset + Cardinality(Page(T, q)))
         /\ Page(T, q) = {} => K = {}
         /\ \A n \in Nat : n <= Cardinality(Matching(T, q)) =>
              Cardinality(Page(T, q)) >= (IF n - q.offset > q.limit THEN q.limit ELSE n - q.offset)
<1> DEFINE P == Page(T, q)
           c == Cardinality(P)
           N == Cardinality(Matching(T, q))
           a == q.offset
           l == q.limit
<1>1. a \in Nat /\ l \in Nat /\ l >= 1
  BY AnalyticsAssumption DEF Query
<1>2. /\ IsFiniteSet(P) /\ N \in Nat
      /\ c = IF N - a > l THEN l ELSE IF N > a THEN N - a ELSE 0
      /\ \A s \in Matching(T, q) : Rank(T, q, s) \in 0 .. N - 1
  BY <1>1, PageSize
<1>3. \A s \in Matching(T, q) : s \in P <=> a <= Rank(T, q, s) /\ Rank(T, q, s) < a + l
  BY PageIsSlice
<1>4. \A s \in K : s \in Matching(T, q) /\ Rank(T, q, s) >= a
  BY DEF InList
<1>5. P = {} => c = 0
  BY FS_EmptySet
<1> HIDE DEF P, c, N, a, l
<1>6. c \in Nat /\ c <= l
  BY <1>1, <1>2
<1>7. ASSUME NEW s \in K \ P PROVE s \in Matching(T, q) /\ Rank(T, q, s) >= a + c
  <2>1. s \in Matching(T, q) /\ Rank(T, q, s) \in 0 .. N - 1 /\ Rank(T, q, s) >= a
    BY <1>2, <1>4
  <2>2. ~ (Rank(T, q, s) < a + l)
    BY <1>3, <2>1
  <2> QED BY <1>1, <1>2, <1>6, <2>1, <2>2
<1>8. ASSUME P = {}, NEW s \in K PROVE FALSE
  <2>1. s \in Matching(T, q) /\ Rank(T, q, s) \in 0 .. N - 1 /\ Rank(T, q, s) >= a
    BY <1>2, <1>4
  <2>2. ~ (Rank(T, q, s) < a + l)
    BY <1>3, <1>8, <2>1
  <2>3. N > a /\ c = 0
    BY <1>1, <1>2, <1>5, <1>8, <2>1
  <2> QED BY <1>1, <1>2, <2>3
<1>9. ASSUME NEW n \in Nat, n <= N PROVE c >= IF n - a > l THEN l ELSE n - a
  BY <1>1, <1>2, <1>9
<1>10. InList(T, q, K \ P, a + c)
  BY <1>7 DEF InList
<1> QED
  BY <1>2, <1>6, <1>8, <1>9, <1>10 DEF P, c, N, a, l
-----------------------------------------------------------------------------
(* The invariant is kept.                                                  *)

\* Where no list is being read.
Idle == {"idle", "overview", "summary", "events", "live", "export"}

\* The parts by number: the totals are the first, and come once.
LEMMA PartNames ==
  /\ Len(Parts) = 16
  /\ \A k \in 1 .. 16 : Parts[k] \in DOMAIN Blank
  /\ Parts[1] = "current" /\ \A k \in 2 .. 16 : Parts[k] # "current"
  /\ "current" \in DOMAIN Blank /\ "previous" \in DOMAIN Blank
<1>1. Len(Parts) = 16
  BY DEF Parts
<1>2. DOMAIN Blank = {Parts[k] : k \in 1 .. Len(Parts)}
  BY DEF Blank
<1>3. Parts[1] = "current" /\ Parts[2] = "previous"
  BY DEF Parts
<1>4. \A k \in 2 .. 16 : Parts[k] # "current"
  BY DEF Parts
<1>5. 1 \in 1 .. 16 /\ 2 \in 1 .. 16
  OBVIOUS
<1> HIDE DEF Blank
<1> QED
  BY <1>1, <1>2, <1>3, <1>4, <1>5

\* It holds at the start.
LEMMA Begin ==
  Init => IInv
<1> SUFFICES ASSUME Init PROVE IInv
  OBVIOUS
<1>1. ITable
  <2>1. PICK n \in 0 .. MaxRows : table \in [1 .. n -> Rows]
    BY DEF Init, Stored
  <2>2. \A x \in Rows : x \in Row /\ FromTracker(x) /\ x.day = Day[x.at]
    <3> SUFFICES ASSUME NEW e \in Incoming, NEW t \in DOMAIN Day
                 PROVE  /\ AsRow(e, t) \in Row /\ FromTracker(AsRow(e, t))
                        /\ AsRow(e, t).day = Day[AsRow(e, t).at]
      BY DEF Rows
    <3>1. /\ {e.session, e.visitor, e.place, e.tag, e.num} \subseteq Nat
          /\ e.type \in STRING /\ e.name \in STRING
      BY AnalyticsAssumption
    <3>2. Day[t] \in Int
      <4>1. Day \in Seq(Int)
        BY AnalyticsAssumption
      <4> QED BY <4>1
    <3> QED BY <3>1, <3>2 DEF AsRow, Row, FromTracker
  <2>3. n \in Nat /\ n <= MaxRows
    BY AnalyticsAssumption
  <2>4. table \in [1 .. n -> Row]
    BY <2>1, <2>2
  <2>5. table \in Seq(Row) /\ Len(table) = n
    BY <2>3, <2>4, AsSequence
  <2>6. \A i \in 1 .. n : table[i] \in Rows
    BY <2>1
  <2> QED BY <2>2, <2>3, <2>5, <2>6 DEF ITable, Sent
<1>2. ITypes
  BY AnalyticsAssumption DEF Init, ITypes
<1>3. IParts
  BY PartNames DEF Init, IParts
<1>4. IOverview
  <2>1. asOf = [p \in DOMAIN Blank |-> -1] /\ out = Blank
    BY DEF Init, Unread
  <2>2. Len(table) \in Nat
    BY <1>1, SentLog DEF ITable
  <2>3. asOf \in [DOMAIN Blank -> -1 .. Len(table)]
    BY <2>1, <2>2
  <2> QED BY <2>1, <2>3 DEF IOverview
<1>5. IsFiniteSet({}) /\ Cardinality({}) = 0
  BY FS_EmptySet
<1>6. IQuery
  <2>1. query \in Query
    BY AnalyticsAssumption DEF Init, Query, Days
  <2>2. 0 \in 0 .. Len(table)
    BY <1>1, SentLog DEF ITable
  <2> QED BY <1>5, <2>1, <2>2, AnalyticsAssumption DEF Init, IQuery, Query
<1>7. IList
  BY DEF Init, IList, AllShown, TotalShown
<1>8. IDetail
  BY DEF Init, IDetail, NoSession
<1>9. IReply
  BY DEF Init, IReply
<1> QED
  BY <1>1, <1>2, <1>3, <1>4, <1>6, <1>7, <1>8, <1>9 DEF IInv

\* An event that is stored lets the table grow and leaves what it was.
LEMMA StoreGrows ==
  ASSUME ITable, NEW e \in Incoming, Store(e)
  PROVE  /\ ITable' /\ OneAtMost(table, table') /\ Len(table) \in Nat
         /\ Len(table') = Len(table) + 1
         /\ \A n \in 0 .. Len(table) : SubSeq(table', 1, n) = SubSeq(table, 1, n)
<1>1. PICK t \in DOMAIN Day : table' = Append(table, AsRow(e, t))
  BY DEF Store
<1>2. Sent(table) /\ Len(table) < MaxRows
  BY DEF ITable, Store
<1>3. /\ Sent(table') /\ OneAtMost(table, table') /\ Len(table') = Len(table) + 1
      /\ \A n \in 0 .. Len(table) : SubSeq(table', 1, n) = SubSeq(table, 1, n)
  BY <1>1, <1>2, OneMore
<1>4. Len(table) \in Nat /\ MaxRows \in Nat
  BY <1>2, AnalyticsAssumption DEF Sent
<1>5. Len(table') <= MaxRows
  BY <1>2, <1>3, <1>4
<1> QED
  BY <1>3, <1>4, <1>5 DEF ITable

\* Nothing else touches the table.
LEMMA TableStep ==
  IInv /\ [Next]_vars => ITable'
<1> SUFFICES ASSUME IInv, [Next]_vars PROVE ITable'
  OBVIOUS
<1>1. CASE \E e \in Incoming : Store(e)
  BY <1>1, StoreGrows DEF IInv
<1>2. CASE UNCHANGED table
  BY <1>2 DEF IInv, ITable, Sent
<1> QED
  BY <1>1, <1>2
     DEF Next, vars, Overview, NextPart, Sessions, CountSessions, ListSessions, TurnPage,
         Session, ReadSummary, ReadEvents, AskLive, ReadLive, AskExport, ReadExport, Fails

\* The table and what it was are logs, and are read as such.
LEMMA TableNow ==
  ASSUME IInv
  PROVE  /\ Log(table) /\ Len(table) \in Nat /\ SubSeq(table, 1, Len(table)) = table
         /\ OneAtMost(table, table)
         /\ \A T \in Readings(table) : Read(T, table)
<1>1. Log(table) /\ Len(table) \in Nat
  BY SentLog DEF IInv, ITable
<1>2. SubSeq(table, 1, Len(table)) = table
  BY <1>1, Earlier
<1> QED
  BY <1>1, <1>2, NoneMore, Reads

\* The request stays of its type.
LEMMA TypesStep ==
  IInv /\ [Next]_vars => ITypes' /\ IParts'
<1> SUFFICES ASSUME IInv, [Next]_vars PROVE ITypes' /\ IParts'
  OBVIOUS
<1> USE AnalyticsAssumption, PartNames DEF IInv, ITypes, IParts, Reading
<1>1. CASE \E e \in Incoming : Store(e)
  BY <1>1 DEF Store, overviewVars
<1>3. CASE \E r \in Ranges : Overview(r)
  BY <1>3 DEF Overview, overviewVars
<1>4. CASE NextPart
  BY <1>4 DEF NextPart
<1>5. CASE \E q \in Lists : Sessions(q)
  BY <1>5 DEF Sessions, overviewVars
<1>6. CASE CountSessions
  BY <1>6 DEF CountSessions, overviewVars
<1>7. CASE ListSessions
  BY <1>7 DEF ListSessions, overviewVars
<1>8. CASE TurnPage
  BY <1>8 DEF TurnPage, overviewVars
<1>9. CASE \E e \in Incoming : Session(e.session)
  BY <1>9 DEF Session, overviewVars
<1>10. CASE ReadSummary
  BY <1>10 DEF ReadSummary, overviewVars
<1>11. CASE ReadEvents
  BY <1>11 DEF ReadEvents, overviewVars
<1>12. CASE AskLive
  BY <1>12 DEF AskLive, overviewVars
<1>13. CASE ReadLive
  BY <1>13 DEF ReadLive, overviewVars
<1>14. CASE \E r \in Ranges : AskExport(r)
  BY <1>14 DEF AskExport, overviewVars
<1>15. CASE ReadExport
  BY <1>15 DEF ReadExport, overviewVars
<1>16. CASE Fails
  BY <1>16 DEF Fails
<1>17. CASE UNCHANGED vars
  BY <1>17 DEF vars, overviewVars
<1> QED
  BY <1>1, <1>3, <1>4, <1>5, <1>6, <1>7, <1>8, <1>9, <1>10, <1>11, <1>12, <1>13, <1>14,
     <1>15, <1>16, <1>17 DEF Next

\* A part is read when its turn comes, after the totals; the table only grows.
LEMMA OverviewStep ==
  IInv /\ [Next]_vars => IOverview'
<1> SUFFICES ASSUME IInv, [Next]_vars PROVE IOverview'
  OBVIOUS
<1> DEFINE D == DOMAIN Blank
<1>1. /\ asOf \in [D -> -1 .. Len(table)] /\ DOMAIN out = D
      /\ \A p \in D : asOf[p] >= 0 =>
           /\ \E T : Read(T, SubSeq(table, 1, asOf[p])) /\ out[p] = Answer(T, range, p)
           /\ phase \in {"overview", "answered"} /\ ValidDays(range) # 0
           /\ asOf["current"] <= asOf[p]
  BY DEF IInv, IOverview, Was
<1>2. Len(table) \in Nat
  BY TableNow
<1>3. part \in 1 .. 16 + 1 /\ (phase = "idle" => part = 1) /\ (part = 1 => asOf = Unread)
      /\ (phase = "overview" => ValidDays(range) # 0 /\ part <= 16)
  BY PartNames DEF IInv, IParts
<1>4. Unread = [p \in D |-> -1] /\ DOMAIN Blank = D
  BY DEF Unread
<1>5. "current" \in D
  BY PartNames
<1>6. SUFFICES /\ asOf' \in [D -> -1 .. Len(table')] /\ DOMAIN out' = D
               /\ \A p \in D : asOf'[p] >= 0 =>
                    /\ \E T : Read(T, SubSeq(table', 1, asOf'[p])) /\ out'[p] = Answer(T, range', p)
                    /\ phase' \in {"overview", "answered"} /\ ValidDays(range') # 0
                    /\ asOf'["current"] <= asOf'[p]
  BY DEF IOverview, Was
<1> HIDE DEF D
<1>7. CASE \E e \in Incoming : Store(e)
  <2>1. PICK e \in Incoming : Store(e)
    BY <1>7
  <2>2. /\ Len(table') = Len(table) + 1
        /\ \A n \in 0 .. Len(table) : SubSeq(table', 1, n) = SubSeq(table, 1, n)
    BY <2>1, StoreGrows DEF IInv
  <2>3. UNCHANGED <<range, out, asOf, phase>>
    BY <2>1 DEF Store, overviewVars
  <2>4. asOf \in [D -> -1 .. Len(table')]
    BY <1>1, <1>2, <2>2
  <2>5. \A p \in D : asOf[p] >= 0 => asOf[p] \in 0 .. Len(table)
    BY <1>1, <1>2
  <2> QED BY <1>1, <2>2, <2>3, <2>4, <2>5
<1>8. CASE NextPart
  <2> DEFINE p == Parts[part]
  <2>0. PICK U \in Readings(table) : out' = [out EXCEPT ![p] = Answer(U, range, p)]
    BY <1>8 DEF NextPart
  <2>1. /\ phase = "overview" /\ UNCHANGED <<table, range>>
        /\ out' = [out EXCEPT ![p] = Answer(U, range, p)]
        /\ asOf' = [asOf EXCEPT ![p] = Len(table)]
        /\ phase' \in {"overview", "answered"}
    BY <1>8, <2>0 DEF NextPart
  <2>2. p \in D /\ ValidDays(range) # 0 /\ (part = 1 => p = "current") /\ (part # 1 => p # "current")
    <3>1. part \in 1 .. 16
      BY <1>3, <2>1
    <3>2. part # 1 => part \in 2 .. 16
      BY <3>1
    <3> QED BY <1>3, <2>1, <3>1, <3>2, PartNames DEF D
  <2>3. SubSeq(table, 1, Len(table)) = table /\ Read(U, table)
    BY TableNow
  <2> HIDE DEF p
  <2>4. asOf' \in [D -> -1 .. Len(table')] /\ DOMAIN out' = D
    BY <1>1, <1>2, <2>1, <2>2
  <2>5. /\ asOf'[p] = Len(table) /\ out'[p] = Answer(U, range, p)
        /\ \A o \in D : o # p => asOf'[o] = asOf[o] /\ out'[o] = out[o]
    BY <1>1, <2>1, <2>2
  <2>6. ASSUME NEW o \in D, asOf'[o] >= 0
        PROVE  /\ \E T : Read(T, SubSeq(table, 1, asOf'[o])) /\ out'[o] = Answer(T, range, o)
               /\ asOf'["current"] <= asOf'[o]
    <3>1. CASE o = p
      <4>1. \E T : Read(T, SubSeq(table, 1, asOf'[o])) /\ out'[o] = Answer(T, range, o)
        BY <2>3, <2>5, <3>1
      <4>2. asOf'["current"] <= Len(table)
        BY <1>1, <1>2, <1>5, <2>5
      <4> QED BY <2>5, <3>1, <4>1, <4>2
    <3>2. CASE o # p
      <4>1. asOf'[o] = asOf[o] /\ out'[o] = out[o] /\ asOf[o] >= 0
        BY <2>5, <2>6, <3>2
      <4>2. part # 1
        BY <1>3, <1>4, <4>1
      <4>3. asOf'["current"] = asOf["current"]
        BY <1>5, <2>2, <2>5, <4>2
      <4> QED BY <1>1, <4>1, <4>3
    <3> QED BY <3>1, <3>2
  <2> QED BY <2>1, <2>2, <2>4, <2>6
<1>9. CASE UNCHANGED table /\ asOf' = Unread /\ DOMAIN out' = D
  BY <1>2, <1>4, <1>9
<1>10. CASE UNCHANGED <<table, range, out, asOf, phase>>
  BY <1>1, <1>10
<1>11. CASE UNCHANGED <<table, range, out, asOf>> /\ phase \notin {"overview", "answered"}
  <2>1. \A p \in D : ~ (asOf[p] >= 0)
    BY <1>1, <1>11
  <2> QED BY <1>1, <1>11, <2>1
<1>12. CASE phase = "idle" /\ UNCHANGED <<table, out, asOf>>
  <2>1. asOf = Unread
    BY <1>3, <1>12
  <2> QED BY <1>1, <1>9, <1>12, <2>1
<1>13. CASE Fails
  <2>1. UNCHANGED table /\ asOf' = Unread /\ out' = Blank
    BY <1>13 DEF Fails
  <2> QED BY <1>4, <1>9, <2>1
<1>14. CASE (\E r \in Ranges : Overview(r)) \/ (\E r \in Ranges : AskExport(r))
  BY <1>12, <1>14 DEF Overview, AskExport, overviewVars
<1>15. CASE UNCHANGED vars
  BY <1>10, <1>15 DEF vars, overviewVars
<1>16. CASE \/ \E q \in Lists : Sessions(q)
            \/ CountSessions \/ ListSessions \/ TurnPage
            \/ \E e \in Incoming : Session(e.session)
            \/ ReadSummary \/ ReadEvents \/ AskLive \/ ReadLive \/ ReadExport
  BY <1>11, <1>16 DEF Sessions, CountSessions, ListSessions, TurnPage, Session, ReadSummary,
     ReadEvents, AskLive, ReadLive, ReadExport, overviewVars
<1> QED
  BY <1>7, <1>8, <1>13, <1>14, <1>15, <1>16 DEF Next

\* The reader misses nothing, while the list is calm.
LEMMA ListStep ==
  IInv /\ [Next]_vars => IQuery' /\ IList'
<1> SUFFICES ASSUME IInv, [Next]_vars PROVE IQuery' /\ IList'
  OBVIOUS
<1> DEFINE K == matched \ seen
<1>1. /\ query \in Query /\ total \in Nat /\ opened \in 0 .. Len(table)
      /\ IsFiniteSet(page) /\ Cardinality(page) <= query.limit
      /\ query.offset \in Nat /\ query.limit \in 1 .. MaxLimit
  BY DEF IInv, IQuery, Query
<1>2. /\ phase \in Idle => page = {} /\ matched = {} /\ total = 0
      /\ Calm =>
           /\ phase \in {"count", "rows"} => Listed(table, query, K, query.offset)
           /\ phase = "rows" => Promised(table, query, total)
           /\ phase = "page" => Listed(table, query, K, query.offset + Cardinality(page))
           /\ AllShown /\ TotalShown
  BY DEF IInv, IList, Idle
<1>3. /\ Log(table) /\ Len(table) \in Nat /\ OneAtMost(table, table)
      /\ \A T \in Readings(table) : Read(T, table)
  BY TableNow
<1>4. Cardinality(page) \in Nat
  BY <1>1, FS_CardinalityType
<1>5. CASE \E e \in Incoming : Store(e)
  <2>1. PICK e \in Incoming : Store(e)
    BY <1>5
  <2>2. OneAtMost(table, table') /\ Len(table') = Len(table) + 1
    BY <2>1, StoreGrows DEF IInv
  <2>3. /\ UNCHANGED <<query, total, page, opened, matched, seen, phase, part>>
        /\ phase # "answered"
    BY <2>1 DEF Store, listVars, overviewVars, Reading
  <2>4. IQuery'
    BY <1>1, <1>3, <2>2, <2>3 DEF IQuery, Query
  <2>5. ASSUME Calm'
        PROVE  /\ phase \in {"count", "rows"} => Listed(table', query, K, query.offset)
               /\ phase = "rows" => Promised(table', query, total)
               /\ phase = "page" => Listed(table', query, K, query.offset + Cardinality(page))
               /\ TotalShown
    <3>1. SteadyIn(table', query.range, opened)
      BY <2>3, <2>5 DEF Calm
    <3>2. Calm
      <4>1. opened \in Nat /\ opened <= Len(table)
        BY <1>1, <1>3
      <4> QED BY <2>2, <3>1, <4>1, SteadyBefore DEF Calm
    <3>3. ASSUME NEW from \in Nat, Listed(table, query, K, from) PROVE Listed(table', query, K, from)
      <4> SUFFICES ASSUME NEW U, Read(U, table') PROVE InList(U, query, K, from)
        BY DEF Listed
      <4>1. PICK T : Read(T, table)
        BY <2>2, ReadBefore
      <4>2. InList(T, query, K, from)
        BY <3>3, <4>1 DEF Listed
      <4>3. Listed(table', query, K, from)
        BY <1>1, <2>2, <3>1, <4>1, <4>2, StaysListed
      <4> QED BY <4>3 DEF Listed
    <3>4. ASSUME Promised(table, query, total) PROVE Promised(table', query, total)
      <4> SUFFICES ASSUME NEW U, Read(U, table') PROVE total <= Cardinality(Matching(U, query))
        BY DEF Promised
      <4>1. PICK T : Read(T, table)
        BY <2>2, ReadBefore
      <4>2. total <= Cardinality(Matching(T, query))
        BY <3>4, <4>1 DEF Promised
      <4>3. Promised(table', query, total)
        BY <1>1, <2>2, <3>1, <4>1, <4>2, StaysLong
      <4> QED BY <4>3 DEF Promised
    <3>5. query.offset + Cardinality(page) \in Nat
      BY <1>1, <1>4
    <3> QED BY <1>1, <1>2, <3>2, <3>3, <3>4, <3>5
  <2>6. (AllShown /\ TotalShown => AllShown' /\ TotalShown') /\ (AllShown' <=> AllShown)
        /\ (TotalShown' <=> TotalShown) /\ AllShown
    BY <2>3 DEF AllShown, TotalShown
  <2> QED BY <1>2, <2>3, <2>4, <2>5, <2>6 DEF IList, Idle
<1>6. CASE CountSessions
  <2>1. PICK T \in Readings(table) : total' = Cardinality(Matching(T, query)) /\ Open(T)
    BY <1>6 DEF CountSessions
  <2>2. /\ phase = "count" /\ phase' = "rows"
        /\ UNCHANGED <<table, query, page, seen>>
    BY <1>6 DEF CountSessions
  <2>3. Read(T, table) /\ Table(T) /\ Len(T) = Len(table)
    BY <1>3, <2>1, SameRows
  <2>4. total' \in Nat
    <3>1. query.limit \in Nat
      BY <1>1, AnalyticsAssumption
    <3> QED BY <1>1, <2>1, <2>3, <3>1, PageSize
  <2>5. opened' \in 0 .. Len(table) /\ (seen # {} => UNCHANGED <<opened, matched>>)
        /\ (seen = {} => matched' = ToCome(T))
    BY <1>1, <1>3, <2>1, <2>3 DEF Open
  <2>6. IQuery'
    BY <1>1, <2>2, <2>4, <2>5 DEF IQuery, Query
  <2>7. ASSUME Calm'
        PROVE  Listed(table, query, matched' \ seen, query.offset) /\ Promised(table, query, total')
    <3>1. SteadyIn(table, query.range, opened')
      BY <2>2, <2>7 DEF Calm
    <3>2. Promised(table, query, total')
      <4>1. total' <= Cardinality(Matching(T, query))
        BY <2>1, <2>4
      <4> QED BY <1>1, <1>3, <2>3, <2>4, <2>5, <3>1, <4>1, StaysLong
    <3>3. CASE seen = {}
      <4>1. matched' \ seen \subseteq Page(T, [query EXCEPT !.limit = MaxRows])
        BY <2>5, <3>3 DEF ToCome
      <4>2. InList(T, query, matched' \ seen, query.offset)
        BY <1>1, <4>1, Opened
      <4>3. Listed(table, query, matched' \ seen, query.offset)
        BY <1>1, <1>3, <2>3, <2>5, <3>1, <4>2, StaysListed
      <4> QED BY <3>2, <4>3
    <3>4. CASE seen # {}
      <4>1. UNCHANGED <<opened, matched>>
        BY <2>5, <3>4
      <4>2. Calm
        BY <3>1, <4>1 DEF Calm
      <4> QED BY <1>2, <2>2, <3>2, <4>1, <4>2
    <3> QED BY <3>3, <3>4
  <2>8. AllShown' /\ TotalShown'
    BY <2>2 DEF AllShown, TotalShown
  <2> QED BY <2>2, <2>6, <2>7, <2>8 DEF IList
<1>7. CASE ListSessions
  <2>1. PICK T \in Readings(table) : page' = Page(T, query)
    BY <1>7 DEF ListSessions
  <2> DEFINE P == Page(T, query)
             N == Cardinality(Matching(T, query))
  <2>2. /\ phase = "rows" /\ page' = P /\ seen' = seen \cup P
        /\ phase' = IF P = {} THEN "answered" ELSE "page"
        /\ UNCHANGED <<table, query, total, opened, matched>>
    BY <1>7, <2>1 DEF ListSessions
  <2>3. Read(T, table) /\ Table(T)
    BY <1>3, <2>1, SameRows
  <2>4. IsFiniteSet(P) /\ Cardinality(P) <= query.limit /\ Cardinality(P) \in Nat
    <3>1. InList(T, query, {}, query.offset)
      BY DEF InList
    <3> QED BY <1>1, <2>3, <3>1, Turn
  <2>5. IQuery'
    <3> HIDE DEF P
    <3> QED BY <1>1, <2>2, <2>4 DEF IQuery, Query
  <2>6. ASSUME Calm'
        PROVE  /\ Listed(table, query, K \ P, query.offset + Cardinality(P))
               /\ AllShown' /\ TotalShown'
    <3>1. SteadyIn(table, query.range, opened) /\ Calm
      BY <2>2, <2>6 DEF Calm
    <3>2. InList(T, query, K, query.offset) /\ total <= N
      BY <1>2, <2>2, <2>3, <3>1 DEF Listed, Promised
    <3>3. /\ InList(T, query, K \ P, query.offset + Cardinality(P))
          /\ P = {} => K = {}
          /\ \A n \in Nat : n <= N =>
               Cardinality(P) >= (IF n - query.offset > query.limit THEN query.limit ELSE n - query.offset)
      BY <1>1, <2>3, <3>2, Turn
    <3> HIDE DEF P, N
    <3>4. query.offset + Cardinality(P) \in Nat
      BY <1>1, <2>4
    <3>5. Listed(table, query, K \ P, query.offset + Cardinality(P))
      BY <1>1, <1>3, <2>3, <3>1, <3>3, <3>4, StaysListed
    <3>6. AllShown'
      BY <2>2, <3>3 DEF AllShown
    <3>7. TotalShown'
      BY <1>1, <2>2, <3>2, <3>3 DEF TotalShown
    <3> QED BY <3>5, <3>6, <3>7
  <2> HIDE DEF P
  <2>7. K \ P = matched' \ seen'
    BY <2>2
  <2> QED BY <2>2, <2>5, <2>6, <2>7 DEF IList
<1>8. CASE TurnPage
  <2> DEFINE q == [query EXCEPT !.offset = @ + Cardinality(page)]
  <2>1. /\ phase = "page" /\ phase' = "count" /\ query' = q
        /\ UNCHANGED <<table, total, page, opened, matched, seen>>
    BY <1>8 DEF TurnPage
  <2>2. /\ q.range = query.range /\ q.converted = query.converted /\ q.tag = query.tag
        /\ q.limit = query.limit /\ q.offset = query.offset + Cardinality(page) /\ q \in Query
    BY <1>1, <1>4 DEF Query
  <2> HIDE DEF q
  <2>3. ASSUME Calm' PROVE Listed(table, q, K, q.offset)
    <3>1. Calm
      BY <2>1, <2>2, <2>3 DEF Calm
    <3>2. Listed(table, query, K, q.offset)
      BY <1>2, <2>1, <2>2, <3>1
    <3> QED BY <2>2, <3>2, SameList DEF Listed
  <2>4. IQuery'
    BY <1>1, <2>1, <2>2 DEF IQuery, Query
  <2>5. AllShown' /\ TotalShown'
    BY <2>1 DEF AllShown, TotalShown
  <2> QED BY <2>1, <2>3, <2>4, <2>5 DEF IList
<1>9. CASE \E q \in Lists : Sessions(q)
  <2>1. PICK q \in Lists : Sessions(q)
    BY <1>9
  <2> DEFINE p == [q EXCEPT !.limit = Clamp(q.limit, 1, MaxLimit, DefaultLimit),
                            !.offset = IF q.offset < 0 THEN 0 ELSE q.offset]
  <2>2. /\ phase = "idle" /\ phase' \in {"rejected", "count"} /\ query' = p
        /\ UNCHANGED <<table, total, page, opened, matched, seen>>
    BY <2>1 DEF Sessions
  <2>3. p \in Query /\ p.limit >= 1 /\ p.limit \in Nat
    <3>1. /\ q \in [range : Days, converted : BOOLEAN, tag : Nat, limit : Int, offset : Int]
          /\ MaxLimit \in Nat /\ DefaultLimit \in 1 .. MaxLimit
      BY AnalyticsAssumption
    <3>2. /\ Clamp(q.limit, 1, MaxLimit, DefaultLimit) \in 1 .. MaxLimit
          /\ (IF q.offset < 0 THEN 0 ELSE q.offset) \in Nat
      BY <3>1 DEF Clamp
    <3> DEFINE l == Clamp(q.limit, 1, MaxLimit, DefaultLimit)
               o == IF q.offset < 0 THEN 0 ELSE q.offset
    <3>3. l \in 1 .. MaxLimit /\ o \in Nat
      BY <3>2
    <3>4. p = [q EXCEPT !.limit = l, !.offset = o]
      OBVIOUS
    <3> HIDE DEF p, l, o
    <3>5. p \in Query /\ p.limit = l
      BY <3>1, <3>3, <3>4 DEF Query
    <3> QED BY <3>1, <3>3, <3>5
  <2> HIDE DEF p
  <2>4. page = {} /\ matched = {} /\ total = 0
    BY <1>2, <2>2 DEF Idle
  <2>5. IQuery'
    BY <1>1, <2>2, <2>3, <2>4, FS_EmptySet DEF IQuery, Query
  <2>6. AllShown' /\ TotalShown'
    BY <2>2 DEF AllShown, TotalShown
  <2> QED BY <2>2, <2>4, <2>5, <2>6 DEF IList, Listed, InList
<1>10. CASE /\ UNCHANGED <<table, query, total, page, opened, matched, seen>> /\ phase \in Idle
            /\ phase' \in Idle \cup {"rejected", "answered", "failed"}
  <2>1. page = {} /\ matched = {} /\ total = 0 /\ Cardinality({}) = 0
    BY <1>2, <1>10, FS_EmptySet
  <2>2. IQuery'
    BY <1>1, <1>10 DEF IQuery, Query
  <2>3. AllShown'
    BY <1>10, <2>1 DEF AllShown
  <2>4. TotalShown'
    <3>1. Cardinality(page) >= IF total - query.offset > query.limit THEN query.limit
                               ELSE total - query.offset
      <4>1. query.limit \in Nat
        BY <1>1, AnalyticsAssumption
      <4> QED BY <1>1, <2>1, <4>1
    <3> QED BY <1>10, <3>1 DEF TotalShown
  <2> QED BY <1>10, <2>1, <2>2, <2>3, <2>4 DEF IList, Idle
<1>11. CASE UNCHANGED vars
  <2>1. UNCHANGED <<table, query, total, page, opened, matched, seen, phase, part>>
    BY <1>11 DEF vars, listVars, overviewVars
  <2>2. IQuery'
    BY <1>1, <2>1 DEF IQuery, Query
  <2>3. (AllShown' <=> AllShown) /\ (TotalShown' <=> TotalShown) /\ (Calm' <=> Calm)
    BY <2>1 DEF AllShown, TotalShown, Calm
  <2> QED BY <1>2, <2>1, <2>2, <2>3 DEF IList, Idle
<1>13. CASE Fails
  <2>1. UNCHANGED <<table, query, total, page, opened, matched, seen>> /\ phase' = "failed"
    BY <1>13 DEF Fails, listVars
  <2>2. IQuery'
    BY <1>1, <2>1 DEF IQuery, Query
  <2> QED BY <2>1, <2>2 DEF IList, AllShown, TotalShown
<1>14. CASE \/ \E r \in Ranges : Overview(r)
            \/ \E r \in Ranges : AskExport(r)
            \/ NextPart \/ \E e \in Incoming : Session(e.session)
            \/ ReadSummary \/ ReadEvents \/ AskLive \/ ReadLive \/ ReadExport
  BY <1>10, <1>14 DEF Overview, AskExport, NextPart, Session, ReadSummary, ReadEvents, AskLive,
     ReadLive, ReadExport, listVars, Idle
<1> QED
  BY <1>5, <1>6, <1>7, <1>8, <1>9, <1>11, <1>13, <1>14 DEF Next

\* The summary is what the table said when it was read, the events what it says at the end.
LEMMA DetailStep ==
  IInv /\ [Next]_vars => IDetail'
<1> SUFFICES ASSUME IInv, [Next]_vars PROVE IDetail'
  OBVIOUS
<1>1. /\ detail = [session |-> detail.session, summary |-> detail.summary,
                   events |-> detail.events, asOf |-> detail.asOf]
      /\ detail.summary # Nothing =>
           /\ phase \in {"events", "answered"} /\ detail.asOf \in 0 .. Len(table)
           /\ \E T : /\ Read(T, SubSeq(table, 1, detail.asOf))
                     /\ detail.summary = Summary(T, 1 .. detail.asOf, detail.session)
           /\ phase = "answered" => detail.events = SessionEvents(table, detail.session)
  BY DEF IInv, IDetail, Was
<1>2. /\ Len(table) \in Nat /\ SubSeq(table, 1, Len(table)) = table
      /\ \A T \in Readings(table) : Read(T, table)
  BY TableNow
<1>3. CASE \E e \in Incoming : Store(e)
  <2>1. PICK e \in Incoming : Store(e)
    BY <1>3
  <2>2. /\ Len(table') = Len(table) + 1
        /\ \A n \in 0 .. Len(table) : SubSeq(table', 1, n) = SubSeq(table, 1, n)
    BY <2>1, StoreGrows DEF IInv
  <2>3. UNCHANGED <<detail, phase>> /\ phase # "answered"
    BY <2>1 DEF Store, Reading
  <2>4. 0 .. Len(table) \subseteq 0 .. Len(table')
    BY <1>2, <2>2
  <2> QED BY <1>1, <2>2, <2>3, <2>4 DEF IDetail, Was
<1>4. CASE \E e \in Incoming : Session(e.session)
  <2>1. PICK e \in Incoming : detail' = [NoSession EXCEPT !.session = e.session]
    BY <1>4 DEF Session
  <2>2. detail' = [session |-> e.session, summary |-> Nothing, events |-> {}, asOf |-> -1]
    BY <2>1 DEF NoSession
  <2> QED BY <2>2 DEF IDetail
<1>5. CASE ReadSummary
  <2>1. phase = "summary" /\ UNCHANGED table
    BY <1>5 DEF ReadSummary
  <2>2. CASE UNCHANGED detail
    BY <1>1, <2>1, <2>2 DEF IDetail
  <2>3. CASE /\ phase' = "events"
             /\ \E T \in Readings(table) :
                  detail' = [detail EXCEPT !.summary = Summary(T, 1 .. Len(table), detail.session),
                                           !.asOf = Len(table)]
    <3>0. PICK T \in Readings(table) :
            detail' = [detail EXCEPT !.summary = Summary(T, 1 .. Len(table), detail.session),
                                     !.asOf = Len(table)]
      BY <2>3
    <3>1. detail' = [session |-> detail.session,
                     summary |-> Summary(T, 1 .. Len(table), detail.session),
                     events |-> detail.events, asOf |-> Len(table)]
      BY <1>1, <3>0
    <3>2. /\ detail'.session = detail.session /\ detail'.events = detail.events
          /\ detail'.summary = Summary(T, 1 .. Len(table), detail.session)
          /\ detail'.asOf = Len(table) /\ Len(table) \in 0 .. Len(table)
      BY <1>2, <3>1
    <3>3. detail' = [session |-> detail'.session, summary |-> detail'.summary,
                     events |-> detail'.events, asOf |-> detail'.asOf]
      BY <3>1, <3>2
    <3>4. /\ Read(T, SubSeq(table', 1, detail'.asOf))
          /\ detail'.summary = Summary(T, 1 .. detail'.asOf, detail'.session)
      BY <1>2, <2>1, <3>2
    <3> QED BY <2>1, <2>3, <3>2, <3>3, <3>4 DEF IDetail, Was
  <2> QED BY <1>5, <2>2, <2>3 DEF ReadSummary
<1>6. CASE ReadEvents
  <2>1. /\ phase = "events" /\ phase' = "answered" /\ UNCHANGED table
        /\ detail' = [detail EXCEPT !.events = SessionEvents(table, detail.session)]
    BY <1>6 DEF ReadEvents
  <2>2. detail' = [session |-> detail.session, summary |-> detail.summary,
                   events |-> SessionEvents(table, detail.session), asOf |-> detail.asOf]
    BY <1>1, <2>1
  <2> QED BY <1>1, <2>1, <2>2 DEF IDetail, Was
<1>7. CASE Fails
  <2>1. detail' = [session |-> 0, summary |-> Nothing, events |-> {}, asOf |-> -1]
    BY <1>7 DEF Fails, NoSession
  <2> QED BY <2>1 DEF IDetail
<1>8. CASE UNCHANGED <<table, detail, phase>>
  BY <1>1, <1>8 DEF IDetail, Was
<1>9. CASE UNCHANGED detail /\ phase \notin {"events", "answered"}
  BY <1>1, <1>9 DEF IDetail
<1>10. CASE UNCHANGED vars
  BY <1>8, <1>10 DEF vars
<1>11. CASE \/ \E r \in Ranges : Overview(r)
            \/ \E r \in Ranges : AskExport(r)
            \/ NextPart \/ \E q \in Lists : Sessions(q)
            \/ CountSessions \/ ListSessions \/ TurnPage \/ AskLive \/ ReadLive \/ ReadExport
  BY <1>9, <1>11 DEF Overview, AskExport, NextPart, Sessions, CountSessions, ListSessions, TurnPage,
     AskLive, ReadLive, ReadExport
<1> QED
  BY <1>3, <1>4, <1>5, <1>6, <1>7, <1>10, <1>11 DEF Next

\* The live view and the export are of the table as it is: nothing happens after the answer.
LEMMA ReplyStep ==
  IInv /\ [Next]_vars => IReply'
<1> SUFFICES ASSUME IInv, [Next]_vars PROVE IReply'
  OBVIOUS
<1>1. reply # Nothing =>
        /\ phase = "answered"
        /\ \E T : /\ Read(T, table)
                  /\ \/ \E since \in 1 .. (Len(Day) + 1) : reply = LiveOf(T, since)
                     \/ reply = ExportOf(T, range)
  BY DEF IInv, IReply
<1>0. \A T \in Readings(table) : Read(T, table)
  BY TableNow
<1>2. CASE ReadLive
  <2>1. PICK T \in Readings(table), since \in 1 .. (Len(Day) + 1) : reply' = LiveOf(T, since)
    BY <1>2 DEF ReadLive, LiveOf
  <2>2. UNCHANGED table /\ phase' = "answered" /\ Read(T, table)
    BY <1>0, <1>2, <2>1 DEF ReadLive
  <2> QED BY <2>1, <2>2 DEF IReply
<1>3. CASE ReadExport
  <2>1. PICK T \in Readings(table) : reply' = ExportOf(T, range)
    BY <1>3 DEF ReadExport, ExportOf
  <2>2. UNCHANGED <<table, range>> /\ phase' = "answered" /\ Read(T, table)
    BY <1>0, <1>3, <2>1 DEF ReadExport
  <2> QED BY <2>1, <2>2 DEF IReply
<1>4. CASE UNCHANGED <<table, range, phase, reply>>
  BY <1>1, <1>4 DEF IReply
<1>5. CASE UNCHANGED reply /\ phase # "answered"
  BY <1>1, <1>5 DEF IReply
<1>6. CASE UNCHANGED vars
  BY <1>4, <1>6 DEF vars
<1>7. CASE \/ \E e \in Incoming : Store(e)
           \/ \E r \in Ranges : Overview(r)
           \/ NextPart \/ \E q \in Lists : Sessions(q)
           \/ CountSessions \/ ListSessions \/ TurnPage
           \/ \E e \in Incoming : Session(e.session)
           \/ ReadSummary \/ ReadEvents \/ AskLive
           \/ \E r \in Ranges : AskExport(r)
           \/ Fails
  BY <1>5, <1>7 DEF Store, Overview, AskExport, NextPart, Sessions, CountSessions, ListSessions,
     TurnPage, Session, ReadSummary, ReadEvents, AskLive, Fails, Reading
<1> QED
  BY <1>2, <1>3, <1>6, <1>7 DEF Next

\* The invariant holds in every state.
THEOREM Invariance == Spec => []IInv
<1>1. IInv /\ [Next]_vars => IInv'
  BY TableStep, TypesStep, OverviewStep, ListStep, DetailStep, ReplyStep DEF IInv
<1> QED
  BY Begin, <1>1, PTL DEF Spec
-----------------------------------------------------------------------------
(* What follows from it.                                                   *)

\* Analytics!TypeOK: the request, its parts and its pages are as the code types them, and a
\* page is no longer than what was asked for, after the clamp.
THEOREM TypeCorrect == Spec => []TypeOK
<1>1. IInv => TypeOK
  <2> SUFFICES ASSUME IInv PROVE TypeOK
    OBVIOUS
  <2>1. table \in Seq(Row) /\ Len(table) \in Nat /\ Len(table) <= MaxRows
    BY DEF IInv, ITable, Sent
  <2>2. asOf \in [DOMAIN Blank -> -1 .. MaxRows]
    <3>1. -1 .. Len(table) \subseteq -1 .. MaxRows
      BY <2>1, AnalyticsAssumption
    <3> QED BY <3>1 DEF IInv, IOverview
  <2>3. /\ query.limit \in 1 .. MaxLimit /\ query.offset \in Nat /\ total \in Nat
        /\ opened \in 0 .. Len(table) /\ Cardinality(page) <= query.limit
    BY DEF IInv, IQuery, Query
  <2> QED BY <2>1, <2>2, <2>3 DEF IInv, ITypes, IParts, TypeOK
<1> QED
  BY Invariance, <1>1, PTL

\* Analytics!PagingMissesNothing: whatever is stored between the pages, and between the
\* count and the rows of one page, and however each statement sorts rows of one instant,
\* the reader is shown every session that was there - for as long as no two sessions of
\* the list began in one instant and no late row moves a session's beginning.
THEOREM NoSessionMissed == Spec => []PagingMissesNothing
<1>1. Steady <=> Calm
  <2>1. StartsApart <=> ApartIn(table, query.range)
    BY DEF StartsApart, ApartIn, Opens, OpensIn
  <2>2. StartsKept <=> KeptIn(table, query.range, opened)
    BY DEF StartsKept, KeptIn
  <2> QED BY <2>1, <2>2 DEF Steady, Calm, SteadyIn
<1>2. IInv => PagingMissesNothing
  <2>1. IInv /\ Calm => AllShown /\ TotalShown
    BY DEF IInv, IList
  <2> QED BY <1>1, <2>1
          DEF PagingMissesNothing, NothingMissed, TotalIsCovered, AllShown, TotalShown
<1> QED
  BY Invariance, <1>2, PTL

\* Analytics!DetailFits: the events of a session account for the summary read before.
THEOREM EventsAccount == Spec => []DetailFits
<1>1. IInv => DetailFits
  <2> SUFFICES ASSUME IInv PROVE DetailFits
    OBVIOUS
  <2> SUFFICES ASSUME phase = "answered", detail.summary # Nothing
               PROVE  LET E == detail.events
                          shown == [ pageviews   |-> Cardinality(OfType(table, E, "pageview")),
                                     conversions |-> {table[i].name : i \in Named(table, E, Conversions)},
                                     sections    |-> {table[i].place : i \in OfType(table, E, "section_view")} ]
                      IN /\ detail.summary.pageviews <= shown.pageviews
                         /\ detail.summary.conversions \subseteq shown.conversions
                         /\ detail.summary.sections \subseteq shown.sections
                         /\ \/ detail.summary.max_scroll = 0
                            \/ \E i \in Named(table, E, {"scroll_depth"}) : table[i].num = detail.summary.max_scroll
                         /\ (\A i \in E : i <= detail.asOf) =>
                              \A f \in DOMAIN shown : shown[f] = detail.summary[f]
    BY DEF DetailFits
  <2>1. detail.asOf \in 0 .. Len(table) /\ detail.events = SessionEvents(table, detail.session)
    BY DEF IInv, IDetail
  <2>2. PICK T : /\ Read(T, Was(detail.asOf))
                 /\ detail.summary = Summary(T, 1 .. detail.asOf, detail.session)
    BY DEF IInv, IDetail
  <2>3. Grown(Was(detail.asOf), table) /\ Len(Was(detail.asOf)) = detail.asOf
    BY <2>1, TableNow, Earlier DEF Was
  <2>4. Grown(T, table) /\ Len(T) = detail.asOf
    <3>1. Grown(T, Was(detail.asOf)) /\ Len(T) = Len(Was(detail.asOf))
      BY <2>2, SameRows DEF Read
    <3> QED BY <2>3, <3>1, GrownTwice
  <2> QED BY <2>1, <2>2, <2>4, Accounted
<1> QED
  BY Invariance, <1>1, PTL

\* The window of a reading, and who is there, is that of the table.
LEMMA SameWindow ==
  ASSUME NEW T, NEW L, Read(T, L), NEW since
  PROVE  /\ Window(T, since) = Window(L, since)
         /\ VisitorsOf(T, Window(T, since)) = VisitorsOf(L, Window(L, since))
         /\ \A v : LatestIn(T, since, v) = LatestIn(L, since, v)
         /\ Surely(T, since) = Surely(L, since) /\ Maybe(T, since) = Maybe(L, since)
<1>1. /\ Len(T) = Len(L)
      /\ \A i \in 1 .. Len(L) : /\ T[i].at = L[i].at /\ T[i].visitor = L[i].visitor
                                /\ T[i].type = L[i].type
  BY SameRows DEF Same
<1>2. Window(T, since) = Window(L, since)
  BY <1>1 DEF Window
<1> DEFINE W == Window(L, since)
<1>3. \A i \in W : T[i].at = L[i].at /\ T[i].visitor = L[i].visitor /\ T[i].type = L[i].type
  BY <1>1 DEF Window
<1>4. Window(T, since) = W
  BY <1>2
<1> HIDE DEF W
<1>5. VisitorsOf(T, W) = VisitorsOf(L, W)
  BY <1>3 DEF VisitorsOf
<1>6. ASSUME NEW v PROVE LatestIn(T, since, v) = LatestIn(L, since, v)
  <2> DEFINE A == {i \in W : T[i].visitor = v}
             B == {i \in W : L[i].visitor = v}
  <2>1. A = B
    BY <1>3
  <2>2. \A i \in A : T[i].at = L[i].at
    BY <1>3
  <2>3. LatestIn(T, since, v) = {i \in A : \A j \in A : T[j].at <= T[i].at}
    BY <1>4 DEF LatestIn
  <2>4. LatestIn(L, since, v) = {i \in B : \A j \in B : L[j].at <= L[i].at}
    BY DEF LatestIn, W
  <2> HIDE DEF A, B
  <2>5. \A i \in A : (\A j \in A : T[j].at <= T[i].at) <=> (\A j \in A : L[j].at <= L[i].at)
    BY <2>2
  <2> QED BY <2>1, <2>3, <2>4, <2>5
<1>7. \A v, i : i \in LatestIn(L, since, v) => i \in W
  BY DEF LatestIn, W
<1>8. Surely(T, since) = Surely(L, since)
  <2>1. Surely(T, since) =
          {v \in VisitorsOf(L, W) : \A i \in LatestIn(L, since, v) : T[i].type # "leave"}
    BY <1>4, <1>5, <1>6 DEF Surely
  <2>2. \A v : (\A i \in LatestIn(L, since, v) : T[i].type # "leave")
                 <=> \A i \in LatestIn(L, since, v) : L[i].type # "leave"
    BY <1>3, <1>7
  <2> QED BY <2>1, <2>2 DEF Surely, W
<1>9. Maybe(T, since) = Maybe(L, since)
  <2>1. Maybe(T, since) =
          {v \in VisitorsOf(L, W) : \E i \in LatestIn(L, since, v) : T[i].type # "leave"}
    BY <1>4, <1>5, <1>6 DEF Maybe
  <2>2. \A v : (\E i \in LatestIn(L, since, v) : T[i].type # "leave")
                 <=> \E i \in LatestIn(L, since, v) : L[i].type # "leave"
    BY <1>3, <1>7
  <2> QED BY <2>1, <2>2 DEF Maybe, W
<1> QED
  BY <1>2, <1>4, <1>5, <1>6, <1>8, <1>9 DEF W

\* Analytics!LiveAndExportFit: a visitor is counted once in the live view, and an export
\* holds the rows of its range or the latest of them.
THEOREM LiveAndExportCount == Spec => []LiveAndExportFit
<1>1. IInv => LiveAndExportFit
  <2> SUFFICES ASSUME IInv, phase = "answered", reply # Nothing PROVE LiveAndExportFit
    BY DEF LiveAndExportFit
  <2>1. MaxExportRows \in Nat
    BY AnalyticsAssumption
  <2>2. PICK T : /\ Read(T, table)
                 /\ \/ \E since \in 1 .. (Len(Day) + 1) : reply = LiveOf(T, since)
                    \/ reply = ExportOf(T, range)
    BY DEF IInv, IReply
  <2>3. Table(T)
    BY <2>2, SameRows
  <2>4. CASE \E since \in 1 .. (Len(Day) + 1) : reply = LiveOf(T, since)
    <3>1. PICK since \in 1 .. (Len(Day) + 1) : reply = LiveOf(T, since)
      BY <2>4
    <3>2. "pages" \in DOMAIN reply /\ reply.since = since /\ reply.visitors = Total(Live(T, since))
      BY <3>1 DEF LiveOf
    <3> DEFINE V == VisitorsOf(table, Window(table, since))
               Stays(i) == table[i].type # "leave"
    <3>3. /\ Cardinality(Surely(table, since)) <= reply.visitors
          /\ reply.visitors <= Cardinality(Maybe(table, since))
      <4>1. Surely(T, since) = Surely(table, since) /\ Maybe(T, since) = Maybe(table, since)
        BY <2>2, SameWindow
      <4> QED BY <2>3, <3>2, <4>1, Present
    <3>4. \A v : Latest(v, since) = LatestIn(table, since, v)
      BY DEF Latest, LatestIn
    <3>5. /\ Surely(table, since) = {v \in V : \A i \in Latest(v, since) : Stays(i)}
          /\ Maybe(table, since) = {v \in V : \E i \in Latest(v, since) : Stays(i)}
      BY <3>4 DEF Surely, Maybe
    <3> HIDE DEF V, Stays
    <3>6. /\ Cardinality({v \in V : \A i \in Latest(v, since) : Stays(i)}) <= reply.visitors
          /\ reply.visitors <= Cardinality({v \in V : \E i \in Latest(v, since) : Stays(i)})
      BY <3>3, <3>5
    <3> QED BY <3>2, <3>6 DEF LiveAndExportFit, V, Stays
  <2>5. CASE reply = ExportOf(T, range)
    <3> DEFINE rows == Export(T, range, MaxExportRows)
               S == Ev(table, range)
               cut == S \ rows
    <3>1. "pages" \notin DOMAIN reply /\ reply.rows = rows
      BY <2>5 DEF ExportOf
    <3>2. Ev(T, range) = S /\ \A i \in S : T[i].at = table[i].at
      BY <2>2, SameRows DEF Same, Ev
    <3>3. /\ rows \subseteq S
          /\ cut # {} => /\ Cardinality(rows) = MaxExportRows
                         /\ \A i \in cut, j \in rows : T[i].at <= T[j].at
      BY <2>1, <2>3, <3>2, Exported
    <3> HIDE DEF rows, S
    <3>4. cut # {} => \A i \in cut, j \in rows : table[i].at <= table[j].at
      BY <3>2, <3>3
    <3>5. cut = {} => rows = S
      BY <3>3
    <3> QED BY <3>1, <3>3, <3>4, <3>5 DEF LiveAndExportFit, S
  <2> QED BY <2>2, <2>4, <2>5
<1> QED
  BY Invariance, <1>1, PTL

\* The totals as the table T said, and a part as U did, later.
Fits(p, T, U) ==
  /\ Table(T) /\ Table(U) /\ Grown(T, U) /\ range \in Days /\ ValidDays(range) # 0
  /\ Read(T, Was(asOf["current"])) /\ Read(U, Was(asOf[p]))
  /\ asOf["current"] \in 0 .. asOf[p] /\ asOf[p] \in 0 .. Len(table)
  /\ Cur = KpiTotals(T, range) /\ out[p] = Answer(U, range, p)
  /\ asOf[p] = asOf["current"] => Grown(U, T)

\* Every part of an overview has such tables.
LEMMA Fitting ==
  ASSUME IInv, Has("current"), NEW p \in DOMAIN Blank, Has(p)
  PROVE  \E T, U : Fits(p, T, U)
<1>1. asOf \in [DOMAIN Blank -> -1 .. Len(table)] /\ "current" \in DOMAIN Blank
  BY PartNames DEF IInv, IOverview
<1>2. PICK T : Read(T, Was(asOf["current"])) /\ out["current"] = Answer(T, range, "current")
  BY <1>1 DEF IInv, IOverview, Has
<1>3. PICK U : Read(U, Was(asOf[p])) /\ out[p] = Answer(U, range, p)
  BY DEF IInv, IOverview, Has
<1>4. ValidDays(range) # 0 /\ asOf["current"] <= asOf[p]
  BY DEF IInv, IOverview, Has
<1>5. range \in Days
  BY AnalyticsAssumption DEF IInv, ITypes, Days
<1>6. Log(table) /\ Len(table) \in Nat
  BY TableNow
<1>7. asOf["current"] \in 0 .. Len(table) /\ asOf[p] \in 0 .. Len(table)
  BY <1>1, <1>6 DEF Has
<1>8. asOf["current"] \in 0 .. asOf[p]
  BY <1>4, <1>7
<1>9. /\ Grown(Was(asOf["current"]), Was(asOf[p]))
      /\ asOf[p] = asOf["current"] => Grown(Was(asOf[p]), Was(asOf["current"]))
  BY <1>4, <1>6, <1>7, Earlier DEF Was
<1>10. Grown(T, U) /\ (asOf[p] = asOf["current"] => Grown(U, T))
  BY <1>2, <1>3, <1>9, ReadLater
<1>11. Table(T) /\ Table(U)
  BY <1>2, <1>3 DEF Read
<1>12. Cur = KpiTotals(T, range)
  BY <1>2 DEF Cur, Answer
<1> QED
  BY <1>2, <1>3, <1>4, <1>5, <1>7, <1>8, <1>10, <1>11, <1>12 DEF Fits

\* Parts that count what the totals count add up to them.
LEMMA SumsHold ==
  IInv => SumsFit
<1> SUFFICES ASSUME IInv, Has("current") PROVE SumsFit
  BY DEF SumsFit
<1>1. {"timeseries", "heatmap", "devices", "sources", "campaigns", "resumes", "contacts", "pages"}
        \subseteq DOMAIN Blank
  BY DEF Blank, Parts
<1>2. ASSUME Has("timeseries")
      PROVE  Covers("timeseries", Cur.pageviews, Sum(out["timeseries"], "pageviews"))
  <2>1. PICK T, U : Fits("timeseries", T, U)
    BY <1>1, <1>2, Fitting
  <2>2. Bounds(T, U, Cur.pageviews, Sum(out["timeseries"], "pageviews"))
    BY <1>2, <2>1, Sums DEF Fits, Answer
  <2> QED BY <2>1, <2>2 DEF Fits, Bounds, Covers
<1>3. ASSUME Has("heatmap")
      PROVE  Covers("heatmap", Cur.sessions, Total(out["heatmap"]))
  <2>1. PICK T, U : Fits("heatmap", T, U)
    BY <1>1, <1>3, Fitting
  <2>2. Bounds(T, U, Cur.sessions, Total(out["heatmap"]))
    BY <1>3, <2>1, Sums DEF Fits, Answer
  <2> QED BY <2>1, <2>2 DEF Fits, Bounds, Covers
<1>4. ASSUME Has("devices"), Cardinality(DOMAIN out["devices"]) < TopRows
      PROVE  Covers("devices", Cur.sessions, Total(out["devices"]))
  <2>1. PICK T, U : Fits("devices", T, U)
    BY <1>1, <1>4, Fitting
  <2>2. Bounds(T, U, Cur.sessions, Total(out["devices"]))
    BY <1>4, <2>1, Sums DEF Fits, Answer
  <2> QED BY <2>1, <2>2 DEF Fits, Bounds, Covers
<1>5. ASSUME Has("sources"), Cardinality(DOMAIN out["sources"].conversions) < TopRows
      PROVE  Covers("sources", Cur.converted, Total(out["sources"].conversions))
  <2>1. PICK T, U : Fits("sources", T, U)
    BY <1>1, <1>5, Fitting
  <2>2. Bounds(T, U, Cur.converted, Total(out["sources"].conversions))
    BY <1>5, <2>1, Sums DEF Fits, Answer
  <2> QED BY <2>1, <2>2 DEF Fits, Bounds, Covers
<1>6. ASSUME NEW p \in {"sources", "campaigns"}, Has(p), asOf[p] = asOf["current"]
      PROVE  Total(out[p].conversions) <= Cur.converted
  <2>1. PICK T, U : Fits(p, T, U)
    BY <1>1, <1>6, Fitting
  <2>2. Grown(U, T) /\ Table(T) /\ Table(U) /\ Grown(T, U) /\ range \in Days
        /\ Cur = KpiTotals(T, range) /\ out[p] = Answer(U, range, p)
    BY <1>6, <2>1 DEF Fits
  <2>3. CASE p = "sources"
    BY <2>2, <2>3, Sums DEF Answer
  <2>4. CASE p = "campaigns"
    BY <2>2, <2>4, Sums DEF Answer
  <2> QED BY <1>6, <2>3, <2>4
<1>7. ASSUME Has("resumes")
      PROVE  Covers("resumes", Cur.resumes, Total(out["resumes"]))
  <2>1. PICK T, U : Fits("resumes", T, U)
    BY <1>1, <1>7, Fitting
  <2>2. Bounds(T, U, Cur.resumes, Total(out["resumes"]))
    BY <1>7, <2>1, Sums DEF Fits, Answer
  <2> QED BY <2>1, <2>2 DEF Fits, Bounds, Covers
<1>8. ASSUME Has("contacts")
      PROVE  Covers("contacts", Cur.contacts, Total(out["contacts"]))
  <2>1. PICK T, U : Fits("contacts", T, U)
    BY <1>1, <1>8, Fitting
  <2>2. Bounds(T, U, Cur.contacts, Total(out["contacts"]))
    BY <1>8, <2>1, Sums DEF Fits, Answer
  <2> QED BY <2>1, <2>2 DEF Fits, Bounds, Covers
<1>9. ASSUME Has("pages"), asOf["pages"] = asOf["current"]
      PROVE  Total(out["pages"]) <= Cur.pageviews
  <2>1. PICK T, U : Fits("pages", T, U)
    BY <1>1, <1>9, Fitting
  <2> QED BY <1>9, <2>1, Sums DEF Fits, Answer
<1> QED
  BY <1>2, <1>3, <1>4, <1>5, <1>6, <1>7, <1>8, <1>9 DEF SumsFit

\* Parts that count somebody more than once add up to no less, and hold no more each.
LEMMA DistinctsHold ==
  IInv => DistinctsFit
<1> SUFFICES ASSUME IInv, Has("current") PROVE DistinctsFit
  BY DEF DistinctsFit
<1>1. {"current", "timeseries", "languages", "locations", "funnel", "scroll"} \subseteq DOMAIN Blank
  BY DEF Blank, Parts
<1>3. Cur.visitors <= Cur.sessions /\ Cur.bounced <= Cur.sessions
  <2>1. PICK T, U : Fits("current", T, U)
    BY <1>1, Fitting
  <2> QED BY <2>1, TotalsOrder DEF Fits
<1>4. ASSUME Has("timeseries")
      PROVE  /\ Cur.visitors <= Sum(out["timeseries"], "visitors")
             /\ Cur.sessions <= Sum(out["timeseries"], "sessions")
             /\ Cur.converted <= Sum(out["timeseries"], "conversions")
             /\ asOf["timeseries"] = asOf["current"] =>
                  \A d \in DOMAIN out["timeseries"] :
                    /\ out["timeseries"][d].visitors <= Cur.visitors
                    /\ out["timeseries"][d].sessions <= Cur.sessions
  <2>1. PICK T, U : Fits("timeseries", T, U)
    BY <1>1, <1>4, Fitting
  <2>2. /\ Table(T) /\ Table(U) /\ Grown(T, U) /\ range \in Days /\ Cur = KpiTotals(T, range)
        /\ out["timeseries"] = Timeseries(U, range)
        /\ asOf["timeseries"] = asOf["current"] => Grown(U, T)
    BY <2>1 DEF Fits, Answer
  <2> QED BY <2>2, Distincts
<1>5. ASSUME Has("languages"), Cardinality(DOMAIN out["languages"]) < TopRows
      PROVE  Cur.visitors <= Total(out["languages"])
  <2>1. PICK T, U : Fits("languages", T, U)
    BY <1>1, <1>5, Fitting
  <2> QED BY <1>5, <2>1, Distincts DEF Fits, Answer
<1>6. ASSUME Has("locations"), asOf["locations"] = asOf["current"]
      PROVE  \A t \in DOMAIN out["locations"] : out["locations"][t] <= Cur.visitors
  <2>1. PICK T, U : Fits("locations", T, U)
    BY <1>1, <1>6, Fitting
  <2> QED BY <1>6, <2>1, Distincts DEF Fits, Answer
<1>7. ASSUME Has("funnel"), asOf["funnel"] = asOf["current"]
      PROVE  \A x \in DOMAIN out["funnel"] : out["funnel"][x] <= Cur.sessions
  <2>1. PICK T, U : Fits("funnel", T, U)
    BY <1>1, <1>7, Fitting
  <2> QED BY <1>7, <2>1, Distincts DEF Fits, Answer
<1>8. ASSUME Has("scroll"), asOf["scroll"] = asOf["current"]
      PROVE  \A x \in DOMAIN out["scroll"] : out["scroll"][x] <= Cur.sessions
  <2>1. PICK T, U : Fits("scroll", T, U)
    BY <1>1, <1>8, Fitting
  <2> QED BY <1>8, <2>1, Distincts DEF Fits, Answer
<1> QED
  BY <1>3, <1>4, <1>5, <1>6, <1>7, <1>8 DEF DistinctsFit

\* Analytics!PartsFitTotals: whatever is stored between the queries of an overview, the
\* parts fit its totals; a list whose limit cut rows off holds no more than they do.
THEOREM PartsAddUp == Spec => []PartsFitTotals
<1>1. IInv => PartsFitTotals
  BY SumsHold, DistinctsHold DEF PartsFitTotals
<1> QED
  BY Invariance, <1>1, PTL

\* A table that is read has its visitors in the order the log has them.
LEMMA InOrderToo ==
  ASSUME NEW n \in Nat, NEW m \in Nat, n <= m, NEW L, NEW U, Read(U, L), Len(L) = m,
         \A i \in 1 .. m : L[i] = table[i], VisitorsInOrder(n, m)
  PROVE  InOrder(U, n)
<1>1. /\ Len(U) = m
      /\ \A i \in 1 .. m : /\ U[i].visitor = table[i].visitor /\ U[i].at = table[i].at
                           /\ U[i].session = table[i].session
  BY SameRows DEF Same
<1>2. \A i \in 1 .. n : i \in 1 .. m
  OBVIOUS
<1>3. \A i \in 1 .. m : DebutIn(U, i) <=> Debut(i, m)
  BY <1>1 DEF DebutIn, Debut
<1>4. OneDebut(U)
  BY <1>1, <1>3 DEF OneDebut, VisitorsInOrder
<1>5. VisitorsOf(U, 1 .. n) = VisitorsOf(table, 1 .. n)
  BY <1>1, <1>2 DEF VisitorsOf
<1>6. ASSUME NEW j \in (n + 1) .. m, U[j].visitor \in VisitorsOf(U, 1 .. n)
      PROVE  \E i \in 1 .. n : U[i].visitor = U[j].visitor /\ U[i].at <= U[j].at
  <2>1. j \in 1 .. m
    OBVIOUS
  <2>2. table[j].visitor \in VisitorsOf(table, 1 .. n)
    BY <1>1, <1>5, <1>6, <2>1
  <2>3. PICK i \in 1 .. n : table[i].visitor = table[j].visitor /\ table[i].at <= table[j].at
    BY <2>2 DEF VisitorsInOrder
  <2> QED BY <1>1, <1>2, <2>1, <2>3
<1> QED
  BY <1>1, <1>4, <1>6 DEF InOrder

\* Analytics!PeriodsTile: the two periods of an overview share no day and leave none out,
\* and a visitor is new in one of them only, for every range and table - unless two
\* sessions began in one instant or the row that is first came between the statements.
THEOREM PeriodsMeet == Spec => []PeriodsTile
<1>1. IInv => PeriodsTile
  <2> SUFFICES ASSUME IInv, Has("current"), Has("previous") PROVE PeriodsTile
    BY DEF PeriodsTile, Tile, NewOnce
  <2> DEFINE q == PreviousRange(range, ValidDays(range))
             n == asOf["previous"]
             L == Was(n)
  <2>1. "previous" \in DOMAIN Blank
    BY PartNames
  <2>2. PICK T, U : Fits("previous", T, U)
    BY <2>1, Fitting
  <2>3. /\ Grown(T, U) /\ Table(T) /\ Table(U) /\ range \in Days /\ Cur = KpiTotals(T, range)
        /\ asOf["previous"] = asOf["current"] => Grown(U, T)
        /\ ValidDays(range) # 0 /\ n \in 0 .. Len(table) /\ asOf["current"] \in 0 .. n
        /\ Read(U, L) /\ Read(T, Was(asOf["current"]))
    BY <2>2 DEF Fits
  <2>4. Old = KpiTotals(U, q)
    BY <2>2 DEF Fits, Old, Answer
  <2>5. /\ range.from <= range.to /\ q \in Days
        /\ q.from = 2 * range.from - range.to - 1 /\ q.to = range.from - 1
    BY <2>3, PeriodBefore
  <2>6. Len(L) = n /\ \A i \in 1 .. n : L[i] = table[i]
    BY <2>3, TableNow, Earlier DEF Was
  <2>7. Len(T) = asOf["current"] /\ asOf["current"] \in Nat /\ n \in Nat /\ asOf["current"] <= n
    <3>1. Len(table) \in Nat
      BY TableNow
    <3>2. asOf["current"] \in Nat /\ asOf["current"] <= n /\ asOf["current"] <= Len(table) /\ n \in Nat
      BY <2>3, <3>1
    <3>3. asOf["current"] \in 0 .. Len(table)
      BY <3>1, <3>2
    <3>4. Len(Was(asOf["current"])) = asOf["current"]
      BY <3>3, TableNow, Earlier DEF Was
    <3> QED BY <2>3, <3>2, <3>4, SameRows
  <2>8. Len(U) = n /\ \A i \in 1 .. n : Same(U[i], table[i])
    BY <2>3, <2>6, SameRows
  <2> HIDE DEF q, L
  <2>9. Tile
    <3> SUFFICES ASSUME asOf["current"] = n
                 PROVE  Cur.pageviews + Old.pageviews =
                          Cardinality({i \in 1 .. n :
                            /\ table[i].type = "pageview"
                            /\ table[i].day \in (2 * range.from - range.to - 1) .. range.to})
      BY DEF Tile
    <3>1. KpiTotals(U, range).pageviews + KpiTotals(U, q).pageviews =
            Cardinality({i \in 1 .. Len(U) :
              /\ U[i].type = "pageview"
              /\ U[i].day \in (2 * range.from - range.to - 1) .. range.to})
      BY <2>3, <2>5, Tiles
    <3>2. {i \in 1 .. Len(U) : /\ U[i].type = "pageview"
                               /\ U[i].day \in (2 * range.from - range.to - 1) .. range.to}
            = {i \in 1 .. n : /\ table[i].type = "pageview"
                              /\ table[i].day \in (2 * range.from - range.to - 1) .. range.to}
      BY <2>8 DEF Same
    <3>3. Cur.pageviews = KpiTotals(U, range).pageviews
      <4>1. Bounds(T, U, Cur.pageviews, KpiTotals(U, range).pageviews)
        <5>1. /\ KpiTotals(T, range).pageviews <= KpiTotals(U, range).pageviews
              /\ KpiTotals(U, range).pageviews <= KpiTotals(T, range).pageviews
          BY <2>3, TotalsGrow
        <5>2. KpiTotals(T, range).pageviews \in Nat /\ KpiTotals(U, range).pageviews \in Nat
          BY <2>3, TotalsOrder
        <5>3. \A a, b \in Nat : a <= b /\ b <= a => a = b
          OBVIOUS
        <5> QED BY <2>3, <5>1, <5>2, <5>3 DEF Bounds
      <4> QED BY <2>3, <4>1 DEF Bounds
    <3> QED BY <2>4, <3>1, <3>2, <3>3
  <2>10. NewOnce
    <3> SUFFICES ASSUME VisitorsInOrder(asOf["current"], n)
                 PROVE  (Cur.sessions - Cur.returning) + (Old.sessions - Old.returning)
                          <= Cardinality(VisitorsOf(table, 1 .. n))
      BY DEF NewOnce
    <3>1. InOrder(U, Len(T))
      <4>1. InOrder(U, asOf["current"])
        BY <2>3, <2>6, <2>7, InOrderToo
      <4> QED BY <2>7, <4>1
    <3>2. (KpiTotals(T, range).sessions - KpiTotals(T, range).returning)
            + (KpiTotals(U, q).sessions - KpiTotals(U, q).returning)
            <= Cardinality(VisitorsOf(U, 1 .. Len(U)))
      BY <2>3, <2>5, <3>1, NewInOne
    <3>3. VisitorsOf(U, 1 .. Len(U)) = VisitorsOf(table, 1 .. n)
      BY <2>8 DEF VisitorsOf, Same
    <3> QED BY <2>3, <2>4, <3>2, <3>3
  <2> QED BY <2>9, <2>10 DEF PeriodsTile
<1> QED
  BY Invariance, <1>1, PTL
=============================================================================
