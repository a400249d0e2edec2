------------------------------ MODULE NumberLemmas ---------------------------
(***************************************************************************)
(* Sets of numbers: the least, the last, and the ascending sequence of a   *)
(* finite one.  Where a proof goes by induction it uses that the finite    *)
(* sets of numbers are well-founded (WFMin), for which the set of          *)
(* counterexamples is enough.                                              *)
(***************************************************************************)
EXTENDS Ordering, Sequences, FiniteSetTheorems, SequenceTheorems, TLAPS

\* Every set of numbers that is not empty has a least one: induction, as the
\* well-foundedness of the finite sets of numbers.
LEMMA LeastNumber ==
    ASSUME NEW T \in SUBSET Nat, T # {}
    PROVE  \E m \in T : \A k \in T : m <= k
<1> DEFINE Below == {0..n : n \in T}
<1>1. IsWellFoundedOn(StrictSubsetOrdering(Nat), FiniteSubsetsOf(Nat))
  BY FS_StrictSubsetOrderingWellFounded
<1>2. Below \subseteq FiniteSubsetsOf(Nat)
  <2>1. \A n \in T : 0..n \in SUBSET Nat /\ IsFiniteSet(0..n)
    BY FS_Interval
  <2> QED
    BY <2>1 DEF FiniteSubsetsOf
<1>3. Below # {}
  OBVIOUS
<1>4. PICK b \in Below : \A c \in Below : ~ (<<c, b>> \in StrictSubsetOrdering(Nat))
  <2> HIDE DEF Below
  <2> QED
    BY <1>1, <1>2, <1>3, WFMin
<1>5. PICK m \in T : b = 0..m
  BY <1>4
<1>6. ASSUME NEW k \in T, k < m  PROVE FALSE
  <2>1. 0..k \in SUBSET Nat /\ 0..m \in SUBSET Nat /\ 0..k \subseteq 0..m /\ 0..k # 0..m
    <3>1. m \in 0..m /\ m \notin 0..k
      BY <1>6
    <3>2. 0..k \subseteq 0..m
      BY <1>6
    <3> QED
      BY <3>1, <3>2
  <2>2. <<0..k, 0..m>> \in StrictSubsetOrdering(Nat)
    BY <2>1 DEF StrictSubsetOrdering
  <2> QED
    BY <1>4, <1>5, <2>2
<1> QED
  BY <1>6

LEMMA LastOne ==
    ASSUME NEW n \in Nat, NEW S \in SUBSET (1..n), S # {}
    PROVE  \E i \in S : \A j \in S : j <= i
<1> DEFINE T == {n - i : i \in S}
<1>1. T \in SUBSET Nat /\ T # {}
  <2>1. \A i \in S : n - i \in Nat
    OBVIOUS
  <2> QED
    BY <2>1
<1>2. PICK m \in T : \A k \in T : m <= k
  <2> HIDE DEF T
  <2> QED
    BY <1>1, LeastNumber
<1>3. PICK i \in S : m = n - i
  BY <1>2
<1>4. \A j \in S : n - i <= n - j
  BY <1>2, <1>3
<1> QED
  BY <1>4


\* q enumerates S, the smaller first.
Enumerates(q, S) ==
    /\ q \in [1..Cardinality(S) -> S]
    /\ \A x \in S : \E i \in 1..Cardinality(S) : q[i] = x
    /\ \A i, j \in 1..Cardinality(S) : i < j => q[i] < q[j]

\* Taking the least out of a set and putting it first again.
LEMMA EnumerationGrows ==
    ASSUME NEW S \in SUBSET Nat, IsFiniteSet(S), NEW x \in S, \A y \in S : x <= y,
           NEW q, Enumerates(q, S \ {x})
    PROVE  \E r : Enumerates(r, S)
<1> DEFINE n == Cardinality(S \ {x})
           r == [i \in 1..n + 1 |-> IF i = 1 THEN x ELSE q[i - 1]]
<1>1. n \in Nat /\ Cardinality(S) = n + 1
  <2>1. /\ IsFiniteSet(S \ {x}) /\ Cardinality(S \ {x}) = Cardinality(S) - 1
        /\ Cardinality(S) \in Nat
    BY FS_RemoveElement, FS_CardinalityType
  <2>2. Cardinality(S \ {x}) \in Nat
    BY <2>1, FS_CardinalityType
  <2> QED
    BY <2>1, <2>2
<1>2. /\ q \in [1..n -> S \ {x}]
      /\ \A y \in S \ {x} : \E i \in 1..n : q[i] = y
      /\ \A i, j \in 1..n : i < j => q[i] < q[j]
  BY DEF Enumerates
<1> HIDE DEF n
<1>3. /\ r[1] = x /\ \A i \in 2..n + 1 : i - 1 \in 1..n /\ r[i] = q[i - 1]
  BY <1>1
<1>4. \A i \in 1..n + 1 : r[i] \in S
  BY <1>1, <1>2, <1>3
<1>5. \A y \in S : \E i \in 1..n + 1 : r[i] = y
  <2> SUFFICES ASSUME NEW y \in S PROVE \E i \in 1..n + 1 : r[i] = y
    OBVIOUS
  <2>1. CASE y = x
    BY <1>1, <1>3, <2>1
  <2>2. CASE y # x
    <3>1. PICK i \in 1..n : q[i] = y
      BY <1>2, <2>2
    <3>2. i + 1 \in 2..n + 1 /\ i + 1 \in 1..n + 1 /\ r[i + 1] = q[i]
      BY <1>1, <1>3
    <3> QED
      BY <3>1, <3>2
  <2> QED
    BY <2>1, <2>2
<1>6. ASSUME NEW i \in 1..n + 1, NEW j \in 1..n + 1, i < j PROVE r[i] < r[j]
  <2>1. j \in 2..n + 1 /\ r[j] = q[j - 1] /\ j - 1 \in 1..n
    BY <1>1, <1>3, <1>6
  <2>2. CASE i = 1
    <3>1. q[j - 1] \in S \ {x}
      BY <1>2, <2>1
    <3>2. x <= q[j - 1] /\ x # q[j - 1] /\ x \in Nat /\ q[j - 1] \in Nat
      BY <3>1
    <3> QED
      BY <1>3, <2>1, <2>2, <3>2
  <2>3. CASE i # 1
    <3>1. i - 1 \in 1..n /\ r[i] = q[i - 1] /\ i - 1 < j - 1
      BY <1>1, <1>3, <1>6, <2>3
    <3> QED
      BY <1>2, <2>1, <3>1
  <2> QED
    BY <2>2, <2>3
<1>7. r \in [1..n + 1 -> S]
  BY <1>4
<1>8. Enumerates(r, S)
  <2> HIDE DEF r
  <2> QED
    BY <1>1, <1>5, <1>6, <1>7 DEF Enumerates
<1> QED
  BY <1>8

LEMMA EnumerationExists ==
    ASSUME NEW S \in SUBSET Nat, IsFiniteSet(S)
    PROVE  \E q : Enumerates(q, S)
<1> DEFINE bad == {T \in SUBSET Nat : IsFiniteSet(T) /\ ~ \E q : Enumerates(q, T)}
<1>1. SUFFICES ASSUME bad # {} PROVE FALSE
  OBVIOUS
<1>2. bad \subseteq FiniteSubsetsOf(Nat)
  BY DEF FiniteSubsetsOf
<1>3. PICK T \in bad : \A U \in bad : ~ (<<U, T>> \in StrictSubsetOrdering(Nat))
  <2> HIDE DEF bad
  <2> QED
    BY <1>1, <1>2, WFMin, FS_StrictSubsetOrderingWellFounded
<1>4. T \in SUBSET Nat /\ IsFiniteSet(T) /\ ~ \E q : Enumerates(q, T)
  BY <1>3
<1>5. CASE T = {}
  <2>1. Cardinality(T) = 0
    BY <1>5, FS_EmptySet
  <2>2. Enumerates([i \in 1..0 |-> 0], T)
    BY <1>5, <2>1 DEF Enumerates
  <2> QED
    BY <1>4, <2>2
<1>6. CASE T # {}
  <2>1. PICK x \in T : \A y \in T : x <= y
    BY <1>4, <1>6, LeastNumber
  <2>2. <<T \ {x}, T>> \in StrictSubsetOrdering(Nat)
    BY <1>4, <2>1 DEF StrictSubsetOrdering
  <2>3. IsFiniteSet(T \ {x}) /\ T \ {x} \in SUBSET Nat
    BY <1>4, FS_RemoveElement
  <2>4. T \ {x} \notin bad
    BY <1>3, <2>2
  <2>5. PICK q : Enumerates(q, T \ {x})
    BY <2>3, <2>4
  <2> QED
    BY <1>4, <2>1, <2>5, EnumerationGrows
<1> QED
  BY <1>5, <1>6

\* Ascending enumerates, and is a sequence.
LEMMA AscendingIs ==
    ASSUME NEW S \in SUBSET Nat, IsFiniteSet(S)
    PROVE  /\ Ascending(S) \in Seq(S)
           /\ Len(Ascending(S)) = Cardinality(S)
           /\ Enumerates(Ascending(S), S)
<1> DEFINE n == Cardinality(S)
           f == Ascending(S)
<1>1. n \in Nat
  BY FS_CardinalityType
<1>2. PICK q : Enumerates(q, S)
  BY EnumerationExists
<1>3. f \in [1..n -> S] /\ \A i, j \in 1..n : i < j => f[i] < f[j]
  BY <1>2 DEF Ascending, Enumerates
<1>4. \A i, j \in 1..n : f[i] = f[j] => i = j
  <2> SUFFICES ASSUME NEW i \in 1..n, NEW j \in 1..n, f[i] = f[j], i < j PROVE FALSE
    OBVIOUS
  <2>1. f[i] < f[j] /\ f[i] \in Nat
    BY <1>3
  <2> QED
    BY <2>1
<1>5. IsFiniteSet(1..n) /\ Cardinality(1..n) = n
  BY <1>1, FS_Interval
<1>6. f \in Surjection(1..n, S)
  <2>1. f \in Injection(1..n, S)
    BY <1>3, <1>4 DEF Injection, IsInjective
  <2> QED
    BY <1>5, <2>1, FS_Injection
<1>7. f \in Seq(S) /\ Len(f) = n
  BY <1>1, <1>3
<1> QED
  BY <1>3, <1>6, <1>7 DEF Enumerates, Surjection


---------------------------------------------------------------------------
(* In order of time *)

\* q has every member of S once, the one of the last time first.
Lists(q, S, at) ==
    /\ q \in [1..Cardinality(S) -> S]
    /\ \A x \in S : \E i \in 1..Cardinality(S) : q[i] = x
    /\ \A i, j \in 1..Cardinality(S) : i < j => at[q[i]] > at[q[j]]

\* No two members have the same time.
Timed(S, at) ==
    /\ IsFiniteSet(S)
    /\ \A x \in S : at[x] \in Nat
    /\ \A x, y \in S : at[x] = at[y] => x = y

\* The ascending sequence of the times, backwards.
LEMMA ListExists ==
    ASSUME NEW S, NEW at, Timed(S, at)
    PROVE  \E q : Lists(q, S, at)
<1> DEFINE T == {at[x] : x \in S}
           f == [x \in S |-> at[x]]
           n == Cardinality(S)
<1>1. T \in SUBSET Nat /\ IsFiniteSet(T) /\ Cardinality(T) = n /\ n \in Nat
  <2>1. f \in Bijection(S, T)
    BY DEF Timed, Bijection, Injection, Surjection, IsInjective
  <2>2. IsFiniteSet(S) /\ ExistsBijection(S, T)
    BY <2>1 DEF Timed, ExistsBijection
  <2>3. IsFiniteSet(T) /\ Cardinality(T) = n /\ n \in Nat
    <3> HIDE DEF T
    <3> QED
      BY <2>2, FS_Bijection, FS_CardinalityType
  <2> QED
    BY <2>3 DEF Timed
<1>2. PICK e : Enumerates(e, T)
  BY <1>1, EnumerationExists
<1>3. /\ e \in [1..n -> T] /\ \A y \in T : \E i \in 1..n : e[i] = y
      /\ \A i, j \in 1..n : i < j => e[i] < e[j]
  BY <1>1, <1>2 DEF Enumerates
<1> DEFINE q == [i \in 1..n |-> CHOOSE x \in S : at[x] = e[n + 1 - i]]
<1>4. ASSUME NEW i \in 1..n
      PROVE  n + 1 - i \in 1..n /\ q[i] \in S /\ at[q[i]] = e[n + 1 - i]
  <2>1. n + 1 - i \in 1..n
    BY <1>1
  <2>2. \E x \in S : at[x] = e[n + 1 - i]
    BY <1>3, <2>1
  <2> QED
    BY <2>1, <2>2
<1>5. q \in [1..n -> S]
  BY <1>4
<1> HIDE DEF q
<1>6. ASSUME NEW x \in S PROVE \E i \in 1..n : q[i] = x
  <2>1. PICK j \in 1..n : e[j] = at[x]
    BY <1>3
  <2>2. n + 1 - j \in 1..n /\ n + 1 - (n + 1 - j) = j
    BY <1>1
  <2>3. q[n + 1 - j] \in S /\ at[q[n + 1 - j]] = at[x]
    BY <1>4, <2>1, <2>2
  <2> QED
    BY <2>2, <2>3 DEF Timed
<1>7. ASSUME NEW i \in 1..n, NEW j \in 1..n, i < j PROVE at[q[i]] > at[q[j]]
  <2>1. n + 1 - j \in 1..n /\ n + 1 - i \in 1..n /\ n + 1 - j < n + 1 - i
    BY <1>1, <1>7
  <2>2. e[n + 1 - j] < e[n + 1 - i] /\ e[n + 1 - j] \in Nat /\ e[n + 1 - i] \in Nat
    BY <1>1, <1>3, <2>1
  <2> QED
    BY <1>4, <2>2
<1> QED
  BY <1>5, <1>6, <1>7 DEF Lists

\* Two descending lists of one set agree: at the first place where they do not,
\* each would have to have the other's member later.
LEMMA ListIsOne ==
    ASSUME NEW S, NEW at, Timed(S, at), NEW q, Lists(q, S, at), NEW r, Lists(r, S, at)
    PROVE  q = r
<1> DEFINE n == Cardinality(S)
           bad == {i \in 1..n : q[i] # r[i]}
<1>1. /\ n \in Nat /\ q \in [1..n -> S] /\ r \in [1..n -> S]
      /\ \A x \in S : (\E i \in 1..n : q[i] = x) /\ (\E i \in 1..n : r[i] = x)
      /\ \A i, j \in 1..n : i < j => at[q[i]] > at[q[j]] /\ at[r[i]] > at[r[j]]
      /\ \A x \in S : at[x] \in Nat
  BY FS_CardinalityType DEF Timed, Lists
<1>2. SUFFICES ASSUME bad # {} PROVE FALSE
  BY <1>1
<1>3. PICK m \in bad : \A k \in bad : m <= k
  <2>1. bad \in SUBSET Nat
    BY <1>1
  <2> HIDE DEF bad
  <2> QED
    BY <1>2, <2>1, LeastNumber
<1>4. m \in 1..n /\ q[m] # r[m] /\ q[m] \in S /\ r[m] \in S
  BY <1>1, <1>3
<1>5. \A i \in 1..n : i < m => q[i] = r[i]
  BY <1>1, <1>3, <1>4
<1> HIDE DEF bad, n
<1>6. PICK i \in 1..n, j \in 1..n : q[i] = r[m] /\ r[j] = q[m]
  BY <1>1, <1>4
<1>7. \A k \in 1..n : q[k] \in S /\ r[k] \in S /\ at[q[k]] \in Nat /\ at[r[k]] \in Nat
  BY <1>1
<1>8. i > m
  <2>1. i # m
    BY <1>4, <1>6
  <2>2. CASE i < m
    <3>1. r[i] = r[m] /\ at[r[i]] > at[r[m]]
      BY <1>1, <1>4, <1>5, <1>6, <2>2
    <3> QED
      BY <1>4, <1>7, <3>1
  <2> QED
    BY <1>1, <1>4, <2>1, <2>2
<1>9. j > m
  <2>1. j # m
    BY <1>4, <1>6
  <2>2. CASE j < m
    <3>1. q[j] = q[m] /\ at[q[j]] > at[q[m]]
      BY <1>1, <1>4, <1>5, <1>6, <2>2
    <3> QED
      BY <1>4, <1>7, <3>1
  <2> QED
    BY <1>1, <1>4, <2>1, <2>2
<1>10. at[q[m]] > at[r[m]] /\ at[r[m]] > at[q[m]]
  BY <1>1, <1>4, <1>6, <1>8, <1>9
<1> QED
  BY <1>4, <1>7, <1>10

\* NewestFirst is that list.
LEMMA NewestFirstIs ==
    ASSUME NEW S, NEW at, Timed(S, at)
    PROVE  /\ Lists(NewestFirst(S, at), S, at)
           /\ Cardinality(S) \in Nat
           /\ NewestFirst(S, at) \in Seq(S) /\ Len(NewestFirst(S, at)) = Cardinality(S)
<1> DEFINE n == Cardinality(S)
           f == NewestFirst(S, at)
<1>1. n \in Nat /\ IsFiniteSet(S)
  BY FS_CardinalityType DEF Timed
<1>2. PICK q : Lists(q, S, at)
  BY ListExists
<1>3. f \in [1..n -> S] /\ \A i, j \in 1..n : i < j => at[f[i]] > at[f[j]]
  BY <1>2 DEF NewestFirst, Lists
<1>4. \A i, j \in 1..n : f[i] = f[j] => i = j
  <2> SUFFICES ASSUME NEW i \in 1..n, NEW j \in 1..n, f[i] = f[j], i < j PROVE FALSE
    OBVIOUS
  <2>1. at[f[i]] > at[f[j]] /\ f[i] \in S
    BY <1>3
  <2>2. at[f[i]] \in Nat
    BY <2>1 DEF Timed
  <2> QED
    BY <2>1, <2>2
<1>5. IsFiniteSet(1..n) /\ Cardinality(1..n) = n
  BY <1>1, FS_Interval
<1>6. f \in Surjection(1..n, S)
  <2>1. f \in Injection(1..n, S)
    BY <1>3, <1>4 DEF Injection, IsInjective
  <2> QED
    BY <1>1, <1>5, <2>1, FS_Injection
<1>7. f \in Seq(S) /\ Len(f) = n
  BY <1>1, <1>3
<1> QED
  BY <1>1, <1>3, <1>6, <1>7 DEF Lists, Surjection

\* The first k of a list are those that are not older than c; now agrees with at
\* about the others.
Divides(c, k, q, S, at, now) ==
    /\ Timed(S, at) /\ Lists(q, S, at)
    /\ c \in Nat /\ k \in 0..Cardinality(S)
    /\ \A i \in 1..Cardinality(S) : at[q[i]] < c <=> i > k
    /\ \A x \in S : at[x] < c => now[x] = at[x]

\* What is older than a time is the rest of the list.
LEMMA OlderAreTheRest ==
    ASSUME NEW S, NEW at, NEW q, NEW c, NEW k, NEW now, Divides(c, k, q, S, at, now)
    PROVE  NewestFirst({x \in S : at[x] < c}, now) = SubSeq(q, k + 1, Cardinality(S))
<1> DEFINE n == Cardinality(S)
           older == {x \in S : at[x] < c}
<1>1. /\ n \in Nat /\ IsFiniteSet(S) /\ q \in [1..n -> S]
      /\ \A x \in S : \E i \in 1..n : q[i] = x
      /\ \A i, j \in 1..n : i < j => at[q[i]] > at[q[j]]
      /\ \A x \in S : at[x] \in Nat
      /\ \A x, y \in S : at[x] = at[y] => x = y
      /\ k \in 0..n /\ c \in Nat /\ Timed(S, at) /\ Lists(q, S, at)
      /\ \A i \in 1..n : at[q[i]] < c <=> i > k
      /\ \A x \in S : at[x] < c => now[x] = at[x]
  BY FS_CardinalityType DEF Divides, Timed, Lists
<1>2. Timed(older, now)
  <2>1. IsFiniteSet(older)
    BY <1>1, FS_Subset
  <2> QED
    BY <1>1, <2>1 DEF Timed
<1> DEFINE rest == [i \in 1..n - k |-> q[k + i]]
<1>3. SubSeq(q, k + 1, n) = rest
  <2>1. q \in Seq(S) /\ Len(q) = n
    BY <1>1
  <2> QED
    BY <1>1, <2>1
<1>4. ASSUME NEW i \in 1..n - k PROVE k + i \in 1..n /\ rest[i] \in older
  BY <1>1
<1>5. \A x \in older : \E i \in 1..n - k : rest[i] = x
  <2> SUFFICES ASSUME NEW x \in older PROVE \E i \in 1..n - k : rest[i] = x
    OBVIOUS
  <2>1. PICK i \in 1..n : q[i] = x
    BY <1>1
  <2>2. i > k /\ i - k \in 1..n - k /\ k + (i - k) = i
    BY <1>1, <2>1
  <2> QED
    BY <2>1, <2>2
<1>6. \A i, j \in 1..n - k : i < j => now[rest[i]] > now[rest[j]]
  <2> SUFFICES ASSUME NEW i \in 1..n - k, NEW j \in 1..n - k, i < j
               PROVE  now[rest[i]] > now[rest[j]]
    OBVIOUS
  <2>1. k + i \in 1..n /\ k + j \in 1..n /\ k + i < k + j
    BY <1>1, <1>4
  <2>2. at[q[k + i]] > at[q[k + j]]
    BY <1>1, <2>1
  <2>3. now[rest[i]] = at[rest[i]] /\ now[rest[j]] = at[rest[j]]
    BY <1>1, <1>4
  <2> QED
    BY <2>2, <2>3
<1>7. rest \in [1..n - k -> older]
  BY <1>4
<1> HIDE DEF rest
<1>8. Cardinality(older) = n - k
  <2>1. n - k \in Nat /\ IsFiniteSet(1..n - k) /\ Cardinality(1..n - k) = n - k
    <3>1. PICK m \in Nat : m = n - k
      BY <1>1
    <3> QED
      BY <3>1, FS_Interval
  <2>2. \A i, j \in 1..n - k : rest[i] = rest[j] => i = j
    <3> SUFFICES ASSUME NEW i \in 1..n - k, NEW j \in 1..n - k, rest[i] = rest[j], i < j PROVE FALSE
      BY <2>1
    <3>1. now[rest[i]] > now[rest[j]] /\ rest[i] \in older
      BY <1>6, <1>7
    <3>2. now[rest[i]] \in Nat
      BY <1>2, <3>1 DEF Timed
    <3> QED
      BY <3>1, <3>2
  <2>3. rest \in Bijection(1..n - k, older)
    BY <1>5, <1>7, <2>2 DEF Bijection, Injection, Surjection, IsInjective
  <2> QED
    BY <2>1, <2>3, FS_Bijection DEF ExistsBijection
<1>9. Lists(rest, older, now)
  BY <1>5, <1>6, <1>7, <1>8 DEF Lists
<1>10. Lists(NewestFirst(older, now), older, now)
  BY <1>2, NewestFirstIs
<1> QED
  BY <1>2, <1>3, <1>9, <1>10, ListIsOne

---------------------------------------------------------------------------
(* Parts of a sequence *)

\* The m members of a sequence after the first k.
LEMMA Part ==
    ASSUME NEW S, NEW s \in Seq(S), NEW k \in Nat, NEW m \in Nat, k + m <= Len(s)
    PROVE  /\ SubSeq(s, k + 1, k + m) \in Seq(S) /\ Len(SubSeq(s, k + 1, k + m)) = m
           /\ \A i \in 1..m : SubSeq(s, k + 1, k + m)[i] = s[k + i] /\ s[k + i] \in S
<1>1. PICK n : n = Len(s) /\ n \in Nat /\ \A i \in 1..n : s[i] \in S
  OBVIOUS
<1>2. \A i \in k + 1..k + m : s[i] \in S
  BY <1>1
<1>3. PICK from, to, t : from = k + 1 /\ to = k + m /\ t = SubSeq(s, k + 1, k + m)
  OBVIOUS
<1>4. from \in Int /\ to \in Int /\ \A i \in from..to : s[i] \in S
  BY <1>2, <1>3
<1>5. /\ t \in Seq(S) /\ Len(t) = IF from <= to THEN to - from + 1 ELSE 0
      /\ \A i \in 1..to - from + 1 : t[i] = s[from + i - 1]
  BY <1>3, <1>4, SubSeqProperties
<1>6. Len(t) = m
  BY <1>3, <1>5
<1>7. ASSUME NEW i \in 1..m PROVE t[i] = s[k + i] /\ s[k + i] \in S
  <2>1. i \in 1..to - from + 1 /\ from + i - 1 = k + i /\ k + i \in from..to
    BY <1>3
  <2> QED
    BY <1>4, <1>5, <2>1
<1> QED
  BY <1>3, <1>5, <1>6, <1>7

LEMMA FirstPart ==
    ASSUME NEW S, NEW s \in Seq(S), NEW m \in Nat, m <= Len(s)
    PROVE  /\ SubSeq(s, 1, m) \in Seq(S) /\ Len(SubSeq(s, 1, m)) = m
           /\ \A i \in 1..m : SubSeq(s, 1, m)[i] = s[i] /\ s[i] \in S
<1>1. 0 + m <= Len(s) /\ 0 + 1 = 1 /\ 0 + m = m /\ \A i \in 1..m : 0 + i = i
  OBVIOUS
<1>2. /\ SubSeq(s, 0 + 1, 0 + m) \in Seq(S) /\ Len(SubSeq(s, 0 + 1, 0 + m)) = m
      /\ \A i \in 1..m : SubSeq(s, 0 + 1, 0 + m)[i] = s[0 + i] /\ s[0 + i] \in S
  BY <1>1, Part
<1> QED
  BY <1>1, <1>2

LEMMA PartOfPart ==
    ASSUME NEW S, NEW s \in Seq(S), NEW k \in Nat, NEW n \in Nat, k + n <= Len(s),
           NEW m \in Nat, m <= n
    PROVE  SubSeq(SubSeq(s, k + 1, k + n), 1, m) = SubSeq(s, k + 1, k + m)
<1>1. PICK t : t = SubSeq(s, k + 1, k + n)
  OBVIOUS
<1>2. t \in Seq(S) /\ Len(t) = n /\ \A i \in 1..n : t[i] = s[k + i]
  BY <1>1, Part
<1>3. PICK a, b : a = SubSeq(t, 1, m) /\ b = SubSeq(s, k + 1, k + m)
  OBVIOUS
<1>4. m <= Len(t)
  BY <1>2
<1>5. a \in Seq(S) /\ Len(a) = m /\ \A i \in 1..m : a[i] = t[i]
  BY <1>2, <1>3, <1>4, FirstPart
<1>6. k + m <= Len(s)
  <2>1. Len(s) \in Nat
    OBVIOUS
  <2> QED
    BY <2>1
<1>7. b \in Seq(S) /\ Len(b) = m /\ \A i \in 1..m : b[i] = s[k + i]
  BY <1>3, <1>6, Part
<1>8. \A i \in 1..m : i \in 1..n
  OBVIOUS
<1>9. \A i \in 1..m : a[i] = b[i]
  BY <1>2, <1>5, <1>7, <1>8
<1>10. Len(a) = Len(b) /\ \A i \in 1..Len(a) : a[i] = b[i]
  BY <1>5, <1>7, <1>9
<1>11. a = b
  BY <1>5, <1>7, <1>10, SeqEqual
<1> QED
  BY <1>1, <1>3, <1>11

LEMMA PartsJoin ==
    ASSUME NEW S, NEW s \in Seq(S), NEW k \in Nat, NEW m \in Nat, k + m <= Len(s)
    PROVE  SubSeq(s, 1, k) \o SubSeq(s, k + 1, k + m) = SubSeq(s, 1, k + m)
<1>1. Len(s) \in Nat
  OBVIOUS
<1>2. 1 \in 1..Len(s) + 1 /\ k \in 1 - 1..Len(s) /\ k + m \in k..Len(s)
  BY <1>1
<1> QED
  BY <1>2, ConcatAdjacentSubSeq

=============================================================================
