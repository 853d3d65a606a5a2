------------------------------- MODULE Lemmas -------------------------------
(***************************************************************************)
(* What the proofs of several components need: induction for sets of       *)
(* numbers, functions that are defined step by step, and lists in order.   *)
(***************************************************************************)
EXTENDS Ranks, FiniteSetTheorems, WellFoundedInduction, TLAPS

\* Induction over the natural numbers, for a set instead of a predicate.
LEMMA NatSetInduction ==
  ASSUME NEW S, 0 \in S, \A n \in Nat : n \in S => n + 1 \in S
  PROVE  \A n \in Nat : n \in S
<1> DEFINE Less == {ss \in Nat \X Nat : ss[1] < ss[2]}
           Out == Nat \ S
<1>1. IsWellFoundedOn(Less, Nat)
  BY NatLessThanWellFounded, Zenon DEF OpToRel
<1>2. SUFFICES ASSUME Out # {} PROVE FALSE
  OBVIOUS
<1>3. PICK n \in Out : \A m \in Out : <<m, n>> \notin Less
  <2> HIDE DEF Less
  <2> QED  BY <1>1, <1>2, WFMin
<1>4. n \in Nat /\ n # 0 /\ n - 1 \in Nat /\ <<n - 1, n>> \in Less
  BY <1>3
<1>5. n - 1 \in S
  BY <1>3, <1>4
<1>6. (n - 1) + 1 \in S
  BY <1>4, <1>5
<1> QED  BY <1>3, <1>4, <1>6

\* A loop of N turns that stays in a set: the states it goes through exist.
LEMMA Iteration ==
  ASSUME NEW S, NEW base \in S, NEW N \in Nat, NEW step \in [1 .. N -> [S -> S]]
  PROVE  \E f \in [0 .. N -> S] :
           f[0] = base /\ \A n \in 1 .. N : f[n] = step[n][f[n - 1]]
<1> DEFINE Runs(f, m) == /\ f \in [0 .. m -> S] /\ f[0] = base
                         /\ \A n \in 1 .. m : f[n] = step[n][f[n - 1]]
           Some == {m \in Nat : m <= N => \E f : Runs(f, m)}
<1>1. 0 \in Some
  <2>1. Runs([n \in 0 .. 0 |-> base], 0)
    OBVIOUS
  <2> HIDE DEF Runs
  <2> QED  BY <2>1
<1>2. ASSUME NEW m \in Nat, m \in Some PROVE m + 1 \in Some
  <2>1. SUFFICES ASSUME m + 1 <= N PROVE \E f : Runs(f, m + 1)
    BY DEF Some
  <2>2. m <= N /\ m + 1 \in 1 .. N
    BY <2>1
  <2>3. PICK f : Runs(f, m)
    BY <1>2, <2>2
  <2> DEFINE g == [n \in 0 .. m + 1 |-> IF n = m + 1 THEN step[m + 1][f[m]] ELSE f[n]]
  <2>4. f[m] \in S /\ step[m + 1][f[m]] \in S
    BY <2>2, <2>3
  <2>5. \A n \in 0 .. m + 1 : n \in 0 .. m \/ n = m + 1
    OBVIOUS
  <2>6. g \in [0 .. m + 1 -> S]
    BY <2>3, <2>4, <2>5
  <2>7. ASSUME NEW n \in 1 .. m + 1 PROVE g[n] = step[n][g[n - 1]]
    <3>1. CASE n = m + 1
      <4>1. g[n] = step[m + 1][f[m]] /\ n - 1 = m /\ m # m + 1 /\ g[m] = f[m]
        BY <3>1
      <4> HIDE DEF g
      <4> QED  BY <3>1, <4>1
    <3>2. CASE n \in 1 .. m
      <4>1. n # m + 1 /\ n - 1 # m + 1 /\ n \in 0 .. m + 1 /\ n - 1 \in 0 .. m + 1
        BY <3>2
      <4>2. g[n] = f[n] /\ g[n - 1] = f[n - 1]
        BY <4>1
      <4> HIDE DEF g
      <4> QED  BY <2>3, <3>2, <4>2
    <3> QED  BY <3>1, <3>2
  <2>8. g[0] = base
    BY <2>3
  <2> HIDE DEF g
  <2> QED  BY <2>6, <2>7, <2>8
<1> HIDE DEF Some
<1>3. N \in Some
  BY <1>1, <1>2, NatSetInduction
<1>4. PICK f : Runs(f, N)
  BY <1>3 DEF Some
<1> QED  BY <1>4

\* And every state of such a loop lies in the set.
LEMMA IterationStays ==
  ASSUME NEW S, NEW N \in Nat, NEW f, f[0] \in S,
         \A n \in 1 .. N : f[n - 1] \in S => f[n] \in S
  PROVE  \A n \in 0 .. N : f[n] \in S
<1> DEFINE In == {m \in Nat : m <= N => f[m] \in S}
<1>1. 0 \in In
  OBVIOUS
<1>2. ASSUME NEW m \in Nat, m \in In PROVE m + 1 \in In
  <2>1. SUFFICES ASSUME m + 1 <= N PROVE f[m + 1] \in S
    BY DEF In
  <2>2. m + 1 \in 1 .. N /\ (m + 1) - 1 = m /\ f[m] \in S
    BY <1>2, <2>1
  <2> QED  BY <2>2
<1> HIDE DEF In
<1>3. \A m \in Nat : m \in In
  BY <1>1, <1>2, NatSetInduction
<1> QED  BY <1>3 DEF In

\* Of the numbers up to a bound some is the greatest, or there are none.
LEMMA Greatest ==
  ASSUME NEW n \in Nat, NEW K, K \subseteq 1 .. n
  PROVE  \E k \in K \union {0} : \A i \in K : i <= k
<1> DEFINE Has(m) == \A S : S \subseteq 1 .. m => \E k \in S \union {0} : \A i \in S : i <= k
           In == {m \in Nat : Has(m)}
<1>1. 0 \in In
  OBVIOUS
<1>2. ASSUME NEW m \in Nat, m \in In PROVE m + 1 \in In
  <2> SUFFICES ASSUME NEW S, S \subseteq 1 .. m + 1
               PROVE  \E k \in S \union {0} : \A i \in S : i <= k
    OBVIOUS
  <2>1. CASE m + 1 \in S
    <3>1. \A i \in S : i <= m + 1
      OBVIOUS
    <3> QED  BY <2>1, <3>1
  <2>2. CASE m + 1 \notin S
    <3>1. \A i \in 1 .. m + 1 : i = m + 1 \/ i \in 1 .. m
      OBVIOUS
    <3>2. S \subseteq 1 .. m
      BY <2>2, <3>1
    <3> QED  BY <1>2, <3>2
  <2> QED  BY <2>1, <2>2
<1> HIDE DEF In
<1>3. n \in In
  BY <1>1, <1>2, NatSetInduction
<1> QED  BY <1>3 DEF In

-----------------------------------------------------------------------------
\* Lists in order have every member once, and a lower key comes first.
LEMMA InOrder ==
  ASSUME NEW K, IsFiniteSet(K), NEW key \in [K -> Int],
         \A i, j \in K : key[i] = key[j] => i = j
  PROVE  LET at == InOrderOf(K, key) IN
           /\ Cardinality(K) \in Nat
           /\ at = [p \in 1 .. Cardinality(K) |-> at[p]]
           /\ \A p \in 1 .. Cardinality(K) : at[p] \in K
           /\ \A p, q \in 1 .. Cardinality(K) : p < q => key[at[p]] < key[at[q]]
           /\ \A p, q \in 1 .. Cardinality(K) : at[p] = at[q] => p = q
           /\ \A i \in K : \E p \in 1 .. Cardinality(K) : at[p] = i
<1> DEFINE n == Cardinality(K)
           Upto(i) == {j \in K : key[j] <= key[i]}
           place(i) == Cardinality(Upto(i))
           f == [i \in K |-> place(i)]
           at == InOrderOf(K, key)
<1>1. n \in Nat
  BY FS_CardinalityType
<1>2. ASSUME NEW i \in K PROVE IsFiniteSet(Upto(i)) /\ place(i) \in 1 .. n
  <2>1. Upto(i) \subseteq K /\ i \in Upto(i)
    OBVIOUS
  <2> HIDE DEF Upto
  <2>2. IsFiniteSet(Upto(i)) /\ Cardinality(Upto(i)) <= n
    BY <2>1, FS_Subset
  <2>3. Cardinality(Upto(i)) \in Nat /\ Cardinality(Upto(i)) # 0
    BY <2>1, <2>2, FS_CardinalityType, FS_EmptySet
  <2> QED  BY <1>1, <2>2, <2>3
<1>3. ASSUME NEW i \in K, NEW j \in K, key[i] < key[j] PROVE place(i) < place(j)
  <2>1. Upto(i) \cup {j} \subseteq Upto(j) /\ j \notin Upto(i)
    BY <1>3
  <2>2. IsFiniteSet(Upto(i)) /\ IsFiniteSet(Upto(j)) /\ place(i) \in Nat /\ place(j) \in Nat
    BY <1>1, <1>2
  <2> HIDE DEF Upto
  <2>3. Cardinality(Upto(i) \cup {j}) = Cardinality(Upto(i)) + 1
    BY <2>1, <2>2, FS_AddElement
  <2>4. Cardinality(Upto(i) \cup {j}) <= Cardinality(Upto(j))
    BY <2>1, <2>2, FS_Subset
  <2> QED  BY <2>2, <2>3, <2>4
<1> HIDE DEF Upto
<1>4. ASSUME NEW i \in K, NEW j \in K, place(i) = place(j) PROVE i = j
  <2>1. key[i] \in Int /\ key[j] \in Int /\ place(i) \in Int
    BY <1>1, <1>2
  <2> QED  BY <1>3, <1>4, <2>1
<1> HIDE DEF place
<1>5. f \in Injection(K, 1 .. n)
  BY <1>2, <1>4 DEF Injection, IsInjective
<1>6. IsFiniteSet(1 .. n) /\ Cardinality(1 .. n) = n
  BY <1>1, FS_Interval
<1>7. f \in Surjection(K, 1 .. n)
  <2> HIDE DEF f
  <2> QED  BY <1>5, <1>6, FS_Injection
<1>8. ASSUME NEW p \in 1 .. n PROVE \E i \in K : place(i) = p
  BY <1>7 DEF Surjection
<1>9. at = [p \in 1 .. n |-> CHOOSE i \in K : place(i) = p]
  BY DEF InOrderOf, Rank, place, Upto
<1>10. ASSUME NEW p \in 1 .. n PROVE at[p] \in K /\ place(at[p]) = p
  BY <1>8, <1>9
<1>11. at = [p \in 1 .. n |-> at[p]]
  BY <1>9
<1> HIDE DEF at
<1>12. ASSUME NEW i \in K PROVE place(i) \in 1 .. n /\ at[place(i)] = i
  BY <1>2, <1>4, <1>10
<1>13. ASSUME NEW p \in 1 .. n, NEW q \in 1 .. n, p < q PROVE key[at[p]] < key[at[q]]
  <2>1. at[p] \in K /\ at[q] \in K /\ key[at[p]] \in Int /\ key[at[q]] \in Int
    BY <1>10
  <2>2. CASE key[at[q]] < key[at[p]]
    <3>1. place(at[q]) < place(at[p])
      BY <1>3, <2>1, <2>2
    <3> QED  BY <1>1, <1>10, <1>13, <3>1
  <2>3. CASE key[at[q]] = key[at[p]]
    BY <1>1, <1>10, <1>13, <2>1, <2>3
  <2> QED  BY <2>1, <2>2, <2>3
<1>14. ASSUME NEW p \in 1 .. n, NEW q \in 1 .. n, at[p] = at[q] PROVE p = q
  BY <1>10, <1>14
<1> QED  BY <1>1, <1>10, <1>11, <1>12, <1>13, <1>14 DEF at

\* The same for the members of a finite set of integers.
LEMMA AscendsInOrder ==
  ASSUME NEW K, IsFiniteSet(K), K \subseteq Int
  PROVE  LET at == Ascends(K) IN
           /\ Cardinality(K) \in Nat
           /\ at = [p \in 1 .. Cardinality(K) |-> at[p]]
           /\ \A p \in 1 .. Cardinality(K) : at[p] \in K
           /\ \A p, q \in 1 .. Cardinality(K) : p < q => at[p] < at[q]
           /\ \A p, q \in 1 .. Cardinality(K) : at[p] = at[q] => p = q
           /\ \A i \in K : \E p \in 1 .. Cardinality(K) : at[p] = i
<1> DEFINE key == [i \in K |-> i]
           at == InOrderOf(K, key)
<1>1. key \in [K -> Int] /\ \A i, j \in K : key[i] = key[j] => i = j
  OBVIOUS
<1>2. \A i \in K : key[i] = i
  OBVIOUS
<1>3. Ascends(K) = at
  BY DEF Ascends
<1> HIDE DEF key
<1>4. /\ Cardinality(K) \in Nat
      /\ at = [p \in 1 .. Cardinality(K) |-> at[p]]
      /\ \A p \in 1 .. Cardinality(K) : at[p] \in K
      /\ \A p, q \in 1 .. Cardinality(K) : p < q => key[at[p]] < key[at[q]]
      /\ \A p, q \in 1 .. Cardinality(K) : at[p] = at[q] => p = q
      /\ \A i \in K : \E p \in 1 .. Cardinality(K) : at[p] = i
  BY <1>1, InOrder
<1> HIDE DEF at
<1>5. \A p, q \in 1 .. Cardinality(K) : p < q => at[p] < at[q]
  BY <1>2, <1>4
<1> QED  BY <1>3, <1>4, <1>5

\* Who goes through a finite set of integers upwards goes through it as Ascends does.
LEMMA AscendsOnly ==
  ASSUME NEW K, K \subseteq Int, NEW m \in Nat, NEW f \in [1 .. m -> K],
         \A p, q \in 1 .. m : p < q => f[p] < f[q],
         \A i \in K : \E p \in 1 .. m : f[p] = i
  PROVE  Ascends(K) = f
<1> DEFINE key == [i \in K |-> i]
           Upto(i) == {j \in K : key[j] <= key[i]}
           place(i) == Cardinality(Upto(i))
           at == InOrderOf(K, key)
<1>1. ASSUME NEW p \in 1 .. m, NEW q \in 1 .. m
      PROVE  /\ f[p] \in Int /\ (f[p] = f[q] => p = q) /\ (f[q] <= f[p] <=> q <= p)
  <2>1. f[p] \in Int /\ f[q] \in Int
    BY <1>1
  <2>2. p < q \/ p = q \/ q < p
    OBVIOUS
  <2>3. p < q => f[p] < f[q]
    OBVIOUS
  <2>4. q < p => f[q] < f[p]
    OBVIOUS
  <2> QED  BY <2>1, <2>2, <2>3, <2>4
<1>2. ASSUME NEW p \in 1 .. m PROVE place(f[p]) = p
  <2> DEFINE g == [q \in 1 .. p |-> f[q]]
             S == Upto(f[p])
             T == 1 .. p
  <2>1. ASSUME NEW q \in T PROVE g[q] \in S
    <3>1. q \in 1 .. m /\ q <= p /\ f[q] \in K /\ f[p] \in K
      OBVIOUS
    <3>2. f[q] <= f[p]
      BY <1>1, <3>1
    <3> QED  BY <3>1, <3>2
  <2>2. ASSUME NEW i \in S PROVE \E q \in T : g[q] = i
    <3>1. i \in K /\ i <= f[p]
      OBVIOUS
    <3>2. PICK q \in 1 .. m : f[q] = i
      BY <3>1
    <3>3. q <= p
      BY <1>1, <3>1, <3>2
    <3> QED  BY <3>2, <3>3
  <2>3. ASSUME NEW q \in T, NEW r \in T, g[q] = g[r] PROVE q = r
    <3>1. q \in 1 .. m /\ r \in 1 .. m /\ f[q] = f[r]
      BY <2>3
    <3> QED  BY <1>1, <3>1
  <2>4. g = [q \in T |-> g[q]]
    OBVIOUS
  <2>5. T = 1 .. p /\ p \in Int /\ 1 \in Int
    OBVIOUS
  <2> HIDE DEF g, S, T
  <2>6. g \in Bijection(T, S)
    <3>1. g \in [T -> S]
      BY <2>1, <2>4
    <3> QED  BY <2>2, <2>3, <3>1 DEF Bijection, Injection, Surjection, IsInjective
  <2>7. IsFiniteSet(T) /\ Cardinality(T) = p
    <3>1. IsFiniteSet(1 .. p) /\ Cardinality(1 .. p) = IF 1 > p THEN 0 ELSE p - 1 + 1
      BY <2>5, FS_Interval
    <3> QED  BY <2>5, <3>1
  <2>8. Cardinality(S) = Cardinality(T)
    <3>1. ExistsBijection(T, S)
      BY <2>6 DEF ExistsBijection
    <3> QED  BY <2>7, <3>1, FS_Bijection
  <2> QED  BY <2>7, <2>8 DEF S
<1>3. Cardinality(K) = m
  <2> DEFINE T == 1 .. m
  <2>1. f \in Bijection(T, K)
    <3>1. \A p, q \in T : f[p] = f[q] => p = q
      BY <1>1
    <3> QED  BY <3>1 DEF Bijection, Injection, Surjection, IsInjective
  <2>2. IsFiniteSet(T) /\ Cardinality(T) = m
    <3>1. IsFiniteSet(1 .. m) /\ Cardinality(1 .. m) = IF 1 > m THEN 0 ELSE m - 1 + 1
      BY FS_Interval
    <3> QED  BY <3>1
  <2> HIDE DEF T
  <2>3. ExistsBijection(T, K)
    BY <2>1 DEF ExistsBijection
  <2> QED  BY <2>2, <2>3, FS_Bijection
<1>4. at = [p \in 1 .. m |-> CHOOSE i \in K : place(i) = p]
  BY <1>3 DEF InOrderOf, Rank, place, Upto
<1>5. Ascends(K) = at
  BY DEF Ascends
<1> HIDE DEF key, Upto, place, at
<1>6. ASSUME NEW p \in 1 .. m PROVE (CHOOSE i \in K : place(i) = p) = f[p]
  <2>1. f[p] \in K /\ place(f[p]) = p
    BY <1>2
  <2>2. ASSUME NEW i \in K, place(i) = p PROVE i = f[p]
    <3>1. PICK q \in 1 .. m : f[q] = i
      OBVIOUS
    <3> QED  BY <1>2, <2>2, <3>1
  <2> QED  BY <2>1, <2>2
<1>7. at = [p \in 1 .. m |-> f[p]]
  BY <1>4, <1>6
<1> QED  BY <1>5, <1>7

\* Of some numbers up to a bound one is the least.
LEMMA Least ==
  ASSUME NEW n \in Nat, NEW K, K \subseteq 1 .. n, K # {}
  PROVE  \E k \in K : \A i \in K : k <= i
<1> DEFINE S == {n + 1 - k : k \in K}
<1>0. \A k \in K : k \in Int /\ 1 <= k /\ k <= n
  OBVIOUS
<1>1. S \subseteq 1 .. n /\ \E s \in S : s >= 1
  <2>1. \A k \in K : n + 1 - k \in 1 .. n
    BY <1>0
  <2>2. S \subseteq 1 .. n
    BY <2>1
  <2>3. PICK k0 \in K : TRUE
    OBVIOUS
  <2>4. n + 1 - k0 \in S
    BY <2>3
  <2> HIDE DEF S
  <2> QED  BY <2>2, <2>4
<1>2. \A k \in K : n + 1 - k \in S
  OBVIOUS
<1>3. \A s \in S : n + 1 - s \in K
  OBVIOUS
<1> HIDE DEF S
<1>4. PICK s \in S \union {0} : \A i \in S : i <= s
  BY <1>1, Greatest
<1>5. s \in S
  <2>1. s # 0
    BY <1>1, <1>4
  <2> QED  BY <1>4, <2>1
<1>6. \A i \in K : n + 1 - s <= i
  BY <1>1, <1>2, <1>4, <1>5
<1> QED  BY <1>3, <1>5, <1>6

\* A list of the members of a set of numbers, in their order.
ListsAll(K, m, at) ==
  /\ m \in Nat /\ at \in [1 .. m -> K]
  /\ \A p, q \in 1 .. m : p < q => at[p] < at[q]
  /\ \A i \in K : \E p \in 1 .. m : at[p] = i

\* Places of a list, as Ascends lists them.
LEMMA AscendsPlaces ==
  ASSUME NEW n, NEW K, n \in Nat, K \subseteq 1 .. n
  PROVE  \E m : ListsAll(K, m, Ascends(K))
<1>1. IsFiniteSet(1 .. n) /\ K \subseteq Int
  BY FS_Interval
<1>2. IsFiniteSet(K)
  BY <1>1, FS_Subset
<1> DEFINE at == Ascends(K)
           m == Cardinality(K)
<1>3. /\ m \in Nat /\ at = [p \in 1 .. m |-> at[p]]
      /\ \A p \in 1 .. m : at[p] \in K
      /\ \A p, q \in 1 .. m : p < q => at[p] < at[q]
      /\ \A i \in K : \E p \in 1 .. m : at[p] = i
  BY <1>1, <1>2, AscendsInOrder
<1> HIDE DEF at, m
<1>4. at \in [1 .. m -> K]
  BY <1>3
<1>5. ListsAll(K, m, at)
  BY <1>3, <1>4 DEF ListsAll
<1> QED  BY <1>5 DEF at

-----------------------------------------------------------------------------
(* Runs of equal values, and the places of a list where they end or begin.  *)

EndsRuns(v, n, K) == \A k \in 1 .. n : k \in K <=> k = n \/ v[k] # v[k + 1]
BeginsRuns(v, n, K) == \A k \in 1 .. n : k \in K <=> k = 1 \/ v[k] # v[k - 1]

\* The next place of K after i, or the last one before it, has the same value.
EndOf(v, K, i, j) == j \in K /\ i <= j /\ v[j] = v[i] /\ \A k \in K : i <= k => j <= k
BeginOf(v, K, i, j) == j \in K /\ j <= i /\ v[j] = v[i] /\ \A k \in K : k <= i => k <= j

\* A list whose neighbours are equal from one place to another is equal at both.
LEMMA Steady ==
  ASSUME NEW n \in Nat, NEW v, NEW i \in 1 .. n, NEW j \in 1 .. n, i <= j,
         \A k \in i .. j - 1 : v[k] = v[k + 1]
  PROVE  v[i] = v[j]
<1> DEFINE In == {d \in Nat : i + d <= j => v[i] = v[i + d]}
<1>1. 0 \in In
  OBVIOUS
<1>2. ASSUME NEW d \in Nat, d \in In PROVE d + 1 \in In
  <2>1. ASSUME i + (d + 1) <= j PROVE v[i] = v[i + (d + 1)]
    <3>1. i + d \in i .. j - 1 /\ (i + d) + 1 = i + (d + 1) /\ i + d <= j
      BY <2>1
    <3>2. v[i + d] = v[(i + d) + 1]
      BY <3>1
    <3> QED  BY <1>2, <3>1, <3>2
  <2> QED  BY <2>1
<1> HIDE DEF In
<1>3. \A d \in Nat : d \in In
  BY <1>1, <1>2, NatSetInduction
<1>4. j - i \in Nat /\ i + (j - i) = j /\ i + (j - i) <= j
  OBVIOUS
<1>5. j - i \in In
  BY <1>3, <1>4
<1> QED  BY <1>4, <1>5 DEF In

\* Every sample has the value of the last one of its run, the next that compress keeps.
LEMMA RunEnd ==
  ASSUME NEW n, NEW v, NEW i, NEW K,
         n \in Nat, i \in 1 .. n, K \subseteq 1 .. n, EndsRuns(v, n, K)
  PROVE  \E j : EndOf(v, K, i, j)
<1> DEFINE S == {k \in K : i <= k}
<1>0. n \in 1 .. n /\ n \in K
  BY DEF EndsRuns
<1>1. S \subseteq 1 .. n /\ n \in S
  <2>1. i <= n
    OBVIOUS
  <2>2. \A k \in S : k \in 1 .. n
    OBVIOUS
  <2> QED  BY <1>0, <2>1, <2>2, Zenon
<1>2. PICK j \in S : \A k \in S : j <= k
  BY <1>1, Least
<1>3. j \in 1 .. n /\ i <= j /\ j \in K
  OBVIOUS
<1>4. ASSUME NEW k \in i .. j - 1 PROVE v[k] = v[k + 1]
  <2>1. k \in 1 .. n /\ k # n /\ i <= k /\ ~ (j <= k)
    BY <1>3
  <2>2. k \notin K
    BY <1>2, <2>1
  <2> QED  BY <2>1, <2>2 DEF EndsRuns
<1>5. v[i] = v[j]
  BY <1>3, <1>4, Steady
<1>6. EndOf(v, K, i, j)
  BY <1>2, <1>3, <1>5 DEF EndOf
<1> QED  BY <1>6

\* And that of the first one, the one before it that unique_consecutive keeps.
LEMMA RunBegin ==
  ASSUME NEW n, NEW v, NEW i, NEW K,
         n \in Nat, i \in 1 .. n, K \subseteq 1 .. n, BeginsRuns(v, n, K)
  PROVE  \E j : BeginOf(v, K, i, j)
<1> DEFINE S == {k \in K : k <= i}
<1>0. 1 \in 1 .. n /\ 1 \in K
  BY DEF BeginsRuns
<1>1. S \subseteq 1 .. n /\ 1 \in S
  <2>1. 1 <= i
    OBVIOUS
  <2>2. \A k \in S : k \in 1 .. n
    OBVIOUS
  <2> QED  BY <1>0, <2>1, <2>2, Zenon
<1>2. PICK j \in S \union {0} : \A k \in S : k <= j
  BY <1>1, Greatest
<1>3. j \in 1 .. n /\ j <= i /\ j \in K
  <2>1. j # 0
    BY <1>1, <1>2
  <2> QED  BY <1>2, <2>1
<1>4. ASSUME NEW k \in j .. i - 1 PROVE v[k] = v[k + 1]
  <2>1. k + 1 \in 1 .. n /\ k + 1 # 1 /\ k + 1 <= i /\ ~ (k + 1 <= j) /\ (k + 1) - 1 = k
    BY <1>3
  <2>2. k + 1 \notin K
    BY <1>2, <2>1
  <2> QED  BY <2>1, <2>2 DEF BeginsRuns
<1>5. v[j] = v[i]
  BY <1>3, <1>4, Steady
<1>6. BeginOf(v, K, i, j)
  BY <1>2, <1>3, <1>5 DEF BeginOf
<1> QED  BY <1>6

\* Of the places that end a run, or begin one, two with none between them differ.
LEMMA NextKeptDiffers ==
  ASSUME NEW n \in Nat, NEW v, NEW K, K \subseteq 1 .. n, NEW a \in K, NEW b \in K, a < b,
         \A k \in K : ~ (a < k /\ k < b)
  PROVE  /\ EndsRuns(v, n, K) => v[b] # v[a]
         /\ BeginsRuns(v, n, K) => v[b] # v[a]
<1>0. ASSUME NEW i \in 1 .. n, NEW j \in 1 .. n, i <= j, \A k \in i .. j - 1 : v[k] = v[k + 1]
      PROVE  v[i] = v[j]
  BY <1>0, Steady
<1>1. a \in 1 .. n /\ b \in 1 .. n
  OBVIOUS
<1>2. ASSUME EndsRuns(v, n, K)
      PROVE  v[b] # v[a]
  <2>1. v[a] # v[a + 1]
    BY <1>1, <1>2 DEF EndsRuns
  <2>2. ASSUME NEW k \in a + 1 .. b - 1 PROVE v[k] = v[k + 1]
    <3>1. k \in 1 .. n /\ a < k /\ k < b
      BY <1>1
    <3>2. k \notin K
      BY <3>1
    <3> QED  BY <1>2, <3>1, <3>2 DEF EndsRuns
  <2>3. a + 1 \in 1 .. n /\ a + 1 <= b
    BY <1>1
  <2>4. v[a + 1] = v[b]
    BY <1>0, <1>1, <2>2, <2>3
  <2> QED  BY <2>1, <2>4
<1>3. ASSUME BeginsRuns(v, n, K)
      PROVE  v[b] # v[a]
  <2>1. v[b] # v[b - 1]
    BY <1>1, <1>3 DEF BeginsRuns
  <2>2. ASSUME NEW k \in a .. (b - 1) - 1 PROVE v[k] = v[k + 1]
    <3>1. k + 1 \in 1 .. n /\ a < k + 1 /\ k + 1 < b /\ k + 1 # 1 /\ (k + 1) - 1 = k
      BY <1>1
    <3>2. k + 1 \notin K
      BY <3>1
    <3> QED  BY <1>3, <3>1, <3>2 DEF BeginsRuns
  <2>3. b - 1 \in 1 .. n /\ a <= b - 1
    BY <1>1
  <2>4. v[a] = v[b - 1]
    BY <1>0, <1>1, <2>2, <2>3
  <2> QED  BY <2>1, <2>4
<1> QED  BY <1>2, <1>3
=============================================================================
