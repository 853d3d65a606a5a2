--------------------------- MODULE VcdStreamReplay ---------------------------
(***************************************************************************)
(* What a walk shows is part of what the file has.  The places of a file   *)
(* between two value changes, and what the replay of everything has at     *)
(* each of them, are a relation on the file alone (Reached): there is one  *)
(* state per place.  Every walk, whatever it asks for, follows it, change  *)
(* by change (Follows), and a walk that ends has exactly what was asked    *)
(* for of it (DoneRight).                                                  *)
(***************************************************************************)
EXTENDS VcdStreamProofs

-----------------------------------------------------------------------------
(* A list that has, of the members of another, those in a set.              *)

Picks(f, s, b, W) ==
  /\ f \in [1 .. Len(s) -> 1 .. Len(b)]
  /\ \A i, j \in 1 .. Len(s) : i < j => f[i] < f[j]
  /\ \A i \in 1 .. Len(s) : s[i] = b[f[i]] /\ b[f[i]] \in W
  /\ \A j \in 1 .. Len(b) : b[j] \in W => \E i \in 1 .. Len(s) : f[i] = j

Sub(s, b, W) == \E f : Picks(f, s, b, W)

LEMMA SubEmpty == ASSUME NEW W PROVE Sub(<<>>, <<>>, W)
<1>1. Picks([i \in 1 .. 0 |-> 1], <<>>, <<>>, W)
  BY DEF Picks
<1> QED  BY <1>1 DEF Sub

\* What is not asked for adds nothing.
LEMMA SubNone ==
  ASSUME NEW T, NEW b \in Seq(T), NEW W, \A j \in 1 .. Len(b) : b[j] \notin W
  PROVE  Sub(<<>>, b, W)
<1>1. Picks([i \in 1 .. 0 |-> 1], <<>>, b, W)
  BY DEF Picks
<1> QED  BY <1>1 DEF Sub

\* Where everything is asked for the list is the whole one.
LEMMA SubWhole ==
  ASSUME NEW T, NEW b \in Seq(T), NEW W, \A j \in 1 .. Len(b) : b[j] \in W
  PROVE  Sub(b, b, W)
<1> DEFINE n == Len(b)
           f == [i \in 1 .. n |-> i]
<1>1. Picks(f, b, b, W)
  <2>1. f \in [1 .. n -> 1 .. n] /\ \A i \in 1 .. n : f[i] = i
    OBVIOUS
  <2> HIDE DEF f
  <2> QED  BY <2>1 DEF Picks
<1> QED  BY <1>1 DEF Sub

\* The two of one list do not depend on how they were picked.
LEMMA SubIsOnly ==
  ASSUME NEW T, NEW s \in Seq(T), NEW b \in Seq(T), NEW W, Sub(s, b, W)
  PROVE  s = Only(b, {j \in DOMAIN b : b[j] \in W})
<1> DEFINE K == {j \in DOMAIN b : b[j] \in W}
           m == Len(s)
           n == Len(b)
<1>1. m \in Nat /\ n \in Nat /\ DOMAIN b = 1 .. n /\ DOMAIN s = 1 .. m /\ s = [i \in 1 .. m |-> s[i]]
  OBVIOUS
<1>2. PICK f : Picks(f, s, b, W)
  BY DEF Sub
<1>3. /\ f \in [1 .. m -> 1 .. n]
      /\ \A i, j \in 1 .. m : i < j => f[i] < f[j]
      /\ \A i \in 1 .. m : s[i] = b[f[i]] /\ b[f[i]] \in W
      /\ \A j \in 1 .. n : b[j] \in W => \E i \in 1 .. m : f[i] = j
  BY <1>2 DEF Picks
<1>4. K \subseteq 1 .. n /\ K \subseteq Int /\ \A j \in 1 .. n : j \in K <=> b[j] \in W
  BY <1>1
<1> HIDE DEF K, m, n
<1>5. f \in [1 .. m -> K]
  BY <1>3, <1>4
<1>6. \A i \in K : \E p \in 1 .. m : f[p] = i
  BY <1>3, <1>4
<1>7. Ascends(K) = f
  BY <1>1, <1>3, <1>4, <1>5, <1>6, AscendsOnly
<1>8. Only(b, K) = [p \in 1 .. m |-> b[f[p]]]
  BY <1>3, <1>7 DEF Only
<1>9. Only(b, K) = s
  BY <1>1, <1>3, <1>8
<1> QED  BY <1>9 DEF K

\* One after the other.
LEMMA SubConcat ==
  ASSUME NEW T, NEW s \in Seq(T), NEW b \in Seq(T), NEW s2 \in Seq(T), NEW b2 \in Seq(T), NEW W,
         Sub(s, b, W), Sub(s2, b2, W)
  PROVE  Sub(s \o s2, b \o b2, W)
<1> DEFINE m == Len(s)
           n == Len(b)
           m2 == Len(s2)
           n2 == Len(b2)
           cs == s \o s2
           cb == b \o b2
<1>1. /\ m \in Nat /\ n \in Nat /\ m2 \in Nat /\ n2 \in Nat
      /\ Len(cs) = m + m2 /\ Len(cb) = n + n2
      /\ \A i \in 1 .. m + m2 : cs[i] = IF i <= m THEN s[i] ELSE s2[i - m]
      /\ \A i \in 1 .. n + n2 : cb[i] = IF i <= n THEN b[i] ELSE b2[i - n]
  BY ConcatProperties
<1>2. PICK f1 : Picks(f1, s, b, W)
  BY DEF Sub
<1>3. PICK f2 : Picks(f2, s2, b2, W)
  BY DEF Sub
<1>4. /\ f1 \in [1 .. m -> 1 .. n]
      /\ \A i, j \in 1 .. m : i < j => f1[i] < f1[j]
      /\ \A i \in 1 .. m : s[i] = b[f1[i]] /\ b[f1[i]] \in W
      /\ \A j \in 1 .. n : b[j] \in W => \E i \in 1 .. m : f1[i] = j
  BY <1>2 DEF Picks
<1>5. /\ f2 \in [1 .. m2 -> 1 .. n2]
      /\ \A i, j \in 1 .. m2 : i < j => f2[i] < f2[j]
      /\ \A i \in 1 .. m2 : s2[i] = b2[f2[i]] /\ b2[f2[i]] \in W
      /\ \A j \in 1 .. n2 : b2[j] \in W => \E i \in 1 .. m2 : f2[i] = j
  BY <1>3 DEF Picks
<1> DEFINE f == [i \in 1 .. m + m2 |-> IF i <= m THEN f1[i] ELSE n + f2[i - m]]
<1> HIDE DEF m, n, m2, n2, cs, cb
<1>6. ASSUME NEW i \in 1 .. m + m2
      PROVE  \/ i \in 1 .. m /\ f[i] = f1[i] /\ f1[i] \in 1 .. n
             \/ i > m /\ i - m \in 1 .. m2 /\ f[i] = n + f2[i - m] /\ f2[i - m] \in 1 .. n2
  <2>1. i \in 1 .. m \/ (i > m /\ ~ (i <= m) /\ i - m \in 1 .. m2)
    BY <1>1
  <2>2. CASE i \in 1 .. m
    <3>1. i <= m
      BY <1>1, <2>2
    <3>2. f[i] = f1[i] /\ f1[i] \in 1 .. n
      BY <1>4, <2>2, <3>1
    <3> QED  BY <2>2, <3>2
  <2>3. CASE i > m /\ ~ (i <= m) /\ i - m \in 1 .. m2
    <3>1. f[i] = n + f2[i - m] /\ f2[i - m] \in 1 .. n2
      BY <1>5, <2>3
    <3> QED  BY <2>3, <3>1
  <2> QED  BY <2>1, <2>2, <2>3
<1>7. f = [i \in 1 .. m + m2 |-> f[i]]
  OBVIOUS
<1> HIDE DEF f
<1>0. ASSUME NEW x \in 1 .. n2 PROVE n + x \in 1 .. n + n2 /\ n + x > n
  BY <1>1
<1>8. ASSUME NEW i \in 1 .. m + m2 PROVE f[i] \in 1 .. n + n2
  <2>1. \A x \in 1 .. n : x \in 1 .. n + n2
    BY <1>1
  <2> QED  BY <1>0, <1>6, <2>1
<1>9. f \in [1 .. m + m2 -> 1 .. n + n2]
  BY <1>7, <1>8
<1>10. ASSUME NEW i \in 1 .. m + m2, NEW j \in 1 .. m + m2, i < j PROVE f[i] < f[j]
  <2>1. CASE i \in 1 .. m /\ f[i] = f1[i] /\ f1[i] \in 1 .. n
    <3>1. CASE j \in 1 .. m /\ f[j] = f1[j] /\ f1[j] \in 1 .. n
      BY <1>4, <1>10, <2>1, <3>1
    <3>2. CASE j > m /\ j - m \in 1 .. m2 /\ f[j] = n + f2[j - m] /\ f2[j - m] \in 1 .. n2
      <4>1. f[j] > n /\ f[j] \in Int
        BY <1>0, <1>1, <3>2
      <4> QED  BY <1>1, <2>1, <4>1
    <3> QED  BY <1>6, <3>1, <3>2
  <2>2. CASE i > m /\ i - m \in 1 .. m2 /\ f[i] = n + f2[i - m] /\ f2[i - m] \in 1 .. n2
    <3>1. j > m /\ j - m \in 1 .. m2 /\ f[j] = n + f2[j - m] /\ f2[j - m] \in 1 .. n2
      <4>1. j \notin 1 .. m
        BY <1>1, <1>10, <2>2
      <4> QED  BY <1>6, <4>1
    <3>2. i - m < j - m
      BY <1>1, <1>10
    <3>3. f2[i - m] < f2[j - m]
      BY <1>5, <2>2, <3>1, <3>2
    <3> QED  BY <1>1, <2>2, <3>1, <3>3
  <2> QED  BY <1>6, <2>1, <2>2
<1>11. ASSUME NEW i \in 1 .. m + m2 PROVE cs[i] = cb[f[i]] /\ cb[f[i]] \in W
  <2>1. CASE i \in 1 .. m /\ f[i] = f1[i] /\ f1[i] \in 1 .. n
    <3>1. cs[i] = s[i]
      BY <1>1, <2>1
    <3>2. cb[f[i]] = b[f1[i]]
      BY <1>1, <2>1
    <3> QED  BY <1>4, <2>1, <3>1, <3>2
  <2>2. CASE i > m /\ i - m \in 1 .. m2 /\ f[i] = n + f2[i - m] /\ f2[i - m] \in 1 .. n2
    <3>1. cs[i] = s2[i - m]
      BY <1>1, <2>2
    <3>2. n + f2[i - m] \in 1 .. n + n2 /\ ~ (n + f2[i - m] <= n) /\ (n + f2[i - m]) - n = f2[i - m]
      BY <1>1, <2>2
    <3>3. cb[f[i]] = b2[f2[i - m]]
      BY <1>1, <2>2, <3>2
    <3> QED  BY <1>5, <2>2, <3>1, <3>3
  <2> QED  BY <1>6, <2>1, <2>2
<1>12. ASSUME NEW j \in 1 .. n + n2, cb[j] \in W PROVE \E i \in 1 .. m + m2 : f[i] = j
  <2>1. CASE j <= n
    <3>1. j \in 1 .. n /\ cb[j] = b[j]
      BY <1>1, <2>1
    <3>2. PICK i \in 1 .. m : f1[i] = j
      BY <1>4, <1>12, <3>1
    <3>3. i \in 1 .. m + m2 /\ ~ (i > m)
      BY <1>1
    <3> QED  BY <1>6, <3>2, <3>3
  <2>2. CASE ~ (j <= n)
    <3>1. j - n \in 1 .. n2 /\ cb[j] = b2[j - n]
      BY <1>1, <2>2
    <3>2. PICK i \in 1 .. m2 : f2[i] = j - n
      BY <1>5, <1>12, <3>1
    <3>3. m + i \in 1 .. m + m2 /\ m + i > m /\ (m + i) - m = i /\ m + i \notin 1 .. m
      BY <1>1
    <3>4. f[m + i] = n + f2[i]
      BY <1>6, <3>3
    <3>5. n + (j - n) = j
      BY <1>1
    <3> QED  BY <3>2, <3>3, <3>4, <3>5
  <2> QED  BY <2>1, <2>2
<1>13. Picks(f, cs, cb, W)
  BY <1>1, <1>9, <1>10, <1>11, <1>12 DEF Picks
<1> QED  BY <1>13 DEF Sub, cs, cb

LEMMA SubAppend ==
  ASSUME NEW T, NEW s \in Seq(T), NEW b \in Seq(T), NEW e \in T, NEW W, Sub(s, b, W)
  PROVE  /\ e \in W => Sub(Append(s, e), Append(b, e), W)
         /\ e \notin W => Sub(s, Append(b, e), W)
<1>1. Append(s, e) = s \o <<e>> /\ Append(b, e) = b \o <<e>> /\ s \o <<>> = s
  BY AppendIsConcat, ConcatEmptySeq
<1>2. <<e>> \in Seq(T) /\ <<>> \in Seq(T) /\ Len(<<e>>) = 1 /\ <<e>>[1] = e
  OBVIOUS
<1>3. ASSUME e \in W PROVE Sub(Append(s, e), Append(b, e), W)
  <2>1. Sub(<<e>>, <<e>>, W)
    <3>1. \A j \in 1 .. Len(<<e>>) : <<e>>[j] \in W
      BY <1>2, <1>3
    <3> QED  BY <1>2, <3>1, SubWhole
  <2>2. Sub(s \o <<e>>, b \o <<e>>, W)
    BY <1>2, <2>1, SubConcat
  <2> QED  BY <1>1, <2>2
<1>4. ASSUME e \notin W PROVE Sub(s, Append(b, e), W)
  <2>1. Sub(<<>>, <<e>>, W)
    <3>1. \A j \in 1 .. Len(<<e>>) : <<e>>[j] \notin W
      BY <1>2, <1>4
    <3> QED  BY <1>2, <3>1, SubNone
  <2>2. Sub(s \o <<>>, b \o <<e>>, W)
    BY <1>2, <2>1, SubConcat
  <2> QED  BY <1>1, <2>2
<1> QED  BY <1>3, <1>4

\* The members may change where they stand, in both lists alike.
LEMMA SubMap ==
  ASSUME NEW s, NEW b, NEW t, NEW c, NEW W, NEW V,
         Sub(s, b, W), Len(t) = Len(s), Len(c) = Len(b),
         \A i \in 1 .. Len(s) : \A j \in 1 .. Len(b) : s[i] = b[j] /\ b[j] \in W => t[i] = c[j],
         \A j \in 1 .. Len(b) : c[j] \in V <=> b[j] \in W
  PROVE  Sub(t, c, V)
<1>1. PICK f : Picks(f, s, b, W)
  BY DEF Sub
<1>2. ASSUME NEW i \in 1 .. Len(s) PROVE t[i] = c[f[i]] /\ c[f[i]] \in V
  BY <1>1 DEF Picks
<1>3. Picks(f, t, c, V)
  BY <1>1, <1>2 DEF Picks
<1> QED  BY <1>3 DEF Sub

\* What of a dictionary is about some signals.
Of(sids) == {e \in Item : e.sid \in sids}

LEMMA SubPut ==
  ASSUME NEW s \in Dict, NEW b \in Dict, NEW sids, Sub(s, b, Of(sids)),
         NEW sid \in STRING, NEW value \in Value
  PROVE  /\ sid \in sids => Sub(Put(s, sid, value), Put(b, sid, value), Of(sids))
         /\ sid \notin sids => Sub(s, Put(b, sid, value), Of(sids))
<1> DEFINE item == [sid |-> sid, value |-> value]
           W == Of(sids)
           m == Len(s)
           n == Len(b)
<1>1. /\ s \in Seq(Item) /\ b \in Seq(Item) /\ m \in Nat /\ n \in Nat
      /\ DOMAIN s = 1 .. m /\ DOMAIN b = 1 .. n
      /\ \A i \in 1 .. m : s[i] \in Item
      /\ \A j \in 1 .. n : b[j] \in Item
      /\ item \in Item /\ item.sid = sid
  <2>1. s \in Seq(Item) /\ b \in Seq(Item)
    BY DEF Dict
  <2>2. item \in Item /\ item.sid = sid
    BY DEF Item
  <2> QED  BY <2>1, <2>2, ElementOfSeq, LenProperties
<1>2. /\ \A j \in 1 .. n : b[j] \in W <=> b[j].sid \in sids
      /\ item \in W <=> sid \in sids
  BY <1>1 DEF Of
<1>3. PICK f : Picks(f, s, b, W)
  BY DEF Sub
<1> HIDE DEF item, W
<1>4. CASE \E j \in 1 .. n : b[j].sid = sid
  <2> DEFINE c == [j \in 1 .. n |-> IF b[j].sid = sid THEN item ELSE b[j]]
             t == [i \in 1 .. m |-> IF s[i].sid = sid THEN item ELSE s[i]]
  <2>1. Put(b, sid, value) = c
    BY <1>1, <1>4 DEF Put, item
  <2>2. /\ c \in Seq(Item) /\ Len(c) = n /\ t \in Seq(Item) /\ Len(t) = m
    BY <1>1
  <2>3. \A j \in 1 .. n : c[j] \in W <=> b[j] \in W
    <3> SUFFICES ASSUME NEW j \in 1 .. n PROVE c[j] \in W <=> b[j] \in W
      OBVIOUS
    <3>1. CASE b[j].sid = sid
      BY <1>2, <3>1
    <3>2. CASE b[j].sid # sid
      BY <3>2
    <3> QED  BY <3>1, <3>2
  <2>4. ASSUME sid \in sids PROVE Sub(Put(s, sid, value), Put(b, sid, value), W)
    <3>1. PICK j \in 1 .. n : b[j].sid = sid
      BY <1>4
    <3>2. b[j] \in W
      BY <1>2, <2>4, <3>1
    <3>3. PICK i \in 1 .. m : f[i] = j
      BY <1>3, <3>2 DEF Picks
    <3>4. s[i].sid = sid
      BY <1>3, <3>1, <3>3 DEF Picks
    <3>5. Put(s, sid, value) = t
      BY <1>1, <3>4 DEF Put, item
    <3>6. ASSUME NEW k \in 1 .. m, NEW l \in 1 .. n, s[k] = b[l] PROVE t[k] = c[l]
      BY <3>6
    <3> HIDE DEF c, t
    <3>7. Sub(t, c, W)
      BY <2>2, <2>3, <3>6, SubMap DEF W
    <3> QED  BY <2>1, <3>5, <3>7
  <2>5. ASSUME sid \notin sids PROVE Sub(s, Put(b, sid, value), W)
    <3>1. ASSUME NEW k \in 1 .. m, NEW l \in 1 .. n, s[k] = b[l], b[l] \in W PROVE s[k] = c[l]
      <4>1. b[l].sid # sid
        BY <1>2, <2>5, <3>1
      <4> QED  BY <3>1, <4>1
    <3> HIDE DEF c
    <3>2. Sub(s, c, W)
      BY <2>2, <2>3, <3>1, SubMap DEF W
    <3> QED  BY <2>1, <3>2
  <2> QED  BY <2>4, <2>5 DEF W
<1>5. CASE ~ \E j \in 1 .. n : b[j].sid = sid
  <2>1. ~ \E i \in 1 .. m : s[i].sid = sid
    <3> SUFFICES ASSUME NEW i \in 1 .. m, s[i].sid = sid PROVE FALSE
      OBVIOUS
    <3>1. f[i] \in 1 .. n /\ s[i] = b[f[i]]
      BY <1>3 DEF Picks
    <3> QED  BY <1>5, <3>1
  <2>2. Put(b, sid, value) = Append(b, item) /\ Put(s, sid, value) = Append(s, item)
    BY <1>1, <1>5, <2>1 DEF Put, item
  <2>3. /\ item \in W => Sub(Append(s, item), Append(b, item), W)
        /\ item \notin W => Sub(s, Append(b, item), W)
    BY <1>1, SubAppend DEF W
  <2> QED  BY <1>2, <2>2, <2>3 DEF W
<1> QED  BY <1>4, <1>5

\* The dictionaries that setting several keys goes through.
Puts(put, dict, refs, values) ==
  /\ PutAll(dict, refs, values) = put[Len(refs)]
  /\ put[0] = dict /\ \A n \in 0 .. Len(refs) : put[n] \in Dict
  /\ \A n \in 1 .. Len(refs) :
       put[n] = IF refs[n][1] \in DOMAIN values
                THEN Put(put[n - 1], refs[n][1], values[refs[n][1]]) ELSE put[n - 1]

LEMMA PutsExist ==
  ASSUME NEW dict \in Dict, NEW refs, Len(refs) \in Nat, NEW values,
         \A n \in 1 .. Len(refs) : refs[n][1] \in STRING,
         \A g \in DOMAIN values : values[g] \in Value
  PROVE  \E put : Puts(put, dict, refs, values)
  BY PutAllRuns DEF Puts

\* Buses that are asked for are set in both, the others in the whole only.
LEMMA SubPutAll ==
  ASSUME NEW s \in Dict, NEW b \in Dict, NEW sids, Sub(s, b, Of(sids)),
         NEW refs, Len(refs) \in Nat, \A n \in 1 .. Len(refs) : refs[n][1] \in STRING,
         NEW few, NEW all, DOMAIN few = DOMAIN all \intersect sids,
         \A g \in DOMAIN few : few[g] = all[g],
         \A g \in DOMAIN all : all[g] \in Value
  PROVE  Sub(PutAll(s, refs, few), PutAll(b, refs, all), Of(sids))
<1> DEFINE N == Len(refs)
<1>1. PICK p : Puts(p, s, refs, few)
  <2>1. \A g \in DOMAIN few : few[g] \in Value
    OBVIOUS
  <2> QED  BY <2>1, PutsExist
<1>2. PICK q : Puts(q, b, refs, all)
  BY PutsExist
<1> DEFINE In == {n \in Nat : n <= N => Sub(p[n], q[n], Of(sids))}
<1>3. 0 \in In
  BY <1>1, <1>2 DEF Puts
<1>4. ASSUME NEW n \in Nat, n \in In PROVE n + 1 \in In
  <2>1. SUFFICES ASSUME n + 1 <= N PROVE Sub(p[n + 1], q[n + 1], Of(sids))
    OBVIOUS
  <2>2. /\ n + 1 \in 1 .. N /\ (n + 1) - 1 = n /\ n \in 0 .. N /\ Sub(p[n], q[n], Of(sids))
    BY <1>4, <2>1
  <2> DEFINE g == refs[n + 1][1]
  <2>3. /\ g \in STRING /\ p[n] \in Dict /\ q[n] \in Dict
        /\ p[n + 1] = IF g \in DOMAIN few THEN Put(p[n], g, few[g]) ELSE p[n]
        /\ q[n + 1] = IF g \in DOMAIN all THEN Put(q[n], g, all[g]) ELSE q[n]
    BY <1>1, <1>2, <2>2 DEF Puts
  <2> HIDE DEF g, In, N
  <2>4. CASE g \in DOMAIN all /\ g \in sids
    <3>1. g \in DOMAIN few /\ few[g] = all[g] /\ all[g] \in Value
      BY <2>4
    <3>2. Sub(Put(p[n], g, all[g]), Put(q[n], g, all[g]), Of(sids))
      BY <2>2, <2>3, <2>4, <3>1, SubPut
    <3> QED  BY <2>3, <2>4, <3>1, <3>2
  <2>5. CASE g \in DOMAIN all /\ g \notin sids
    <3>1. g \notin DOMAIN few /\ all[g] \in Value
      BY <2>5
    <3>2. Sub(p[n], Put(q[n], g, all[g]), Of(sids))
      BY <2>2, <2>3, <2>5, <3>1, SubPut
    <3> QED  BY <2>3, <2>5, <3>1, <3>2
  <2>6. CASE g \notin DOMAIN all
    BY <2>2, <2>3, <2>6
  <2> QED  BY <2>4, <2>5, <2>6
<1> HIDE DEF In
<1>5. \A n \in Nat : n \in In
  BY <1>3, <1>4, NatSetInduction
<1>6. Sub(p[N], q[N], Of(sids))
  BY <1>5 DEF In
<1> QED  BY <1>1, <1>2, <1>6 DEF Puts

-----------------------------------------------------------------------------
(* The whole replay and the scan of a file, between two value changes.      *)

Due(tok) == IF tok \in DOMAIN Port THEN 2 ELSE 0
ValueOf(tok) == IF tok \in DOMAIN Vector THEN Vector[tok] ELSE Port[tok]

\* The strengths and the identifier follow, as they should.
Complete(f, a) ==
  /\ a + Due(f[a]) + 1 <= Len(f)
  /\ \A j \in a + 1 .. a + Due(f[a]) : f[j] \in Strengths
  /\ ~ Structural(f[a + Due(f[a]) + 1])

\* The section that begins at a ends at q.
Closes(f, a, q) ==
  /\ q = Len(f) \/ (q > a /\ f[q] = End)
  /\ \A j \in a + 1 .. q - 1 : f[j] # End

\* With p tokens left behind the next change leaves q of them behind.
Goes(f, p, q) ==
  /\ p < Len(f) /\ q \in p + 1 .. Len(f)
  /\ IF f[p + 1] \in Sections THEN Closes(f, p + 1, q)
     ELSE IF f[p + 1] \in DOMAIN Vector \union DOMAIN Port /\ Complete(f, p + 1)
          THEN q = p + 1 + Due(f[p + 1]) + 1 ELSE q = p + 1

TimeRange == [min : Nat \union {NoTime}, max : Nat \union {NoTime}, initial : BOOLEAN]

Spot == [pos : Nat, now : Nat, bits : [Buses -> Value], pending : Dict, out : Seq(Event),
         range : TimeRange]

Start == [pos |-> 0, now |-> 0, bits |-> [g \in Buses |-> [i \in 1 .. Width[g] |-> "x"]],
          pending |-> <<>>, out |-> <<>>, range |-> NoRange]

Driven(bs, sym, value) ==
  [g \in Buses |-> [i \in DOMAIN bs[g] |->
     IF <<g, i - 1>> \in ToSet(Refs(sym)) THEN BitOf(value) ELSE bs[g][i]]]

PutOf(dict, bs, sym, value) ==
  LET buses == PutAll(dict, Refs(sym), [g \in Buses |-> Reverse(bs[g])])
  IN  IF sym \in DOMAIN Width THEN Put(buses, sym, Clamp(sym, value)) ELSE buses

Changed(s, q, sym, value) ==
  [pos |-> q, now |-> s.now, bits |-> Driven(s.bits, sym, value),
   pending |-> PutOf(s.pending, Driven(s.bits, sym, value), sym, value), out |-> s.out,
   range |-> [min |-> s.range.min, max |-> s.range.max,
              initial |-> s.range.initial \/ s.range.min = NoTime]]

Stamped(dict, t) ==
  [i \in DOMAIN dict |-> [at |-> t, sid |-> dict[i].sid, value |-> dict[i].value]]

FlushOf(s) == s.out \o Stamped(s.pending, s.now)

Timed(s, q, t) ==
  [pos |-> q, now |-> t, bits |-> s.bits, pending |-> <<>>, out |-> FlushOf(s),
   range |-> [min |-> IF s.range.min # NoTime THEN s.range.min
                      ELSE IF s.range.initial THEN 0 ELSE t,
              max |-> IF s.range.max = NoTime \/ t > s.range.max THEN t ELSE s.range.max,
              initial |-> s.range.initial]]

Moved(s, q) ==
  [pos |-> q, now |-> s.now, bits |-> s.bits, pending |-> s.pending, out |-> s.out,
   range |-> s.range]

Timely(tok) == tok \in DOMAIN Stamp /\ Stamp[tok] \notin {Malformed, TooLarge}

Does(f, s, q) ==
  LET tok == f[s.pos + 1]
  IN  IF Timely(tok) THEN Timed(s, q, Stamp[tok])
      ELSE IF tok \in DOMAIN Scalar THEN Changed(s, q, Scalar[tok].sym, Scalar[tok].value)
      ELSE IF tok \in DOMAIN Vector \union DOMAIN Port /\ q # s.pos + 1
           THEN Changed(s, q, f[q], ValueOf(tok)) ELSE Moved(s, q)

\* What comes up between two value changes, and nothing else.
Reached(f, s) ==
  \A R : /\ Start \in R
         /\ \A x \in R : \A q : Goes(f, x.pos, q) => Does(f, x, q) \in R
         => s \in R

-----------------------------------------------------------------------------
\* A token is of one kind.
LEMMA Kinds ==
  ASSUME NEW tok
  PROVE  /\ tok \in Wrappers \union {End} =>
              tok \notin Sections \union DOMAIN Stamp \union DOMAIN Scalar \union DOMAIN Vector
                             \union DOMAIN Port
         /\ tok \in Sections =>
              tok \notin DOMAIN Stamp \union DOMAIN Scalar \union DOMAIN Vector \union DOMAIN Port
         /\ tok \in DOMAIN Stamp => tok \notin DOMAIN Scalar \union DOMAIN Vector \union DOMAIN Port
         /\ tok \in DOMAIN Scalar => tok \notin DOMAIN Vector \union DOMAIN Port
         /\ tok \in DOMAIN Vector => tok \notin DOMAIN Port
<1> DEFINE A == Wrappers \union {End}
           B == Sections
           C == DOMAIN Stamp
           D == DOMAIN Scalar
           E == DOMAIN Vector
           F == DOMAIN Port
           kinds == <<A, B, C, D, E, F>>
<1>1. \A i, j \in 1 .. 6 : i # j => kinds[i] \intersect kinds[j] = {}
  BY KindAssumption
<1> HIDE DEF A, B, C, D, E, F
<1>2. /\ kinds[1] = A /\ kinds[2] = B /\ kinds[3] = C /\ kinds[4] = D /\ kinds[5] = E /\ kinds[6] = F
  OBVIOUS
<1> HIDE DEF kinds
<1>3. /\ A \intersect B = {} /\ A \intersect C = {} /\ A \intersect D = {} /\ A \intersect E = {}
      /\ A \intersect F = {}
  BY <1>1, <1>2
<1>4. /\ B \intersect C = {} /\ B \intersect D = {} /\ B \intersect E = {} /\ B \intersect F = {}
  BY <1>1, <1>2
<1>5. /\ C \intersect D = {} /\ C \intersect E = {} /\ C \intersect F = {}
  BY <1>1, <1>2
<1>6. D \intersect E = {} /\ D \intersect F = {} /\ E \intersect F = {}
  BY <1>1, <1>2
<1> QED  BY <1>3, <1>4, <1>5, <1>6 DEF A, B, C, D, E, F

LEMMA DueTyped ==
  ASSUME NEW tok
  PROVE  Due(tok) \in Nat
  BY DEF Due

\* The walk goes on, to one place only.
LEMMA GoesOnce ==
  ASSUME NEW f \in Files, NEW p \in Nat, NEW q, Goes(f, p, q)
  PROVE  /\ q \in Nat /\ q > p /\ q <= Len(f) /\ Len(f) \in Nat
         /\ \A r : Goes(f, p, r) => r = q
<1>1. Len(f) \in Nat
  BY TokenAssumption, LenProperties
<1>2. q \in p + 1 .. Len(f)
  BY DEF Goes
<1>3. ASSUME NEW r, Goes(f, p, r) PROVE r = q
  <2>1. r \in p + 1 .. Len(f)
    BY <1>3 DEF Goes
  <2>2. CASE f[p + 1] \in Sections
    <3>1. Closes(f, p + 1, q) /\ Closes(f, p + 1, r)
      BY <1>3, <2>2 DEF Goes
    <3>2. ASSUME NEW x \in p + 1 .. Len(f), NEW y \in p + 1 .. Len(f),
                 Closes(f, p + 1, x), Closes(f, p + 1, y), x < y
          PROVE  FALSE
      <4>1. x # Len(f)
        BY <1>1, <3>2
      <4>2. x > p + 1 /\ f[x] = End
        BY <3>2, <4>1 DEF Closes
      <4>3. x \in p + 1 + 1 .. y - 1
        BY <1>1, <3>2, <4>2
      <4> QED  BY <3>2, <4>2, <4>3 DEF Closes
    <3>3. ~ (q < r) /\ ~ (r < q)
      BY <1>2, <2>1, <3>1, <3>2
    <3> QED  BY <1>2, <2>1, <3>3
  <2>3. CASE f[p + 1] \notin Sections
    BY <1>3, <2>3 DEF Goes
  <2> QED  BY <2>2, <2>3
<1> QED  BY <1>1, <1>2, <1>3

-----------------------------------------------------------------------------
\* Whose keys or signals are signals of the header.
Known(list) == \A i \in 1 .. Len(list) : list[i].sid \in DOMAIN Width

LEMMA StampedTyped ==
  ASSUME NEW dict \in Dict, NEW t \in Nat
  PROVE  /\ Stamped(dict, t) \in Seq(Event) /\ Len(Stamped(dict, t)) = Len(dict) /\ Len(dict) \in Nat
         /\ \A i \in 1 .. Len(dict) : /\ Stamped(dict, t)[i].at = t
                                      /\ Stamped(dict, t)[i].sid = dict[i].sid
                                      /\ Stamped(dict, t)[i].value = dict[i].value
<1> DEFINE new == Stamped(dict, t)
           n == Len(dict)
<1>1. dict \in Seq(Item) /\ n \in Nat /\ DOMAIN dict = 1 .. n /\ \A i \in 1 .. n : dict[i] \in Item
  BY DEF Dict
<1>2. new = [i \in 1 .. n |-> [at |-> t, sid |-> dict[i].sid, value |-> dict[i].value]]
  BY <1>1 DEF Stamped
<1>3. ASSUME NEW i \in 1 .. n
      PROVE  /\ new[i].at = t /\ new[i].sid = dict[i].sid /\ new[i].value = dict[i].value
             /\ new[i] \in Event
  <2>1. new[i] = [at |-> t, sid |-> dict[i].sid, value |-> dict[i].value]
    BY <1>2
  <2>2. dict[i].sid \in STRING /\ dict[i].value \in Value
    BY <1>1 DEF Item
  <2> QED  BY <2>1, <2>2 DEF Event
<1>4. new = [i \in 1 .. n |-> new[i]]
  BY <1>2
<1> HIDE DEF new, n
<1>5. new \in Seq(Event) /\ Len(new) = n
  BY <1>1, <1>3, <1>4
<1> QED  BY <1>1, <1>3, <1>5 DEF new, n

LEMMA DrivenTyped ==
  ASSUME NEW bs \in [Buses -> Value], NEW sym, NEW value \in Value
  PROVE  Driven(bs, sym, value) \in [Buses -> Value]
<1>1. BitOf(value) \in Letter
  <2>1. CASE IsBits(value) /\ Len(value) = 1
    <3>1. value \in Seq(Letter) /\ 1 \in 1 .. Len(value)
      BY <2>1 DEF Value
    <3>2. value[1] \in Letter
      BY <3>1, ElementOfSeq
    <3> QED  BY <2>1, <3>2 DEF BitOf
  <2>2. CASE ~ (IsBits(value) /\ Len(value) = 1)
    BY <2>2 DEF BitOf, Letter
  <2> QED  BY <2>1, <2>2
<1>2. ASSUME NEW g \in Buses PROVE Driven(bs, sym, value)[g] \in Value
  <2> DEFINE n == Len(bs[g])
             b == Driven(bs, sym, value)[g]
             Set(i) == IF <<g, i - 1>> \in ToSet(Refs(sym)) THEN BitOf(value) ELSE bs[g][i]
  <2>1. bs[g] \in Seq(Letter) /\ n \in Nat /\ DOMAIN bs[g] = 1 .. n
    BY DEF Value
  <2>2. b = [i \in 1 .. n |-> Set(i)]
    BY <2>1 DEF Driven
  <2>3. ASSUME NEW i \in 1 .. n PROVE Set(i) \in Letter
    <3>1. bs[g][i] \in Letter
      BY <2>1, ElementOfSeq
    <3> QED  BY <1>1, <3>1
  <2> HIDE DEF Set, n, b
  <2>4. b \in Seq(Letter)
    BY <2>1, <2>2, <2>3
  <2> QED  BY <2>4 DEF b, Value
<1> QED  BY <1>2 DEF Driven

LEMMA PutOfTyped ==
  ASSUME NEW dict \in Dict, NEW bs \in [Buses -> Value], NEW sym \in STRING, NEW value \in Value
  PROVE  /\ PutOf(dict, bs, sym, value) \in Dict
         /\ Known(dict) => Known(PutOf(dict, bs, sym, value))
<1> DEFINE values == [g \in Buses |-> Reverse(bs[g])]
           mid == PutAll(dict, Refs(sym), values)
<1>1. \A g \in DOMAIN values : values[g] \in Value
  BY ReverseText
<1>2. PutOf(dict, bs, sym, value) =
        IF sym \in DOMAIN Width THEN Put(mid, sym, Clamp(sym, value)) ELSE mid
  BY DEF PutOf
<1>3. DOMAIN values = Buses
  OBVIOUS
<1> HIDE DEF values
<1>4. mid \in Dict
  BY <1>1, RefsTyped, PutAllDict
<1>5. ASSUME sym \in DOMAIN Width PROVE Clamp(sym, value) \in Value
  <2>1. Width[sym] \in Nat
    BY <1>5, SignalAssumption
  <2> QED  BY <2>1, ManyX DEF Clamp
<1>6. ASSUME NEW d \in Dict PROVE Known(d) <=> \A s, v : Has(d, s, v) => s \in DOMAIN Width
  BY DEF Known, Has
<1>7. ASSUME Known(dict) PROVE Known(mid)
  <2>1. ASSUME NEW s, NEW v, Has(mid, s, v) PROVE s \in DOMAIN Width
    <3>1. s \in DOMAIN values \/ Has(dict, s, v)
      BY <1>1, <2>1, RefsTyped, PutAllHas
    <3> QED  BY <1>3, <1>6, <1>7, <3>1, BusesAreSignals
  <2> QED  BY <1>4, <1>6, <2>1
<1> HIDE DEF mid
<1>8. CASE sym \in DOMAIN Width
  <2> DEFINE new == Put(mid, sym, Clamp(sym, value))
  <2>1. new \in Dict
    BY <1>4, <1>5, <1>8, PutDict
  <2>2. ASSUME NEW s, NEW v, Known(mid), Has(new, s, v) PROVE s \in DOMAIN Width
    <3>1. s = sym \/ Has(mid, s, v)
      BY <1>4, <2>2, PutHas
    <3> QED  BY <1>4, <1>6, <1>8, <2>2, <3>1
  <2>3. Known(mid) => Known(new)
    BY <1>6, <2>1, <2>2
  <2> QED  BY <1>2, <1>7, <1>8, <2>1, <2>3
<1>9. CASE sym \notin DOMAIN Width
  BY <1>2, <1>4, <1>7, <1>9
<1> QED  BY <1>8, <1>9

LEMMA FlushOfTyped ==
  ASSUME NEW s \in Spot
  PROVE  /\ FlushOf(s) \in Seq(Event) /\ Len(s.out) \in Nat
         /\ Len(FlushOf(s)) = Len(s.out) + Len(s.pending)
         /\ \A i \in 1 .. Len(s.out) : FlushOf(s)[i] = s.out[i]
         /\ \A i \in Len(s.out) + 1 .. Len(FlushOf(s)) :
              FlushOf(s)[i] = Stamped(s.pending, s.now)[i - Len(s.out)]
<1> DEFINE a == s.out
           new == Stamped(s.pending, s.now)
           both == a \o new
<1>1. /\ a \in Seq(Event) /\ new \in Seq(Event) /\ Len(new) = Len(s.pending)
      /\ Len(a) \in Nat /\ Len(new) \in Nat
  BY StampedTyped DEF Spot
<1> HIDE DEF a, new
<1>2. /\ both \in Seq(Event) /\ Len(both) = Len(a) + Len(new)
      /\ \A i \in 1 .. Len(a) + Len(new) : both[i] = IF i <= Len(a) THEN a[i] ELSE new[i - Len(a)]
  BY <1>1, ConcatProperties
<1> DEFINE m == Len(a)
           n == Len(new)
<1> HIDE DEF both, m, n
<1>3. m \in Nat /\ n \in Nat /\ \A i \in 1 .. m + n : both[i] = IF i <= m THEN a[i] ELSE new[i - m]
  BY <1>1, <1>2 DEF m, n
<1>4. \A i \in 1 .. m : both[i] = a[i]
  BY <1>3
<1>5. \A i \in m + 1 .. m + n : both[i] = new[i - m]
  BY <1>3
<1>6. FlushOf(s) = both
  BY DEF FlushOf, both, a, new
<1> QED  BY <1>1, <1>2, <1>4, <1>5, <1>6 DEF a, new, m, n

\* The signals of a flush are known where they were before.
LEMMA FlushKnown ==
  ASSUME NEW s \in Spot, Known(s.pending), Known(s.out)
  PROVE  Known(FlushOf(s))
<1>1. s.pending \in Dict /\ s.now \in Nat
  BY DEF Spot
<1> DEFINE new == Stamped(s.pending, s.now)
           m == Len(s.out)
           n == Len(s.pending)
<1>2. n \in Nat /\ \A i \in 1 .. n : new[i].sid = s.pending[i].sid
  BY <1>1, StampedTyped
<1>3. /\ m \in Nat /\ Len(FlushOf(s)) = m + n
      /\ \A i \in 1 .. m : FlushOf(s)[i] = s.out[i]
      /\ \A i \in m + 1 .. m + n : FlushOf(s)[i] = new[i - m]
  BY FlushOfTyped
<1>4. /\ \A i \in 1 .. m : s.out[i].sid \in DOMAIN Width
      /\ \A i \in 1 .. n : s.pending[i].sid \in DOMAIN Width
  BY DEF Known
<1> HIDE DEF new, m, n
<1>5. ASSUME NEW i \in 1 .. m + n PROVE FlushOf(s)[i].sid \in DOMAIN Width
  <2>1. i \in 1 .. m \/ (i \in m + 1 .. m + n /\ i - m \in 1 .. n)
    BY <1>2, <1>3
  <2> QED  BY <1>2, <1>3, <1>4, <2>1
<1> QED  BY <1>3, <1>5 DEF Known

-----------------------------------------------------------------------------
LEMMA StartTyped == Start \in Spot /\ Known(Start.pending) /\ Known(Start.out)
<1>1. [g \in Buses |-> [i \in 1 .. Width[g] |-> "x"]] \in [Buses -> Value]
  <2>1. \A g \in Buses : Width[g] \in Nat
    BY BusesAreSignals, SignalAssumption
  <2> QED  BY <2>1, ManyX
<1>2. NoRange \in TimeRange
  BY DEF NoRange, TimeRange
<1>3. <<>> \in Dict /\ <<>> \in Seq(Event)
  BY DEF Dict, KeysOnce
<1> QED  BY <1>1, <1>2, <1>3 DEF Start, Spot, Known

LEMMA ChangedTyped ==
  ASSUME NEW s \in Spot, NEW q \in Nat, NEW sym \in STRING, NEW value \in Value
  PROVE  /\ Changed(s, q, sym, value) \in Spot
         /\ Known(s.pending) => Known(Changed(s, q, sym, value).pending)
<1>1. /\ s.bits \in [Buses -> Value] /\ s.pending \in Dict /\ s.now \in Nat /\ s.out \in Seq(Event)
      /\ s.range \in TimeRange
  BY DEF Spot
<1> DEFINE bs == Driven(s.bits, sym, value)
           p == PutOf(s.pending, bs, sym, value)
           r == [min |-> s.range.min, max |-> s.range.max,
                 initial |-> s.range.initial \/ s.range.min = NoTime]
<1>2. bs \in [Buses -> Value]
  BY <1>1, DrivenTyped
<1>3. p \in Dict /\ (Known(s.pending) => Known(p))
  <2> HIDE DEF bs
  <2> QED  BY <1>1, <1>2, PutOfTyped
<1>4. r \in TimeRange
  BY <1>1 DEF TimeRange
<1>5. Changed(s, q, sym, value) =
        [pos |-> q, now |-> s.now, bits |-> bs, pending |-> p, out |-> s.out, range |-> r]
  BY DEF Changed
<1> HIDE DEF bs, p, r
<1> QED  BY <1>1, <1>2, <1>3, <1>4, <1>5 DEF Spot

LEMMA TimedTyped ==
  ASSUME NEW s \in Spot, NEW q \in Nat, NEW t \in Nat
  PROVE  Timed(s, q, t) \in Spot
<1>1. s.bits \in [Buses -> Value] /\ s.range \in TimeRange /\ FlushOf(s) \in Seq(Event) /\ <<>> \in Dict
  <2>1. <<>> \in Dict
    BY DEF Dict, KeysOnce
  <2> QED  BY <2>1, FlushOfTyped DEF Spot
<1> DEFINE r == [min |-> IF s.range.min # NoTime THEN s.range.min
                         ELSE IF s.range.initial THEN 0 ELSE t,
                 max |-> IF s.range.max = NoTime \/ t > s.range.max THEN t ELSE s.range.max,
                 initial |-> s.range.initial]
<1>2. r \in TimeRange
  BY <1>1 DEF TimeRange
<1>3. Timed(s, q, t) =
        [pos |-> q, now |-> t, bits |-> s.bits, pending |-> <<>>, out |-> FlushOf(s), range |-> r]
  BY DEF Timed
<1> HIDE DEF r
<1> QED  BY <1>1, <1>2, <1>3 DEF Spot

\* The four things a step can do, and the values it does them with.
LEMMA DoesWhat ==
  ASSUME NEW f \in Files, NEW s \in Spot, NEW q, Goes(f, s.pos, q)
  PROVE  /\ s.pos \in Nat /\ s.pos + 1 \in 1 .. Len(f) /\ q \in Nat /\ q > s.pos /\ q <= Len(f)
         /\ Len(f) \in Nat
         /\ \/ /\ Timely(f[s.pos + 1]) /\ Stamp[f[s.pos + 1]] \in Nat /\ q = s.pos + 1
               /\ Does(f, s, q) = Timed(s, q, Stamp[f[s.pos + 1]])
            \/ \E sym \in STRING, value \in Value :
                 ~ Timely(f[s.pos + 1]) /\ Does(f, s, q) = Changed(s, q, sym, value)
            \/ ~ Timely(f[s.pos + 1]) /\ Does(f, s, q) = Moved(s, q)
<1> DEFINE p == s.pos
           tok == f[p + 1]
<1>1. p \in Nat /\ f \in Seq(STRING)
  BY TokenAssumption DEF Spot
<1>2. q \in Nat /\ q > p /\ q <= Len(f) /\ Len(f) \in Nat
  BY <1>1, GoesOnce
<1>3. p + 1 \in 1 .. Len(f) /\ q \in 1 .. Len(f)
  BY <1>1, <1>2
<1>4. tok \in STRING /\ f[q] \in STRING
  BY <1>1, <1>3, ElementOfSeq
<1>5. ASSUME Timely(tok) PROVE Stamp[tok] \in Nat /\ q = p + 1
  <2>1. tok \in DOMAIN Stamp
    BY <1>5 DEF Timely
  <2>2. tok \notin Sections \union DOMAIN Vector \union DOMAIN Port
    BY <2>1, Kinds
  <2>3. q = p + 1
    BY <2>2 DEF Goes
  <2> QED  BY <1>5, <2>1, <2>3, StampAssumption DEF Timely
<1>6. CASE Timely(tok)
  BY <1>1, <1>2, <1>3, <1>5, <1>6 DEF Does
<1>7. CASE ~ Timely(tok) /\ tok \in DOMAIN Scalar
  <2>1. Scalar[tok].sym \in STRING /\ Scalar[tok].value \in Value
    BY <1>7, ValueAssumption, TextIsValue
  <2>2. Does(f, s, q) = Changed(s, q, Scalar[tok].sym, Scalar[tok].value)
    BY <1>7 DEF Does
  <2> QED  BY <1>1, <1>2, <1>3, <1>7, <2>1, <2>2
<1>8. CASE /\ ~ Timely(tok) /\ tok \notin DOMAIN Scalar
           /\ tok \in DOMAIN Vector \union DOMAIN Port /\ q # p + 1
  <2>1. ValueOf(tok) \in Value
    BY <1>8, ValueAssumption, TextIsValue DEF ValueOf
  <2>2. Does(f, s, q) = Changed(s, q, f[q], ValueOf(tok))
    BY <1>8 DEF Does
  <2> QED  BY <1>1, <1>2, <1>3, <1>4, <1>8, <2>1, <2>2
<1>9. CASE /\ ~ Timely(tok) /\ tok \notin DOMAIN Scalar
           /\ ~ (tok \in DOMAIN Vector \union DOMAIN Port /\ q # p + 1)
  <2>1. Does(f, s, q) = Moved(s, q)
    BY <1>9 DEF Does
  <2> QED  BY <1>1, <1>2, <1>3, <1>9, <2>1
<1> QED  BY <1>6, <1>7, <1>8, <1>9

LEMMA DoesTyped ==
  ASSUME NEW f \in Files, NEW s \in Spot, NEW q, Goes(f, s.pos, q)
  PROVE  /\ Does(f, s, q) \in Spot /\ Does(f, s, q).pos = q
         /\ Known(s.pending) /\ Known(s.out) =>
              Known(Does(f, s, q).pending) /\ Known(Does(f, s, q).out)
<1>1. q \in Nat
  BY DoesWhat
<1>2. ASSUME NEW t \in Nat, Does(f, s, q) = Timed(s, q, t)
      PROVE  /\ Does(f, s, q) \in Spot /\ Does(f, s, q).pos = q
             /\ Known(s.pending) /\ Known(s.out) =>
                  Known(Does(f, s, q).pending) /\ Known(Does(f, s, q).out)
  <2>1. Does(f, s, q) \in Spot
    BY <1>1, <1>2, TimedTyped
  <2>2. /\ Does(f, s, q).pos = q /\ Does(f, s, q).pending = <<>> /\ Does(f, s, q).out = FlushOf(s)
    BY <1>2 DEF Timed
  <2>3. Known(<<>>)
    BY DEF Known
  <2> QED  BY <2>1, <2>2, <2>3, FlushKnown
<1>3. ASSUME NEW sym \in STRING, NEW value \in Value, Does(f, s, q) = Changed(s, q, sym, value)
      PROVE  /\ Does(f, s, q) \in Spot /\ Does(f, s, q).pos = q
             /\ Known(s.pending) /\ Known(s.out) =>
                  Known(Does(f, s, q).pending) /\ Known(Does(f, s, q).out)
  <2>1. Does(f, s, q) \in Spot /\ (Known(s.pending) => Known(Does(f, s, q).pending))
    BY <1>1, <1>3, ChangedTyped
  <2>2. Does(f, s, q).pos = q /\ Does(f, s, q).out = s.out
    BY <1>3 DEF Changed
  <2> QED  BY <2>1, <2>2
<1>4. ASSUME Does(f, s, q) = Moved(s, q)
      PROVE  /\ Does(f, s, q) \in Spot /\ Does(f, s, q).pos = q
             /\ Known(s.pending) /\ Known(s.out) =>
                  Known(Does(f, s, q).pending) /\ Known(Does(f, s, q).out)
  BY <1>1, <1>4 DEF Moved, Spot
<1> QED  BY <1>2, <1>3, <1>4, DoesWhat

-----------------------------------------------------------------------------
LEMMA StartReached == ASSUME NEW f PROVE Reached(f, Start)
  BY DEF Reached

LEMMA NextReached ==
  ASSUME NEW f, NEW s, Reached(f, s), NEW q, Goes(f, s.pos, q)
  PROVE  Reached(f, Does(f, s, q))
  BY DEF Reached

\* Induction: what holds at the start and stays holds wherever the walk comes.
LEMMA ReachedIn ==
  ASSUME NEW f, NEW R, Start \in R,
         \A x \in R : \A q : Goes(f, x.pos, q) => Does(f, x, q) \in R,
         NEW s, Reached(f, s)
  PROVE  s \in R
  BY DEF Reached

LEMMA ReachedTyped ==
  ASSUME NEW f \in Files, NEW s, Reached(f, s)
  PROVE  s \in Spot /\ s.pos \in Nat /\ Known(s.pending) /\ Known(s.out)
<1> DEFINE R == {x \in Spot : Known(x.pending) /\ Known(x.out)}
<1>1. Start \in R
  BY StartTyped
<1>2. ASSUME NEW x \in R, NEW q, Goes(f, x.pos, q) PROVE Does(f, x, q) \in R
  BY <1>2, DoesTyped
<1> HIDE DEF R
<1>3. s \in R
  BY <1>1, <1>2, ReachedIn
<1> QED  BY <1>3 DEF R, Spot

\* Everything but the start comes from somewhere.
LEMMA Origin ==
  ASSUME NEW f \in Files, NEW s, Reached(f, s)
  PROVE  s = Start \/ \E x, q : Reached(f, x) /\ Goes(f, x.pos, q) /\ s = Does(f, x, q)
<1> DEFINE R == {y \in Spot : /\ Reached(f, y)
                              /\ \/ y = Start
                                 \/ \E x, q : Reached(f, x) /\ Goes(f, x.pos, q) /\ y = Does(f, x, q)}
<1>1. Start \in R
  BY StartTyped, StartReached
<1>2. ASSUME NEW x \in R, NEW q, Goes(f, x.pos, q) PROVE Does(f, x, q) \in R
  <2>1. Reached(f, x) /\ x \in Spot
    OBVIOUS
  <2>2. Does(f, x, q) \in Spot /\ Reached(f, Does(f, x, q))
    BY <1>2, <2>1, DoesTyped, NextReached
  <2> QED  BY <1>2, <2>1, <2>2
<1> HIDE DEF R
<1>3. s \in R
  BY <1>1, <1>2, ReachedIn
<1> QED  BY <1>3 DEF R

\* From a place before this one the walk goes no farther than to this one.
Before(f, u) ==
  \A s : Reached(f, s) /\ s.pos < u.pos => \A q : Goes(f, s.pos, q) => q <= u.pos

LEMMA NoneBetween ==
  ASSUME NEW f \in Files, NEW u, Reached(f, u), Before(f, u), NEW r, Goes(f, u.pos, r),
         NEW s, Reached(f, s)
  PROVE  s.pos <= u.pos \/ s.pos >= r
<1>0. u.pos \in Nat /\ r \in Nat
  <2>1. u.pos \in Nat
    BY ReachedTyped
  <2> QED  BY <2>1, GoesOnce
<1> DEFINE R == {x \in Spot : Reached(f, x) /\ (x.pos <= u.pos \/ x.pos >= r)}
<1>1. Start \in R
  <2>1. Start.pos = 0
    BY DEF Start
  <2> QED  BY <1>0, <2>1, StartTyped, StartReached
<1>2. ASSUME NEW x \in R, NEW q, Goes(f, x.pos, q) PROVE Does(f, x, q) \in R
  <2>1. Reached(f, x) /\ x \in Spot /\ x.pos \in Nat /\ (x.pos <= u.pos \/ x.pos >= r)
    BY ReachedTyped
  <2>2. /\ Does(f, x, q) \in Spot /\ Reached(f, Does(f, x, q)) /\ Does(f, x, q).pos = q
    BY <1>2, <2>1, DoesTyped, NextReached
  <2>3. q \in Nat /\ q > x.pos
    BY <1>2, <2>1, GoesOnce
  <2>4. CASE x.pos < u.pos
    <3>1. q <= u.pos
      BY <1>2, <2>1, <2>4 DEF Before
    <3> QED  BY <2>2, <3>1
  <2>5. CASE x.pos = u.pos
    <3>1. q = r
      BY <1>0, <1>2, <2>5, GoesOnce
    <3> QED  BY <1>0, <2>2, <3>1
  <2>6. CASE x.pos >= r
    <3>1. q >= r
      BY <1>0, <2>1, <2>3, <2>6
    <3> QED  BY <2>2, <3>1
  <2>7. x.pos < u.pos \/ x.pos = u.pos \/ x.pos >= r
    BY <1>0, <2>1
  <2> QED  BY <2>4, <2>5, <2>6, <2>7
<1> HIDE DEF R
<1>3. s \in R
  BY <1>1, <1>2, ReachedIn
<1> QED  BY <1>3 DEF R

LEMMA AllBefore ==
  ASSUME NEW f \in Files, NEW u, Reached(f, u)
  PROVE  Before(f, u)
<1> DEFINE R == {x \in Spot : Reached(f, x) /\ Before(f, x)}
<1>1. Start \in R
  <2>1. ASSUME NEW s, Reached(f, s), s.pos < Start.pos PROVE FALSE
    <3>1. s.pos \in Nat /\ Start.pos = 0
      BY <2>1, ReachedTyped DEF Start
    <3> QED  BY <2>1, <3>1
  <2> QED  BY <2>1, StartTyped, StartReached DEF Before
<1>2. ASSUME NEW x \in R, NEW r, Goes(f, x.pos, r) PROVE Does(f, x, r) \in R
  <2>1. Reached(f, x) /\ Before(f, x) /\ x \in Spot /\ x.pos \in Nat
    BY ReachedTyped
  <2>2. /\ Does(f, x, r) \in Spot /\ Reached(f, Does(f, x, r)) /\ Does(f, x, r).pos = r
    BY <1>2, <2>1, DoesTyped, NextReached
  <2>3. r \in Nat /\ r > x.pos
    BY <1>2, <2>1, GoesOnce
  <2>4. ASSUME NEW s, Reached(f, s), s.pos < r, NEW q, Goes(f, s.pos, q) PROVE q <= r
    <3>1. s.pos \in Nat
      BY <2>4, ReachedTyped
    <3>2. s.pos <= x.pos
      BY <1>2, <2>1, <2>3, <2>4, <3>1, NoneBetween
    <3>3. CASE s.pos < x.pos
      <4>1. q <= x.pos /\ q \in Nat
        BY <2>1, <2>4, <3>1, <3>3, GoesOnce DEF Before
      <4> QED  BY <2>1, <2>3, <4>1
    <3>4. CASE s.pos = x.pos
      <4>1. q = r
        BY <1>2, <2>1, <2>4, <3>4, GoesOnce
      <4> QED  BY <2>3, <4>1
    <3> QED  BY <2>1, <3>1, <3>2, <3>3, <3>4
  <2>5. Before(f, Does(f, x, r))
    BY <2>2, <2>4 DEF Before
  <2> QED  BY <2>2, <2>5
<1> HIDE DEF R
<1>3. u \in R
  BY <1>1, <1>2, ReachedIn
<1> QED  BY <1>3 DEF R

\* At one place of the file the walk is in one state.
LEMMA OnePerPlace ==
  ASSUME NEW f \in Files, NEW u, Reached(f, u), NEW v, Reached(f, v), v.pos = u.pos
  PROVE  v = u
<1> DEFINE R == {x \in Spot : Reached(f, x) /\ \A z : Reached(f, z) /\ z.pos = x.pos => z = x}
<1>1. Start \in R
  <2>1. ASSUME NEW z, Reached(f, z), z.pos = Start.pos PROVE z = Start
    <3>1. SUFFICES ASSUME NEW x, NEW q, Reached(f, x), Goes(f, x.pos, q), z = Does(f, x, q)
                   PROVE  FALSE
      BY <2>1, Origin
    <3>2. x \in Spot /\ x.pos \in Nat /\ Start.pos = 0
      BY <3>1, ReachedTyped DEF Start
    <3>3. z.pos = q /\ q \in Nat /\ q > x.pos
      BY <3>1, <3>2, DoesTyped, GoesOnce
    <3> QED  BY <2>1, <3>2, <3>3
  <2> QED  BY <2>1, StartTyped, StartReached
<1>2. ASSUME NEW x \in R, NEW r, Goes(f, x.pos, r) PROVE Does(f, x, r) \in R
  <2>1. /\ Reached(f, x) /\ x \in Spot /\ x.pos \in Nat
        /\ \A z : Reached(f, z) /\ z.pos = x.pos => z = x
    BY ReachedTyped
  <2>2. /\ Does(f, x, r) \in Spot /\ Reached(f, Does(f, x, r)) /\ Does(f, x, r).pos = r
    BY <1>2, <2>1, DoesTyped, NextReached
  <2>3. r \in Nat /\ r > x.pos
    BY <1>2, <2>1, GoesOnce
  <2>4. ASSUME NEW z, Reached(f, z), z.pos = r PROVE z = Does(f, x, r)
    <3>1. z # Start
      <4>1. Start.pos = 0
        BY DEF Start
      <4> QED  BY <2>1, <2>3, <2>4, <4>1
    <3>2. PICK y, q : Reached(f, y) /\ Goes(f, y.pos, q) /\ z = Does(f, y, q)
      BY <2>4, <3>1, Origin
    <3>3. y \in Spot /\ y.pos \in Nat
      BY <3>2, ReachedTyped
    <3>4. z.pos = q /\ q \in Nat /\ q > y.pos
      BY <3>2, <3>3, DoesTyped, GoesOnce
    <3>5. CASE y.pos < x.pos
      <4>1. q <= x.pos
        BY <2>1, <3>2, <3>5, AllBefore DEF Before
      <4> QED  BY <2>1, <2>3, <2>4, <3>4, <4>1
    <3>6. CASE y.pos > x.pos
      <4>1. y.pos >= r
        BY <1>2, <2>1, <3>2, <3>3, <3>6, AllBefore, NoneBetween
      <4> QED  BY <2>3, <2>4, <3>3, <3>4, <4>1
    <3>7. CASE y.pos = x.pos
      <4>1. y = x
        BY <2>1, <3>2, <3>7
      <4> QED  BY <2>4, <3>2, <3>4, <4>1
    <3> QED  BY <2>1, <3>3, <3>5, <3>6, <3>7
  <2> QED  BY <2>2, <2>4
<1> HIDE DEF R
<1>3. u \in R
  BY <1>1, <1>2, ReachedIn
<1> QED  BY <1>3 DEF R

-----------------------------------------------------------------------------
(* A walk has, of what the whole replay has at its place, what it asks for. *)

AskedBy(w) == {e \in Event : Wanted(w, e)}

Match(s) ==
  /\ walk.kind = "scan" => range = s.range
  /\ walk.kind = "replay" =>
       /\ now = s.now /\ bits = [g \in Buses \intersect walk.sids |-> s.bits[g]]
       /\ now < walk.t0 => pending = <<>>
       /\ ~ (now < walk.t0) => Sub(pending, s.pending, Of(walk.sids))
       /\ Sub(out, s.out, AskedBy(walk))
       /\ walk.t1 # NoTime => now <= walk.t1

WalkTyped(w) == w.kind \in {"replay", "scan"} /\ w.t0 \in Nat /\ w.t1 \in Nat \union {NoTime}

LEMMA FlushMatches ==
  ASSUME EventsTyped, NEW s \in Spot, WalkTyped(walk), walk.kind = "replay", Match(s)
  PROVE  Sub(Flushed, FlushOf(s), AskedBy(walk))
<1> DEFINE V == AskedBy(walk)
           old == Stamped(s.pending, s.now)
           new == Stamped(pending, now)
<1>1. /\ s.pending \in Dict /\ s.out \in Seq(Event) /\ s.now \in Nat /\ now = s.now
      /\ pending \in Dict /\ out \in Seq(Event) /\ walk.t0 \in Nat
  BY DEF Spot, Match, EventsTyped, WalkTyped
<1>2. /\ old \in Seq(Event) /\ Len(old) = Len(s.pending) /\ Len(s.pending) \in Nat
      /\ \A j \in 1 .. Len(s.pending) : old[j] \in Event /\ old[j].at = now /\ old[j].sid = s.pending[j].sid
  <2>1. /\ old \in Seq(Event) /\ Len(old) = Len(s.pending) /\ Len(s.pending) \in Nat
        /\ \A j \in 1 .. Len(s.pending) : old[j].at = now /\ old[j].sid = s.pending[j].sid
    BY <1>1, StampedTyped
  <2> HIDE DEF old
  <2>2. \A j \in 1 .. Len(s.pending) : old[j] \in Event
    BY <2>1, ElementOfSeq
  <2> QED  BY <2>1, <2>2
<1>3. Sub(out, s.out, V)
  BY DEF Match
<1> HIDE DEF V
<1>4. ASSUME now < walk.t0 PROVE Sub(Flushed, FlushOf(s), V)
  <2>1. Flushed = out /\ out \o <<>> = out /\ <<>> \in Seq(Event)
    BY <1>1, <1>4, ConcatEmptySeq DEF Flushed
  <2>2. \A j \in 1 .. Len(old) : old[j] \notin V
    BY <1>1, <1>2, <1>4 DEF V, AskedBy, Wanted
  <2> HIDE DEF old
  <2>3. Sub(<<>>, old, V)
    BY <1>2, <2>2, SubNone
  <2>4. Sub(out \o <<>>, s.out \o old, V)
    BY <1>1, <1>2, <1>3, <2>1, <2>3, SubConcat
  <2> QED  BY <2>1, <2>4 DEF FlushOf, old
<1>5. ASSUME ~ (now < walk.t0) PROVE Sub(Flushed, FlushOf(s), V)
  <2>1. Sub(pending, s.pending, Of(walk.sids))
    BY <1>5 DEF Match
  <2>2. /\ new \in Seq(Event) /\ Len(new) = Len(pending) /\ Len(pending) \in Nat
    BY <1>1, StampedTyped
  <2>3. ASSUME NEW i \in 1 .. Len(pending), NEW j \in 1 .. Len(s.pending), pending[i] = s.pending[j]
        PROVE  new[i] = old[j]
    <3>1. i \in DOMAIN pending /\ j \in DOMAIN s.pending
      BY <1>1 DEF Dict
    <3> QED  BY <1>1, <2>3, <3>1 DEF Stamped
  <2>4. ASSUME NEW j \in 1 .. Len(s.pending)
        PROVE  old[j] \in V <=> s.pending[j] \in Of(walk.sids)
    <3>1. s.pending[j] \in Item
      BY <1>1 DEF Dict
    <3>2. old[j] \in Event /\ old[j].at = now /\ old[j].sid = s.pending[j].sid
      BY <1>2
    <3>3. now >= walk.t0 /\ (walk.t1 # NoTime => now <= walk.t1)
      BY <1>1, <1>5 DEF Match
    <3> HIDE DEF old
    <3> QED  BY <3>1, <3>2, <3>3 DEF V, AskedBy, Wanted, Of
  <2> HIDE DEF old, new
  <2>5. Sub(new, old, V)
    BY <1>2, <2>1, <2>2, <2>3, <2>4, SubMap
  <2>6. Sub(out \o new, s.out \o old, V)
    BY <1>1, <1>2, <1>3, <2>2, <2>5, SubConcat
  <2>7. Flushed = out \o new
    BY <1>5 DEF Flushed, new, Stamped
  <2> QED  BY <2>6, <2>7 DEF FlushOf, old
<1> QED  BY <1>4, <1>5 DEF V

LEMMA BusesMatch ==
  ASSUME EventsTyped, NEW s \in Spot, NEW sym \in STRING, NEW value \in Value, NEW sids,
         bits = [g \in Buses \intersect sids |-> s.bits[g]], bits' = Drive(sym, value)
  PROVE  bits' = [g \in Buses \intersect sids |-> Driven(s.bits, sym, value)[g]]
<1>1. DOMAIN bits = Buses \intersect sids /\ \A g \in Buses \intersect sids : bits[g] = s.bits[g]
  OBVIOUS
<1>2. ASSUME NEW g \in Buses \intersect sids
      PROVE  [i \in DOMAIN bits[g] |->
                IF <<g, i - 1>> \in ToSet(Refs(sym)) THEN BitOf(value) ELSE bits[g][i]]
             = Driven(s.bits, sym, value)[g]
  BY <1>1 DEF Driven
<1> QED  BY <1>1, <1>2 DEF Drive

LEMMA ChangeMatches ==
  ASSUME EventsTyped, NEW s \in Spot, WalkTyped(walk), Match(s), walk' = walk, NEW q \in Nat,
         NEW sym \in STRING, NEW value \in Value, Change(sym, value)
  PROVE  Match(Changed(s, q, sym, value))'
<1> DEFINE t == Changed(s, q, sym, value)
<1>1. CASE walk.kind = "scan"
  <2>1. range = s.range /\ s.range \in TimeRange
    BY <1>1 DEF Match, Spot
  <2>2. range' = [range EXCEPT !.initial = @ \/ range.min = NoTime]
    BY <1>1 DEF Change
  <2>3. t.range = [min |-> s.range.min, max |-> s.range.max,
                   initial |-> s.range.initial \/ s.range.min = NoTime]
    BY DEF Changed
  <2>4. range' = t.range
    BY <2>1, <2>2, <2>3 DEF TimeRange
  <2> QED  BY <1>1, <2>4 DEF Match
<1>2. CASE walk.kind = "replay"
  <2> DEFINE sids == walk.sids
             new == Driven(s.bits, sym, value)
             few == [g \in DOMAIN bits |-> Reverse(bits'[g])]
             all == [g \in Buses |-> Reverse(new[g])]
             refs == Refs(sym)
             mid == PutAll(pending, refs, few)
             whole == PutAll(s.pending, refs, all)
  <2>1. /\ bits' = Drive(sym, value) /\ now' = now /\ out' = out
        /\ pending' = IF now < walk.t0 THEN pending
                      ELSE IF Standalone(sym) THEN Put(PutBuses(sym), sym, Clamp(sym, value))
                           ELSE PutBuses(sym)
    BY <1>2 DEF Change
  <2>2. /\ now = s.now /\ bits = [g \in Buses \intersect sids |-> s.bits[g]]
        /\ now < walk.t0 => pending = <<>>
        /\ ~ (now < walk.t0) => Sub(pending, s.pending, Of(sids))
        /\ Sub(out, s.out, AskedBy(walk)) /\ (walk.t1 # NoTime => now <= walk.t1)
    BY <1>2 DEF Match
  <2>3. /\ s.pending \in Dict /\ pending \in Dict /\ s.bits \in [Buses -> Value]
    BY DEF Spot, EventsTyped
  <2>4. bits' = [g \in Buses \intersect sids |-> new[g]]
    BY <2>1, <2>2, BusesMatch
  <2>5. new \in [Buses -> Value]
    BY <2>3, DrivenTyped
  <2>6. /\ t.now = s.now /\ t.bits = new /\ t.out = s.out
        /\ t.pending = IF sym \in DOMAIN Width THEN Put(whole, sym, Clamp(sym, value)) ELSE whole
    BY DEF Changed, PutOf
  <2>7. ASSUME ~ (now < walk.t0) PROVE Sub(pending', t.pending, Of(sids))
    <3>1. /\ PutBuses(sym) = mid
          /\ Standalone(sym) <=> sym \in DOMAIN Width /\ sym \in sids
      BY DEF PutBuses, Standalone
    <3>2. /\ DOMAIN few = Buses \intersect sids /\ DOMAIN all = Buses
          /\ \A g \in DOMAIN few : few[g] = all[g]
      BY <2>2, <2>4
    <3>3. \A g \in DOMAIN all : all[g] \in Value
      BY <2>5, ReverseText
    <3>4. \A g \in DOMAIN few : few[g] \in Value
      BY <3>2, <3>3
    <3>5. Len(refs) \in Nat /\ \A n \in 1 .. Len(refs) : refs[n][1] \in STRING
      BY RefsTyped
    <3>6. Sub(pending, s.pending, Of(sids))
      BY <2>2, <2>7
    <3>7. pending' = IF Standalone(sym) THEN Put(mid, sym, Clamp(sym, value)) ELSE mid
      BY <2>1, <2>7, <3>1
    <3> HIDE DEF few, all, refs, t, new
    <3>8. mid \in Dict
      BY <2>3, <3>4, <3>5, PutAllDict
    <3>9. whole \in Dict
      BY <2>3, <3>3, <3>5, PutAllDict
    <3>10. Sub(mid, whole, Of(sids))
      <4>1. DOMAIN few = DOMAIN all \intersect sids
        BY <3>2
      <4> QED  BY <2>3, <3>2, <3>3, <3>5, <3>6, <4>1, SubPutAll
    <3> HIDE DEF mid, whole
    <3>11. ASSUME sym \in DOMAIN Width PROVE Clamp(sym, value) \in Value
      <4>1. Width[sym] \in Nat
        BY <3>11, SignalAssumption
      <4> QED  BY <4>1, ManyX DEF Clamp
    <3>12. CASE sym \in DOMAIN Width /\ sym \in sids
      <4>1. Sub(Put(mid, sym, Clamp(sym, value)), Put(whole, sym, Clamp(sym, value)), Of(sids))
        BY <3>8, <3>9, <3>10, <3>11, <3>12, SubPut
      <4> QED  BY <2>6, <3>1, <3>7, <3>12, <4>1
    <3>13. CASE sym \in DOMAIN Width /\ sym \notin sids
      <4>1. Sub(mid, Put(whole, sym, Clamp(sym, value)), Of(sids))
        BY <3>8, <3>9, <3>10, <3>11, <3>13, SubPut
      <4> QED  BY <2>6, <3>1, <3>7, <3>13, <4>1
    <3>14. CASE sym \notin DOMAIN Width
      BY <2>6, <3>1, <3>7, <3>10, <3>14
    <3> QED  BY <3>12, <3>13, <3>14
  <2>8. now < walk.t0 => pending' = <<>>
    BY <2>1, <2>2
  <2> HIDE DEF t, new
  <2>9. bits' = [g \in Buses \intersect sids |-> t.bits[g]]
    BY <2>4, <2>6
  <2>10. Match(t)'
    BY <1>2, <2>1, <2>2, <2>6, <2>7, <2>8, <2>9 DEF Match
  <2> QED  BY <2>10 DEF t
<1> QED  BY <1>1, <1>2 DEF WalkTyped

\* A step that leaves the effects alone.
LEMMA MovedMatches ==
  ASSUME NEW s, Match(s), walk' = walk, UNCHANGED effect, NEW q
  PROVE  Match(s)' /\ Match(Moved(s, q))'
<1>1. /\ Moved(s, q).now = s.now /\ Moved(s, q).bits = s.bits /\ Moved(s, q).pending = s.pending
      /\ Moved(s, q).out = s.out /\ Moved(s, q).range = s.range
  BY DEF Moved
<1>2. UNCHANGED <<now, bits, pending, out, range>>
  BY DEF effect
<1> QED  BY <1>1, <1>2 DEF Match

LEMMA StampMatches ==
  ASSUME EventsTyped, NEW s \in Spot, WalkTyped(walk), Match(s), NEW q \in Nat,
         NEW tok, Stamp[tok] \in Nat, ReplayStamp(tok),
         walk.t1 # NoTime => ~ (Stamp[tok] > walk.t1)
  PROVE  Match(Timed(s, q, Stamp[tok]))'
<1> DEFINE t == Timed(s, q, Stamp[tok])
<1>1. /\ walk.kind = "replay" /\ walk' = walk /\ bits' = bits /\ now' = Stamp[tok] /\ out' = Flushed
      /\ pending' = IF now < walk.t0 THEN pending ELSE <<>>
  BY DEF ReplayStamp
<1>2. /\ t.now = Stamp[tok] /\ t.bits = s.bits /\ t.pending = <<>> /\ t.out = FlushOf(s)
  BY DEF Timed
<1>3. Sub(Flushed, FlushOf(s), AskedBy(walk))
  BY <1>1, FlushMatches
<1>4. pending' = <<>> /\ bits = [g \in Buses \intersect walk.sids |-> s.bits[g]]
  BY <1>1 DEF Match
<1>5. Sub(<<>>, <<>>, Of(walk.sids))
  BY SubEmpty
<1>6. walk.t1 # NoTime => Stamp[tok] <= walk.t1
  BY DEF WalkTyped
<1>7. UNCHANGED walk
  BY <1>1
<1>8. Sub(out', t.out, AskedBy(walk))
  BY <1>1, <1>2, <1>3
<1>9. Sub(pending', t.pending, Of(walk.sids))
  BY <1>2, <1>4, <1>5
<1>10. /\ now' = t.now /\ bits' = [g \in Buses \intersect walk.sids |-> t.bits[g]]
       /\ walk.t1 # NoTime => now' <= walk.t1
  BY <1>1, <1>2, <1>4, <1>6
<1> HIDE DEF t
<1>11. Match(t)'
  BY <1>1, <1>4, <1>7, <1>8, <1>9, <1>10 DEF Match
<1> QED  BY <1>11 DEF t

LEMMA ScanMatches ==
  ASSUME NEW s \in Spot, Match(s), NEW q \in Nat, NEW tok, Stamp[tok] \in Nat, ScanStamp(tok)
  PROVE  Match(Timed(s, q, Stamp[tok]))'
<1> DEFINE t == Timed(s, q, Stamp[tok])
<1>1. /\ walk.kind = "scan" /\ walk' = walk /\ range = s.range /\ s.range \in TimeRange
      /\ range' = [range EXCEPT !.min = IF @ = NoTime THEN FirstTime(Stamp[tok]) ELSE @,
                                !.max = Later(Stamp[tok])]
  BY DEF ScanStamp, Match, Spot
<1>2. t.range = [min |-> IF s.range.min # NoTime THEN s.range.min
                         ELSE IF s.range.initial THEN 0 ELSE Stamp[tok],
                 max |-> IF s.range.max = NoTime \/ Stamp[tok] > s.range.max THEN Stamp[tok]
                         ELSE s.range.max,
                 initial |-> s.range.initial]
  BY DEF Timed
<1>3. range' = [min |-> IF range.min = NoTime THEN FirstTime(Stamp[tok]) ELSE range.min,
                max |-> Later(Stamp[tok]), initial |-> range.initial]
  BY <1>1 DEF TimeRange
<1>4. range' = t.range
  BY <1>1, <1>2, <1>3 DEF FirstTime, Later
<1> QED  BY <1>1, <1>4 DEF Match

-----------------------------------------------------------------------------
(* Every walk follows the whole replay, change by change.                   *)

\* Where the walk is, next to the last place between two value changes.
AtPlace(s) ==
  /\ mode = "top" => s.pos = Here
  /\ mode = "value" =>
       /\ Here = s.pos + 1 /\ file[Here] \in DOMAIN Vector \union DOMAIN Port
       /\ carry.value = ValueOf(file[Here])
       /\ carry.due \in Nat /\ carry.due + Len(carry.read) = Due(file[Here])
  /\ mode = "section" =>
       /\ s.pos < Here /\ file[s.pos + 1] \in Sections
       /\ \A j \in s.pos + 2 .. Here : file[j] # End

Follows ==
  /\ file \in Files
  /\ mode # "idle" => WalkTyped(walk) /\ \E s : Reached(file, s) /\ AtPlace(s) /\ Match(s)

\* What a scan makes of a file with data and no timestamp.
Times(r) == IF r.min = NoTime /\ r.initial THEN [r EXCEPT !.min = 0, !.max = 0] ELSE r

\* The walk s of the file f goes on after the last time of w.
PastLast(f, s, w) ==
  /\ w.t1 # NoTime /\ s.pos < Len(f)
  /\ Timely(f[s.pos + 1]) /\ Stamp[f[s.pos + 1]] > w.t1

Right(f, r) ==
  r.ok =>
    /\ WalkTyped(r.walk)
    /\ r.walk.kind = "scan" =>
         \E s : Reached(f, s) /\ s.pos = Len(f) /\ r.range = Times(s.range)
    /\ r.walk.kind = "replay" =>
         /\ r.out \in Seq(Event)
         /\ \E s : /\ Reached(f, s) /\ Sub(r.out, FlushOf(s), AskedBy(r.walk))
                   /\ s.pos = Len(f) \/ PastLast(f, s, r.walk)

DoneRight == \A k \in DOMAIN done : Right(file, done[k])

-----------------------------------------------------------------------------
LEMMA PlacesNext ==
  ASSUME IInv'
  PROVE  /\ Len(raw') \in Nat /\ Len(pushback') \in Nat /\ Len(carry'.read) \in Nat /\ Kept' \in Nat
<1>1. /\ raw' \in Seq(STRING) /\ pushback' \in Seq(STRING) /\ carry'.read \in Seq(Strengths)
  BY DEF IInv, Texts
<1>2. Len(raw') \in Nat /\ Len(pushback') \in Nat /\ Len(carry'.read) \in Nat
  BY <1>1, LenProperties
<1>3. Kept' \in Nat
  BY <1>2 DEF Kept
<1> QED  BY <1>2, <1>3

\* A token that is taken is the next one of the file.
LEMMA PopGoes ==
  ASSUME IInv, Placed, More, Pop, file' = file, IInv', Here \in Nat
  PROVE  /\ Token = file[Here + Kept + 1] /\ Here + Kept + 1 \in 1 .. Len(file)
         /\ Here' + Kept' = Here + Kept + 1 /\ Here' \in Int /\ Kept \in Nat /\ Kept' \in Nat
<1> DEFINE f == Len(file)
           a == Len(raw)
           b == Len(pushback)
           c == Len(raw')
           d == Len(pushback')
           k == Kept
           l == Kept'
<1>1. c + d = a + b - 1 /\ Token = file[f - a - b + 1]
  BY PopComes DEF Placed, Taken
<1>2. /\ f \in Nat /\ a \in Nat /\ b \in Nat /\ c \in Nat /\ d \in Nat /\ k \in Nat /\ l \in Nat
  BY PlacesTyped, PlacesNext
<1>3. Here = f - a - b - k /\ Here' = f - c - d - l
  BY DEF Here, Taken
<1> HIDE DEF f, a, b, c, d, k, l
<1>4. f - a - b + 1 = Here + k + 1 /\ Here' + l = Here + k + 1 /\ Here' \in Int
  BY <1>1, <1>2, <1>3
<1>5. Here + k + 1 \in 1 .. f
  BY <1>1, <1>2, <1>3
<1> QED  BY <1>1, <1>2, <1>4, <1>5 DEF k, l, f

\* The walk between two value changes takes a token.
LEMMA TopGoes ==
  ASSUME IInv, Placed, NEW tok, AtTop(tok), Pop, file' = file, IInv', Here \in Nat,
         mode' # "value" \/ carry'.read = <<>>
  PROVE  tok = file[Here + 1] /\ Here + 1 \in 1 .. Len(file) /\ Here' = Here + 1
<1>1. Kept = 0 /\ Kept' = 0 /\ More /\ Token = tok
  BY DEF AtTop, Kept
<1> QED  BY <1>1, PopGoes

\* What a value change has read are the strengths after its first token.
LEMMA StrengthsRead ==
  ASSUME IInv, Placed, mode = "value", Here \in Nat
  PROVE  /\ Kept = Len(carry.read) /\ Here + Kept <= Len(file)
         /\ \A j \in Here + 1 .. Here + Kept : file[j] \in Strengths
<1> DEFINE f == Len(file)
           a == Len(raw)
           k == Len(carry.read)
<1>1. f \in Nat /\ a \in Nat /\ k \in Nat /\ pushback = <<>> /\ Kept = k
  BY PlacesTyped DEF IInv, NothingBack, Kept
<1>2. Here = f - a - k
  BY <1>1 DEF Here, Taken
<1>3. \A i \in 1 .. k : carry.read[i] = file[f - a - k + i] /\ carry.read[i] \in Strengths
  <2>1. carry.read \in Seq(Strengths)
    BY DEF IInv, Texts
  <2>2. \A i \in 1 .. k : carry.read[i] \in Strengths
    BY <2>1, ElementOfSeq
  <2>3. \A i \in 1 .. k : carry.read[i] = file[f - a - k + i]
    BY DEF Placed, ReadBefore, Taken
  <2> QED  BY <2>2, <2>3
<1> HIDE DEF f, a, k
<1>4. ASSUME NEW j \in Here + 1 .. Here + k PROVE file[j] \in Strengths
  <2>1. j - Here \in 1 .. k /\ f - a - k + (j - Here) = j
    BY <1>1, <1>2
  <2> QED  BY <1>3, <2>1
<1>5. Here + k <= f
  BY <1>1, <1>2
<1> QED  BY <1>1, <1>4, <1>5 DEF k, f

\* A value change that is given up leaves its first token behind and no other.
LEMMA GiveUpStays ==
  ASSUME IInv, Placed, IInv', GiveUp, Here \in Nat
  PROVE  /\ Here' = Here
         /\ More => Token = file[Here + Kept + 1] /\ Here + Kept + 1 \in 1 .. Len(file)
         /\ ~ More => Here + Kept = Len(file)
<1> DEFINE f == Len(file)
           a == Len(raw)
           c == Len(raw')
           d == Len(pushback')
           r == Len(carry.read)
<1>1. /\ mode = "value" /\ mode' = "top" /\ file' = file
      /\ pushback = <<>> /\ carry.read \in Seq(Strengths) /\ raw \in Seq(STRING)
      /\ pushback' \in Seq(STRING)
  BY DEF GiveUp, IInv, NothingBack, Texts
<1>2. f \in Nat /\ a \in Nat /\ c \in Nat /\ d \in Nat /\ r \in Nat /\ Kept = r /\ Kept' = 0
  BY <1>1, PlacesTyped, PlacesNext DEF Kept
<1>3. Here = f - a - r /\ Here' = f - c - d
  BY <1>1, <1>2 DEF Here, Taken
<1>4. CASE More
  <2>1. raw # <<>> /\ raw' = Tail(raw) /\ Token = Head(raw)
    BY <1>1, <1>4 DEF GiveUp, GiveBack, RestRaw, More, Token
  <2>2. a >= 1 /\ c = a - 1 /\ Token = raw[1] /\ Token \in STRING
    BY <1>1, <1>2, <2>1, HeadTailProperties
  <2>3. Token = file[f - a + 1]
    BY <1>2, <2>2 DEF Placed, Comes, Taken
  <2> DEFINE whole == Append(carry.read, Token)
  <2>4. Reverse(whole) \in Seq(STRING) /\ Len(whole) = r + 1
    BY <1>1, <2>2, ReverseOnTop
  <2>5. Reverse(whole) = [i \in 1 .. Len(whole) |-> whole[(Len(whole) - i) + 1]]
    BY DEF Reverse
  <2>6. pushback' = Reverse(whole)
    BY <1>1, <1>4, <2>4 DEF GiveUp, GiveBack, RestBack
  <2> HIDE DEF whole, r
  <2>7. d = r + 1
    BY <1>2, <2>4, <2>5, <2>6
  <2>8. More
    BY <1>4
  <2> HIDE DEF f, a, c, d
  <2>9. Here' = Here /\ f - a + 1 = Here + r + 1 /\ Here + r + 1 \in 1 .. f
    BY <1>2, <1>3, <2>2, <2>7
  <2> QED  BY <1>2, <2>3, <2>8, <2>9 DEF f
<1>5. CASE ~ More
  <2>1. raw' = raw /\ raw = <<>> /\ pushback' = Reverse(carry.read)
    BY <1>1, <1>5 DEF GiveUp, More
  <2>2. Reverse(carry.read) = [i \in 1 .. r |-> carry.read[(r - i) + 1]]
    BY DEF Reverse
  <2>3. d = r
    <3> HIDE DEF r
    <3> QED  BY <1>1, <1>2, <2>1, <2>2
  <2>4. a = 0 /\ c = 0 /\ ~ More
    BY <1>5, <2>1
  <2> HIDE DEF f, a, c, d, r
  <2>5. Here' = Here /\ Here + r = f
    BY <1>2, <1>3, <2>3, <2>4
  <2> QED  BY <1>2, <2>4, <2>5 DEF f
<1> QED  BY <1>4, <1>5

-----------------------------------------------------------------------------
LEMMA GoesTo ==
  ASSUME file \in Files, WalkTyped(walk), UNCHANGED <<file, walk>>, mode' = "top",
         NEW s, Reached(file, s), NEW q, Goes(file, s.pos, q), Here' = q,
         NEW t, t = Does(file, s, q), Match(t)'
  PROVE  Follows'
<1>1. Reached(file, t) /\ t.pos = q
  BY NextReached, ReachedTyped, DoesTyped
<1>2. AtPlace(t)'
  BY <1>1 DEF AtPlace
<1> QED  BY <1>1, <1>2 DEF Follows, WalkTyped

\* A step of a walk in a value change or a section.
LEMMA StaysAt ==
  ASSUME file \in Files, WalkTyped(walk), UNCHANGED <<file, walk>>,
         NEW s, Reached(file, s), AtPlace(s)', Match(s)'
  PROVE  Follows'
  BY DEF Follows, WalkTyped

LEMMA FollowsBegin ==
  ASSUME IInv, Follows, NEW w \in Walks(file), Begin(w)
  PROVE  Follows'
<1>1. /\ walk' = w /\ file' = file /\ raw' = file /\ pushback' = <<>> /\ mode' = "top"
      /\ now' = 0 /\ bits' = NewBits(w) /\ pending' = <<>> /\ out' = <<>> /\ range' = NoRange
  BY DEF Begin
<1>2. file \in Files /\ WalkTyped(w)
  <2>1. file \in Files
    BY DEF Follows
  <2> QED  BY <2>1, WalkAssumption DEF WalkTyped
<1>3. Len(file) \in Nat
  BY PlacesTyped
<1>4. Here' = 0
  <2>1. Kept' = 0 /\ Len(pushback') = 0 /\ Taken' = Len(file) - Len(file)
    BY <1>1 DEF Kept, Taken
  <2> QED  BY <1>3, <2>1 DEF Here
<1> SUFFICES ASSUME NEW s, s = Start PROVE Follows'
  OBVIOUS
<1>5. s.pos = 0 /\ s.now = 0 /\ s.pending = <<>> /\ s.out = <<>> /\ s.range = NoRange
      /\ s.bits = [g \in Buses |-> [i \in 1 .. Width[g] |-> "x"]]
  BY DEF Start
<1>6. AtPlace(s)'
  BY <1>1, <1>4, <1>5 DEF AtPlace
<1>7. /\ bits' = [g \in Buses \intersect w.sids |-> s.bits[g]]
      /\ w.t1 # NoTime => 0 <= w.t1
  BY <1>1, <1>2, <1>5 DEF NewBits, WalkTyped
<1>8. Match(s)'
  BY <1>1, <1>5, <1>7, SubEmpty DEF Match
<1>9. Reached(file, s)
  BY StartReached
<1> QED  BY <1>1, <1>2, <1>6, <1>8, <1>9 DEF Follows

\* Between two value changes the walk takes a token that changes nothing.
LEMMA FollowsMark ==
  ASSUME IInv, Placed, IInv', Follows, NEW tok \in ToSet(file), Mark(tok) \/ SkipStamp(tok) \/ Junk(tok)
  PROVE  Follows'
<1>1. /\ AtTop(tok) /\ Pop /\ UNCHANGED <<file, walk, mode, effect>> /\ mode = "top"
  BY DEF Mark, SkipStamp, Junk, AtTop
<1>2. PICK s : Reached(file, s) /\ AtPlace(s) /\ Match(s)
  BY <1>1 DEF Follows
<1>3. file \in Files /\ WalkTyped(walk)
  BY <1>1 DEF Follows
<1>4. s \in Spot /\ s.pos \in Nat /\ s.pos = Here
  BY <1>1, <1>2, <1>3, ReachedTyped DEF AtPlace
<1>5. tok = file[s.pos + 1] /\ s.pos + 1 \in 1 .. Len(file) /\ Here' = s.pos + 1
  BY <1>1, <1>4, TopGoes
<1>6. tok \notin Sections \union DOMAIN Vector \union DOMAIN Port \union DOMAIN Scalar /\ ~ Timely(tok)
  BY Kinds DEF Mark, SkipStamp, Junk, Timely
<1>7. Goes(file, s.pos, s.pos + 1) /\ Does(file, s, s.pos + 1) = Moved(s, s.pos + 1)
  <2>1. Len(file) \in Nat
    BY PlacesTyped
  <2>2. s.pos < Len(file) /\ s.pos + 1 \in s.pos + 1 .. Len(file)
    BY <1>4, <1>5, <2>1
  <2> QED  BY <1>5, <1>6, <2>2 DEF Goes, Does
<1>8. Match(Moved(s, s.pos + 1))'
  BY <1>1, <1>2, MovedMatches
<1> QED  BY <1>1, <1>2, <1>3, <1>5, <1>7, <1>8, GoesTo

LEMMA FollowsOpen ==
  ASSUME IInv, Placed, IInv', Follows, NEW tok \in ToSet(file), OpenSection(tok)
  PROVE  Follows'
<1>1. /\ AtTop(tok) /\ Pop /\ UNCHANGED <<file, walk, effect>> /\ mode = "top" /\ mode' = "section"
      /\ tok \in Sections
  BY DEF OpenSection, AtTop
<1>2. PICK s : Reached(file, s) /\ AtPlace(s) /\ Match(s)
  BY <1>1 DEF Follows
<1>3. file \in Files /\ WalkTyped(walk)
  BY <1>1 DEF Follows
<1>4. s \in Spot /\ s.pos \in Nat /\ s.pos = Here
  BY <1>1, <1>2, <1>3, ReachedTyped DEF AtPlace
<1>5. tok = file[s.pos + 1] /\ Here' = s.pos + 1
  BY <1>1, <1>4, TopGoes
<1>6. AtPlace(s)'
  BY <1>1, <1>4, <1>5 DEF AtPlace
<1>7. Match(s)'
  BY <1>1, <1>2, MovedMatches
<1> QED  BY <1>1, <1>2, <1>3, <1>6, <1>7, StaysAt

LEMMA FollowsSkip ==
  ASSUME IInv, Placed, IInv', Follows, SkipSection
  PROVE  Follows'
<1>1. /\ mode = "section" /\ UNCHANGED <<file, walk, pushback, effect>> /\ pushback = <<>>
      /\ raw \in Seq(STRING)
  BY DEF SkipSection, IInv, NothingBack, Texts
<1>2. PICK s : Reached(file, s) /\ AtPlace(s) /\ Match(s)
  BY <1>1 DEF Follows
<1>3. file \in Files /\ WalkTyped(walk)
  BY <1>1 DEF Follows
<1>4. s \in Spot /\ s.pos \in Nat
  BY <1>2, <1>3, ReachedTyped
<1> DEFINE f == Len(file)
           a == Len(raw)
           c == Len(raw')
<1>5. f \in Nat /\ a \in Nat /\ c \in Nat /\ Here = f - a
  <2>1. f \in Nat /\ a \in Nat /\ c \in Nat /\ Kept = 0 /\ Len(pushback) = 0
    BY <1>1, PlacesTyped, PlacesNext DEF Kept
  <2> QED  BY <2>1 DEF Here, Taken
<1>6. s.pos < Here /\ file[s.pos + 1] \in Sections /\ \A j \in s.pos + 2 .. Here : file[j] # End
  BY <1>1, <1>2 DEF AtPlace
<1>7. mode' # "value" /\ Here' = f - c
  <2>1. mode' # "value" /\ Len(pushback') = 0
    BY <1>1 DEF SkipSection
  <2>2. Kept' = 0
    BY <2>1 DEF Kept
  <2> QED  BY <1>1, <1>5, <2>1, <2>2 DEF Here, Taken
<1>8. ASSUME NEW q, Closes(file, s.pos + 1, q), q \in s.pos + 1 .. f, Here' = q, mode' = "top"
      PROVE  Follows'
  <2>1. Goes(file, s.pos, q)
    <3>1. s.pos < f
      <4> HIDE DEF f, a, c
      <4> QED  BY <1>4, <1>5, <1>8
    <3> QED  BY <1>6, <1>8, <3>1 DEF Goes
  <2>2. Does(file, s, q) = Moved(s, q)
    BY <1>6, Kinds DEF Does, Timely
  <2>3. Match(Moved(s, q))'
    BY <1>1, <1>2, MovedMatches
  <2> QED  BY <1>1, <1>2, <1>3, <1>8, <2>1, <2>2, <2>3, GoesTo
<1>9. CASE raw = <<>>
  <2>1. mode' = "top" /\ raw' = raw
    BY <1>9 DEF SkipSection
  <2>2. a = 0 /\ c = 0
    BY <1>9, <2>1
  <2> HIDE DEF f, a, c
  <2>3. Here' = f /\ Here = f /\ f \in s.pos + 1 .. f
    BY <1>4, <1>5, <1>6, <1>7, <2>2
  <2>4. \A j \in s.pos + 1 + 1 .. f - 1 : file[j] # End
    BY <1>4, <1>5, <1>6, <2>3
  <2>5. Closes(file, s.pos + 1, f)
    BY <2>4 DEF Closes, f
  <2> QED  BY <1>8, <2>1, <2>3, <2>5
<1>10. CASE raw # <<>>
  <2>1. raw' = Tail(raw) /\ mode' = IF Head(raw) = End THEN "top" ELSE "section"
    BY <1>10 DEF SkipSection
  <2>2. a >= 1 /\ c = a - 1 /\ Head(raw) = raw[1]
    BY <1>1, <1>5, <1>10, <2>1, HeadTailProperties
  <2>3. raw[1] = file[f - a + 1]
    BY <1>5, <2>2 DEF Placed, Comes, Taken
  <2> HIDE DEF f, a, c
  <2>4. Here' = Here + 1 /\ Here + 1 = f - a + 1 /\ Here + 1 \in s.pos + 2 .. f
        /\ Here + 1 \in s.pos + 1 .. f /\ Here \in Nat
    BY <1>4, <1>5, <1>6, <1>7, <2>2
  <2>5. CASE Head(raw) = End
    <3>1. file[Here + 1] = End
      BY <2>2, <2>3, <2>4, <2>5
    <3>2. \A j \in s.pos + 1 + 1 .. (Here + 1) - 1 : file[j] # End
      BY <1>4, <1>6, <2>4
    <3>3. Here + 1 > s.pos + 1
      BY <1>4, <1>6, <2>4
    <3>4. Closes(file, s.pos + 1, Here + 1)
      BY <3>1, <3>2, <3>3 DEF Closes
    <3> QED  BY <1>8, <2>1, <2>4, <2>5, <3>4
  <2>6. CASE Head(raw) # End
    <3>1. mode' = "section"
      BY <2>1, <2>6
    <3>2. \A j \in s.pos + 2 .. Here + 1 : file[j] # End
      <4>1. file[Here + 1] # End
        BY <2>2, <2>3, <2>4, <2>6
      <4>2. \A j \in s.pos + 2 .. Here + 1 : j \in s.pos + 2 .. Here \/ j = Here + 1
        BY <1>4, <2>4
      <4> QED  BY <1>6, <4>1, <4>2
    <3>3. s.pos < Here + 1
      BY <1>4, <1>6, <2>4
    <3>4. AtPlace(s)'
      BY <1>1, <1>6, <2>4, <3>1, <3>2, <3>3 DEF AtPlace
    <3>5. Match(s)'
      BY <1>1, <1>2, MovedMatches
    <3> QED  BY <1>1, <1>2, <1>3, <3>4, <3>5, StaysAt
  <2> QED  BY <2>5, <2>6
<1> QED  BY <1>9, <1>10

LEMMA FollowsStamp ==
  ASSUME IInv, Placed, IInv', EventInv, Follows, NEW tok \in ToSet(file),
         ReplayStamp(tok) \/ ScanStamp(tok), mode' = "top"
  PROVE  Follows'
<1>1. /\ AtTop(tok) /\ Pop /\ UNCHANGED <<file, walk>> /\ mode = "top"
      /\ tok \in DOMAIN Stamp /\ Stamp[tok] \notin {Malformed, TooLarge}
  BY DEF ReplayStamp, ScanStamp, AtTop
<1>2. PICK s : Reached(file, s) /\ AtPlace(s) /\ Match(s)
  BY <1>1 DEF Follows
<1>3. file \in Files /\ WalkTyped(walk) /\ EventsTyped
  BY <1>1 DEF Follows, EventInv
<1>4. s \in Spot /\ s.pos \in Nat /\ s.pos = Here
  BY <1>1, <1>2, <1>3, ReachedTyped DEF AtPlace
<1>5. tok = file[s.pos + 1] /\ s.pos + 1 \in 1 .. Len(file) /\ Here' = s.pos + 1
  BY <1>1, <1>4, TopGoes
<1>6. tok \notin Sections \union DOMAIN Vector \union DOMAIN Port /\ Timely(tok) /\ Stamp[tok] \in Nat
  BY <1>1, Kinds, StampAssumption DEF Timely
<1>7. Goes(file, s.pos, s.pos + 1) /\ Does(file, s, s.pos + 1) = Timed(s, s.pos + 1, Stamp[tok])
  <2>1. Len(file) \in Nat
    BY PlacesTyped
  <2>2. s.pos < Len(file) /\ s.pos + 1 \in s.pos + 1 .. Len(file)
    BY <1>4, <1>5, <2>1
  <2> QED  BY <1>5, <1>6, <2>2 DEF Goes, Does
<1>8. Match(Timed(s, s.pos + 1, Stamp[tok]))'
  <2>1. s.pos + 1 \in Nat
    BY <1>4
  <2>2. CASE ReplayStamp(tok)
    <3>1. walk.t1 # NoTime => ~ (Stamp[tok] > walk.t1)
      <4>1. ASSUME walk.t1 # NoTime, Stamp[tok] > walk.t1 PROVE mode' = "idle"
        BY <2>2, <4>1 DEF ReplayStamp, EndWalk
      <4> QED  BY <4>1
    <3> QED  BY <1>2, <1>3, <1>4, <1>6, <2>1, <2>2, <3>1, StampMatches
  <2>3. CASE ScanStamp(tok)
    BY <1>2, <1>4, <1>6, <2>1, <2>3, ScanMatches
  <2> QED  BY <2>2, <2>3
<1> QED  BY <1>1, <1>2, <1>3, <1>5, <1>7, <1>8, GoesTo

LEMMA FollowsScalar ==
  ASSUME IInv, Placed, IInv', EventInv, Follows, NEW tok \in ToSet(file), ScalarChange(tok)
  PROVE  Follows'
<1> DEFINE sym == Scalar[tok].sym
           value == Scalar[tok].value
<1>1. /\ AtTop(tok) /\ Pop /\ UNCHANGED <<file, walk, mode>> /\ mode = "top"
      /\ tok \in DOMAIN Scalar /\ Change(sym, value)
  BY DEF ScalarChange, AtTop
<1>2. PICK s : Reached(file, s) /\ AtPlace(s) /\ Match(s)
  BY <1>1 DEF Follows
<1>3. file \in Files /\ WalkTyped(walk) /\ EventsTyped
  BY <1>1 DEF Follows, EventInv
<1>4. s \in Spot /\ s.pos \in Nat /\ s.pos = Here
  BY <1>1, <1>2, <1>3, ReachedTyped DEF AtPlace
<1>5. tok = file[s.pos + 1] /\ s.pos + 1 \in 1 .. Len(file) /\ Here' = s.pos + 1
  BY <1>1, <1>4, TopGoes
<1>6. tok \notin Sections \union DOMAIN Vector \union DOMAIN Port /\ ~ Timely(tok)
  BY <1>1, Kinds DEF Timely
<1>7. /\ Goes(file, s.pos, s.pos + 1)
      /\ Does(file, s, s.pos + 1) = Changed(s, s.pos + 1, sym, value)
  <2>1. Len(file) \in Nat
    BY PlacesTyped
  <2>2. s.pos < Len(file) /\ s.pos + 1 \in s.pos + 1 .. Len(file)
    BY <1>4, <1>5, <2>1
  <2> QED  BY <1>1, <1>5, <1>6, <2>2 DEF Goes, Does
<1>8. sym \in STRING /\ value \in Value /\ s.pos + 1 \in Nat
  BY <1>1, <1>4, ValueAssumption, TextIsValue
<1>9. Match(Changed(s, s.pos + 1, sym, value))'
  BY <1>1, <1>2, <1>3, <1>4, <1>8, ChangeMatches
<1> QED  BY <1>1, <1>2, <1>3, <1>5, <1>7, <1>9, GoesTo

LEMMA FollowsValue ==
  ASSUME IInv, Placed, IInv', Follows, NEW tok \in ToSet(file), BeginValue(tok)
  PROVE  Follows'
<1>1. /\ AtTop(tok) /\ Pop /\ UNCHANGED <<file, walk, effect>> /\ mode = "top" /\ mode' = "value"
      /\ tok \in DOMAIN Vector \union DOMAIN Port
      /\ carry' = IF tok \in DOMAIN Vector THEN [value |-> Vector[tok], due |-> 0, read |-> <<>>]
                  ELSE [value |-> Port[tok], due |-> 2, read |-> <<>>]
  BY DEF BeginValue, AtTop
<1>2. PICK s : Reached(file, s) /\ AtPlace(s) /\ Match(s)
  BY <1>1 DEF Follows
<1>3. file \in Files /\ WalkTyped(walk)
  BY <1>1 DEF Follows
<1>4. s \in Spot /\ s.pos \in Nat /\ s.pos = Here
  BY <1>1, <1>2, <1>3, ReachedTyped DEF AtPlace
<1>5. carry'.read = <<>> /\ carry'.value = ValueOf(tok) /\ carry'.due = Due(tok)
  <2>1. CASE tok \in DOMAIN Vector
    BY <1>1, <2>1, Kinds DEF ValueOf, Due
  <2>2. CASE tok \notin DOMAIN Vector
    BY <1>1, <2>2 DEF ValueOf, Due
  <2> QED  BY <2>1, <2>2
<1>6. tok = file[s.pos + 1] /\ Here' = s.pos + 1
  BY <1>1, <1>4, <1>5, TopGoes
<1>7. carry'.due \in Nat /\ carry'.due + Len(carry'.read) = Due(tok)
  BY <1>5, DueTyped
<1>8. AtPlace(s)'
  BY <1>1, <1>5, <1>6, <1>7 DEF AtPlace
<1>9. Match(s)'
  BY <1>1, <1>2, MovedMatches
<1> QED  BY <1>1, <1>2, <1>3, <1>8, <1>9, StaysAt

-----------------------------------------------------------------------------
\* Inside a value change the walk is behind its first token.
LEMMA InValue ==
  ASSUME IInv, Placed, file \in Files, mode = "value", NEW s, Reached(file, s), AtPlace(s)
  PROVE  /\ s \in Spot /\ s.pos \in Nat /\ Here = s.pos + 1 /\ Here \in Nat
         /\ file[Here] \in DOMAIN Vector \union DOMAIN Port
         /\ carry.due \in Nat /\ Kept \in Nat /\ carry.due + Kept = Due(file[Here])
         /\ Here + Kept <= Len(file) /\ Len(file) \in Nat
         /\ \A j \in Here + 1 .. Here + Kept : file[j] \in Strengths
<1>1. s \in Spot /\ s.pos \in Nat
  BY ReachedTyped
<1>2. /\ Here = s.pos + 1 /\ file[Here] \in DOMAIN Vector \union DOMAIN Port
      /\ carry.due \in Nat /\ carry.due + Len(carry.read) = Due(file[Here])
  BY DEF AtPlace
<1>3. Here \in Nat
  BY <1>1, <1>2
<1>4. /\ Kept = Len(carry.read) /\ Here + Kept <= Len(file)
      /\ \A j \in Here + 1 .. Here + Kept : file[j] \in Strengths
  BY <1>3, StrengthsRead
<1> QED  BY <1>1, <1>2, <1>3, <1>4, PlacesTyped

LEMMA FollowsStrength ==
  ASSUME IInv, Placed, IInv', Follows, NEW tok \in ToSet(file), TakeStrength(tok)
  PROVE  Follows'
<1>1. /\ mode = "value" /\ mode' = "value" /\ More /\ Pop /\ UNCHANGED <<file, walk, effect>>
      /\ carry.due > 0
      /\ carry' = [carry EXCEPT !.due = @ - 1, !.read = Append(@, tok)]
  BY DEF TakeStrength
<1>2. PICK s : Reached(file, s) /\ AtPlace(s) /\ Match(s)
  BY <1>1 DEF Follows
<1>3. file \in Files /\ WalkTyped(walk)
  BY <1>1 DEF Follows
<1>4. /\ Here = s.pos + 1 /\ Here \in Nat /\ file[Here] \in DOMAIN Vector \union DOMAIN Port
      /\ carry.due \in Nat /\ Kept \in Nat /\ carry.due + Kept = Due(file[Here])
  BY <1>1, <1>2, <1>3, InValue
<1>5. Here' + Kept' = Here + Kept + 1 /\ Here' \in Int /\ Kept' \in Nat
  BY <1>1, <1>4, PopGoes
<1>6. Kept = Len(carry.read) /\ Kept' = Len(carry'.read)
  BY <1>1 DEF Kept
<1>7. Len(carry'.read) = Len(carry.read) + 1
  <2>1. carry.read \in Seq(Strengths) /\ carry'.read \in Seq(Strengths)
    BY DEF IInv, Texts
  <2>2. carry'.read = Append(carry.read, tok)
    BY <1>1
  <2>3. Len(Append(carry.read, tok)) = Len(carry.read) + 1
    BY <2>1
  <2> QED  BY <2>2, <2>3
<1>8. carry'.due = carry.due - 1 /\ carry'.value = carry.value
  BY <1>1
<1>9. Here' = Here
  BY <1>4, <1>5, <1>6, <1>7
<1>10. carry'.due \in Nat /\ carry'.due + Len(carry'.read) = Due(file[Here])
  <2>1. Due(file[Here]) \in Nat /\ Len(carry.read) \in Nat
    BY DueTyped, PlacesTyped
  <2> QED  BY <1>1, <1>4, <1>6, <1>7, <1>8, <2>1
<1>11. AtPlace(s)'
  <2>1. carry.value = ValueOf(file[Here])
    BY <1>1, <1>2 DEF AtPlace
  <2> QED  BY <1>1, <1>4, <1>8, <1>9, <1>10, <2>1 DEF AtPlace
<1>12. Match(s)'
  BY <1>1, <1>2, MovedMatches
<1> QED  BY <1>1, <1>2, <1>3, <1>11, <1>12, StaysAt

\* The identifier comes: the value changes.
LEMMA FollowsIdentifier ==
  ASSUME IInv, Placed, IInv', EventInv, Follows, NEW tok \in ToSet(file), TakeIdentifier(tok)
  PROVE  Follows'
<1>1. /\ mode = "value" /\ mode' = "top" /\ More /\ Token = tok /\ Pop /\ UNCHANGED <<file, walk>>
      /\ carry.due = 0 /\ ~ Structural(tok) /\ Change(tok, carry.value)
  BY DEF TakeIdentifier
<1>2. PICK s : Reached(file, s) /\ AtPlace(s) /\ Match(s)
  BY <1>1 DEF Follows
<1>3. file \in Files /\ WalkTyped(walk) /\ EventsTyped
  BY <1>1 DEF Follows, EventInv
<1>4. /\ s \in Spot /\ s.pos \in Nat
      /\ Here = s.pos + 1 /\ Here \in Nat /\ file[Here] \in DOMAIN Vector \union DOMAIN Port
      /\ Kept \in Nat /\ Kept = Due(file[Here])
      /\ \A j \in Here + 1 .. Here + Kept : file[j] \in Strengths
  BY <1>1, <1>2, <1>3, InValue
<1> DEFINE a == s.pos + 1
           q == a + Due(file[a]) + 1
<1>5. tok = file[q] /\ q \in 1 .. Len(file) /\ Here' = q
  <2>1. /\ tok = file[Here + Kept + 1] /\ Here + Kept + 1 \in 1 .. Len(file)
        /\ Here' + Kept' = Here + Kept + 1 /\ Here' \in Int
    BY <1>1, <1>4, PopGoes
  <2>2. Kept' = 0
    BY <1>1 DEF Kept
  <2>3. Here' = Here + Kept + 1
    BY <2>1, <2>2
  <2> QED  BY <1>4, <2>1, <2>3
<1>6. Len(file) \in Nat /\ Due(file[a]) \in Nat
  BY PlacesTyped, DueTyped
<1>7. q \in Nat /\ q > a /\ q # a /\ q <= Len(file) /\ a \in Nat
  BY <1>4, <1>5, <1>6
<1>8. Complete(file, a)
  BY <1>1, <1>4, <1>5, <1>7 DEF Complete
<1>9. file[a] \notin Sections /\ ~ Timely(file[a]) /\ file[a] \notin DOMAIN Scalar
  BY <1>4, Kinds DEF Timely
<1>10. Goes(file, s.pos, q)
  <2> HIDE DEF q
  <2>1. s.pos < Len(file) /\ q \in s.pos + 1 .. Len(file)
    BY <1>4, <1>6, <1>7
  <2> QED  BY <1>4, <1>8, <1>9, <2>1 DEF Goes, q
<1>11. Does(file, s, q) = Changed(s, q, tok, carry.value)
  <2>1. carry.value = ValueOf(file[a])
    BY <1>1, <1>2, <1>4 DEF AtPlace
  <2> HIDE DEF q
  <2> QED  BY <1>4, <1>5, <1>7, <1>9, <2>1 DEF Does
<1>12. tok \in STRING /\ carry.value \in Value
  BY <1>3, TokenIsString DEF EventsTyped
<1> HIDE DEF q
<1> SUFFICES ASSUME NEW value \in Value, value = carry.value, NEW p \in Nat, p = q PROVE Follows'
  BY <1>7, <1>12
<1>13. Match(Changed(s, p, tok, value))'
  BY <1>1, <1>2, <1>3, <1>4, <1>12, ChangeMatches
<1>14. Goes(file, s.pos, p) /\ Changed(s, p, tok, value) = Does(file, s, p) /\ Here' = p
  BY <1>5, <1>10, <1>11
<1> QED  BY <1>1, <1>2, <1>3, <1>13, <1>14, GoesTo

\* The value change is malformed: its first token is left behind.
LEMMA FollowsGiveUp ==
  ASSUME IInv, Placed, IInv', Follows, GiveUp
  PROVE  Follows'
<1>1. mode = "value" /\ mode' = "top" /\ UNCHANGED <<file, walk, effect>>
  BY DEF GiveUp
<1>2. PICK s : Reached(file, s) /\ AtPlace(s) /\ Match(s)
  BY <1>1 DEF Follows
<1>3. file \in Files /\ WalkTyped(walk)
  BY <1>1 DEF Follows
<1>4. /\ s \in Spot /\ s.pos \in Nat /\ Len(file) \in Nat
      /\ Here = s.pos + 1 /\ Here \in Nat /\ file[Here] \in DOMAIN Vector \union DOMAIN Port
      /\ carry.due \in Nat /\ Kept \in Nat /\ carry.due + Kept = Due(file[Here])
      /\ Here + Kept <= Len(file)
  BY <1>1, <1>2, <1>3, InValue
<1> DEFINE a == s.pos + 1
           d == Due(file[a])
<1>5. /\ Here' = Here
      /\ More => Token = file[Here + Kept + 1] /\ Here + Kept + 1 \in 1 .. Len(file)
      /\ ~ More => Here + Kept = Len(file)
  BY <1>4, GiveUpStays
<1>6. d \in Nat /\ a \in Nat /\ a = Here /\ carry.due + Kept = d
  BY <1>4, DueTyped
<1> HIDE DEF a, d
<1>n. /\ carry.due > 0 => a + Kept + 1 \in a + 1 .. a + d
      /\ Here + Kept = Len(file) => ~ (a + d + 1 <= Len(file))
  <2> DEFINE k == Kept
             n == carry.due
             l == Len(file)
  <2>1. k \in Nat /\ n \in Nat /\ l \in Nat /\ a \in Nat /\ d \in Nat /\ n + k = d /\ Here = a
    BY <1>4, <1>6
  <2> HIDE DEF k, n, l
  <2>2. n > 0 => a + k + 1 \in a + 1 .. a + d
    BY <2>1
  <2>3. a + k = l => ~ (a + d + 1 <= l)
    BY <2>1
  <2> QED  BY <2>1, <2>2, <2>3 DEF k, n, l
<1>7. ~ Complete(file, a)
  <2>1. CASE More /\ carry.due > 0
    <3>1. Token \notin Strengths
      BY <2>1 DEF GiveUp
    <3>2. a + Kept + 1 \in a + 1 .. a + d
      BY <1>n, <2>1
    <3>3. file[a + Kept + 1] \notin Strengths
      BY <1>5, <1>6, <2>1, <3>1
    <3> QED  BY <3>2, <3>3 DEF Complete, d
  <2>2. CASE More /\ ~ (carry.due > 0)
    <3>1. Structural(Token)
      BY <2>2 DEF GiveUp
    <3>2. Kept = d
      BY <1>4, <1>6, <2>2
    <3>3. Structural(file[a + d + 1])
      BY <1>5, <1>6, <2>2, <3>1, <3>2
    <3> QED  BY <3>3 DEF Complete, d
  <2>3. CASE ~ More
    <3>1. ~ (a + d + 1 <= Len(file))
      BY <1>5, <1>n, <2>3
    <3> QED  BY <3>1 DEF Complete, d
  <2> QED  BY <2>1, <2>2, <2>3
<1> USE DEF a
<1>8. file[a] \notin Sections /\ ~ Timely(file[a]) /\ file[a] \notin DOMAIN Scalar
  BY <1>4, Kinds DEF Timely
<1>9. Goes(file, s.pos, a) /\ Does(file, s, a) = Moved(s, a)
  <2>1. s.pos < Len(file) /\ a \in s.pos + 1 .. Len(file)
    BY <1>4
  <2> QED  BY <1>4, <1>7, <1>8, <2>1 DEF Goes, Does
<1>10. Match(Moved(s, a))'
  BY <1>1, <1>2, MovedMatches
<1>11. Here' = a
  BY <1>5, <1>6
<1> QED  BY <1>1, <1>2, <1>3, <1>9, <1>10, <1>11, GoesTo

LEMMA FollowsInit == Init => Follows
  BY DEF Init, Follows

LEMMA FollowsNext ==
  IInv /\ Placed /\ EventInv /\ Follows /\ [Next]_vars => Follows'
<1> SUFFICES ASSUME IInv, Placed, EventInv, Follows, [Next]_vars PROVE Follows'
  OBVIOUS
<1>0. IInv' /\ file \in Files
  BY WalkNext DEF Follows
<1>1. ASSUME file' = file, mode' = "idle" PROVE Follows'
  BY <1>0, <1>1 DEF Follows
<1>2. ASSUME NEW w \in Walks(file), Begin(w) PROVE Follows'
  BY <1>2, FollowsBegin
<1>3. ASSUME NEW tok \in ToSet(file), Mark(tok) \/ SkipStamp(tok) \/ Junk(tok) PROVE Follows'
  BY <1>0, <1>3, FollowsMark
<1>4. ASSUME NEW tok \in ToSet(file), OpenSection(tok) PROVE Follows'
  BY <1>0, <1>4, FollowsOpen
<1>5. ASSUME NEW tok \in ToSet(file), ReplayStamp(tok) \/ ScanStamp(tok) PROVE Follows'
  <2>1. file' = file /\ (mode' = "idle" \/ mode' = "top")
    BY <1>5 DEF ReplayStamp, ScanStamp, EndWalk, AtTop
  <2> QED  BY <1>0, <1>1, <1>5, <2>1, FollowsStamp
<1>6. ASSUME NEW tok \in ToSet(file), ScalarChange(tok) PROVE Follows'
  BY <1>0, <1>6, FollowsScalar
<1>7. ASSUME NEW tok \in ToSet(file), BeginValue(tok) PROVE Follows'
  BY <1>0, <1>7, FollowsValue
<1>8. ASSUME NEW tok \in ToSet(file), TakeStrength(tok) PROVE Follows'
  BY <1>0, <1>8, FollowsStrength
<1>9. ASSUME NEW tok \in ToSet(file), TakeIdentifier(tok) PROVE Follows'
  BY <1>0, <1>9, FollowsIdentifier
<1>10. CASE SkipSection
  BY <1>0, <1>10, FollowsSkip
<1>11. CASE GiveUp
  BY <1>0, <1>11, FollowsGiveUp
<1>12. ASSUME Finish \/ Abandon \/ \E tok \in ToSet(file) : StampTooLarge(tok) PROVE Follows'
  BY <1>1, <1>12 DEF Finish, Abandon, StampTooLarge, EndWalk
<1>13. CASE UNCHANGED vars
  <2>1. UNCHANGED <<file, walk, parse, effect>>
    BY <1>13 DEF vars
  <2>2. ASSUME NEW s PROVE (AtPlace(s) => AtPlace(s)') /\ (Match(s) => Match(s)')
    BY <2>1 DEF AtPlace, Match, Here, Taken, Kept, parse, effect
  <2>3. mode' = mode
    BY <2>1 DEF parse
  <2>4. CASE mode = "idle"
    BY <1>1, <2>1, <2>3, <2>4
  <2>5. CASE mode # "idle"
    BY <1>0, <2>1, <2>2, <2>5, StaysAt DEF Follows
  <2> QED  BY <2>4, <2>5
<1> QED
  BY <1>2, <1>3, <1>4, <1>5, <1>6, <1>7, <1>8, <1>9, <1>10, <1>11, <1>12, <1>13 DEF Next

-----------------------------------------------------------------------------
(* A walk that has ended kept what it showed of the whole replay.           *)

LEMMA FlushedTyped == EventsTyped => Flushed \in Seq(Event)
<1> SUFFICES ASSUME EventsTyped PROVE Flushed \in Seq(Event)
  OBVIOUS
<1>1. out \in Seq(Event) /\ Stamped(pending, now) \in Seq(Event)
  BY StampedTyped DEF EventsTyped
<1>2. Flushed = IF now < walk.t0 THEN out ELSE out \o Stamped(pending, now)
  BY DEF Flushed, Stamped
<1> QED  BY <1>1, <1>2, ConcatProperties

LEMMA DoneRightGrows ==
  ASSUME EventsTyped, DoneRight, file' = file, NEW r, Right(file, r), done' = Append(done, r)
  PROVE  DoneRight'
<1> DEFINE S == ToSet(done) \union {r}
           n == Len(done)
<1>1. done \in Seq(S) /\ r \in S /\ n \in Nat /\ DOMAIN done = 1 .. n
  BY DEF EventsTyped
<1> HIDE DEF S
<1>2. /\ DOMAIN done' = 1 .. n + 1 /\ done'[n + 1] = r
      /\ \A k \in 1 .. n : done'[k] = done[k]
  BY <1>1
<1>3. \A k \in 1 .. n + 1 : k \in 1 .. n \/ k = n + 1
  BY <1>1
<1> QED  BY <1>1, <1>2, <1>3 DEF DoneRight

LEMMA DoneRightInit == Init => DoneRight
  BY DEF Init, DoneRight

LEMMA DoneRightStamp ==
  ASSUME IInv, Placed, IInv', EventInv, Follows, DoneRight, NEW tok \in ToSet(file), ReplayStamp(tok)
  PROVE  DoneRight'
<1>1. /\ AtTop(tok) /\ Pop /\ UNCHANGED <<file, walk>> /\ mode = "top"
      /\ walk.kind = "replay" /\ tok \in DOMAIN Stamp /\ Stamp[tok] \notin {Malformed, TooLarge}
      /\ \/ done' = done
         \/ /\ walk.t1 # NoTime /\ Stamp[tok] > walk.t1 /\ mode' = "idle"
            /\ done' = Append(done, Result(TRUE, Flushed, range))
  BY DEF ReplayStamp, AtTop, EndWalk
<1>2. CASE done' = done
  BY <1>1, <1>2 DEF DoneRight
<1>3. CASE /\ walk.t1 # NoTime /\ Stamp[tok] > walk.t1 /\ mode' = "idle"
           /\ done' = Append(done, Result(TRUE, Flushed, range))
  <2>1. PICK s : Reached(file, s) /\ AtPlace(s) /\ Match(s)
    BY <1>1 DEF Follows
  <2>2. file \in Files /\ WalkTyped(walk) /\ EventsTyped
    BY <1>1 DEF Follows, EventInv
  <2>3. s \in Spot /\ s.pos \in Nat /\ s.pos = Here
    BY <1>1, <2>1, <2>2, ReachedTyped DEF AtPlace
  <2>4. tok = file[s.pos + 1] /\ s.pos + 1 \in 1 .. Len(file)
    BY <1>1, <1>3, <2>3, TopGoes
  <2>5. PastLast(file, s, walk)
    <3>1. Len(file) \in Nat
      BY PlacesTyped
    <3>2. s.pos < Len(file)
      BY <2>3, <2>4, <3>1
    <3> QED  BY <1>1, <1>3, <2>4, <3>2 DEF PastLast, Timely
  <2>6. Sub(Flushed, FlushOf(s), AskedBy(walk)) /\ Flushed \in Seq(Event)
    BY <1>1, <2>1, <2>2, <2>3, FlushMatches, FlushedTyped
  <2>7. Right(file, Result(TRUE, Flushed, range))
    BY <1>1, <2>1, <2>2, <2>5, <2>6 DEF Right, Result
  <2> QED  BY <1>1, <1>3, <2>2, <2>7, DoneRightGrows
<1> QED  BY <1>1, <1>2, <1>3

LEMMA DoneRightFinish ==
  ASSUME IInv, Placed, EventInv, Follows, DoneRight, Finish
  PROVE  DoneRight'
<1> DEFINE times == IF range.min = NoTime /\ range.initial
                    THEN [range EXCEPT !.min = 0, !.max = 0] ELSE range
<1>1. /\ mode = "top" /\ ~ More /\ UNCHANGED <<file, walk>>
      /\ done' = Append(done, IF walk.kind = "replay" THEN Result(TRUE, Flushed, range)
                              ELSE Result(TRUE, out, times))
  BY DEF Finish, EndWalk
<1>2. PICK s : Reached(file, s) /\ AtPlace(s) /\ Match(s)
  BY <1>1 DEF Follows
<1>3. file \in Files /\ WalkTyped(walk) /\ EventsTyped
  BY <1>1 DEF Follows, EventInv
<1>4. s \in Spot /\ s.pos = Here
  BY <1>1, <1>2, <1>3, ReachedTyped DEF AtPlace
<1>5. s.pos = Len(file)
  <2>1. Kept = 0 /\ raw = <<>> /\ pushback = <<>>
    BY <1>1 DEF Kept, More
  <2>2. Len(file) \in Nat /\ Len(raw) = 0 /\ Len(pushback) = 0
    BY <2>1, PlacesTyped
  <2> QED  BY <1>4, <2>1, <2>2 DEF Here, Taken
<1>6. CASE walk.kind = "replay"
  <2>1. Sub(Flushed, FlushOf(s), AskedBy(walk)) /\ Flushed \in Seq(Event)
    BY <1>2, <1>3, <1>4, <1>6, FlushMatches, FlushedTyped
  <2>2. Right(file, Result(TRUE, Flushed, range))
    BY <1>2, <1>3, <1>5, <1>6, <2>1 DEF Right, Result
  <2> QED  BY <1>1, <1>3, <1>6, <2>2, DoneRightGrows
<1>7. CASE walk.kind = "scan"
  <2>1. range = s.range
    BY <1>2, <1>7 DEF Match
  <2>2. times = Times(s.range)
    BY <2>1 DEF Times
  <2> HIDE DEF times
  <2>3. Right(file, Result(TRUE, out, times))
    BY <1>2, <1>3, <1>5, <1>7, <2>2 DEF Right, Result
  <2> QED  BY <1>1, <1>3, <1>7, <2>3, DoneRightGrows
<1> QED  BY <1>3, <1>6, <1>7 DEF WalkTyped

LEMMA DoneRightNext ==
  IInv /\ Placed /\ EventInv /\ Follows /\ DoneRight /\ [Next]_vars => DoneRight'
<1> SUFFICES ASSUME IInv, Placed, EventInv, Follows, DoneRight, [Next]_vars PROVE DoneRight'
  OBVIOUS
<1>0. IInv' /\ EventsTyped
  BY WalkNext DEF EventInv
<1>1. ASSUME UNCHANGED <<file, done>> PROVE DoneRight'
  BY <1>1 DEF DoneRight
<1>2. ASSUME NEW w \in Walks(file), Begin(w) PROVE DoneRight'
  BY <1>1, <1>2 DEF Begin
<1>3. ASSUME NEW tok \in ToSet(file),
             \/ Mark(tok) \/ OpenSection(tok) \/ SkipStamp(tok) \/ ScanStamp(tok)
             \/ ScalarChange(tok) \/ BeginValue(tok) \/ Junk(tok) \/ TakeStrength(tok)
             \/ TakeIdentifier(tok)
      PROVE  DoneRight'
  BY <1>1, <1>3 DEF Mark, OpenSection, SkipStamp, ScanStamp, ScalarChange, BeginValue, Junk,
                    TakeStrength, TakeIdentifier
<1>4. ASSUME NEW tok \in ToSet(file), ReplayStamp(tok) PROVE DoneRight'
  BY <1>0, <1>4, DoneRightStamp
<1>5. ASSUME Abandon \/ \E tok \in ToSet(file) : StampTooLarge(tok) PROVE DoneRight'
  <2>1. file' = file /\ done' = Append(done, Result(FALSE, out, range))
    BY <1>5 DEF Abandon, StampTooLarge, EndWalk
  <2>2. Right(file, Result(FALSE, out, range))
    BY DEF Right, Result
  <2> QED  BY <1>0, <2>1, <2>2, DoneRightGrows
<1>6. CASE SkipSection \/ GiveUp \/ UNCHANGED vars
  BY <1>1, <1>6 DEF SkipSection, GiveUp, vars
<1>7. CASE Finish
  BY <1>7, DoneRightFinish
<1> QED  BY <1>2, <1>3, <1>4, <1>5, <1>6, <1>7 DEF Next

-----------------------------------------------------------------------------
(* Where the timestamps go forward the events of the whole replay do, and   *)
(* what it has flushed it keeps.                                            *)

LEMMA EventsConcat ==
  ASSUME NEW a \in Seq(Event), NEW b \in Seq(Event), NEW c \in Seq(Event)
  PROVE  (a \o b) \o c = a \o (b \o c) /\ b \o c \in Seq(Event)
<1> DEFINE S == Event
<1>1. a \in Seq(S) /\ b \in Seq(S) /\ c \in Seq(S)
  OBVIOUS
<1> HIDE DEF S
<1>2. (a \o b) \o c = a \o (b \o c)
  BY <1>1, ConcatAssociative
<1>3. b \o c \in Seq(S)
  BY <1>1, ConcatProperties, Zenon
<1> QED  BY <1>2, <1>3 DEF S

LEMMA NowIsStamp ==
  ASSUME NEW f \in Files, NEW s, Reached(f, s)
  PROVE  s.now = 0 \/ \E p \in 1 .. s.pos : f[p] \in DOMAIN Stamp /\ Stamp[f[p]] = s.now
<1> DEFINE Old(x) == x.now = 0 \/ \E p \in 1 .. x.pos : f[p] \in DOMAIN Stamp /\ Stamp[f[p]] = x.now
           R == {x \in Spot : Old(x)}
<1>1. Start \in R
  <2>1. Start.now = 0
    BY DEF Start
  <2> QED  BY <2>1, StartTyped
<1>2. ASSUME NEW x \in R, NEW q, Goes(f, x.pos, q) PROVE Does(f, x, q) \in R
  <2>1. x \in Spot /\ Old(x) /\ x.pos \in Nat
    BY DEF Spot
  <2>2. Does(f, x, q) \in Spot /\ Does(f, x, q).pos = q /\ q \in Nat /\ q > x.pos
    BY <1>2, <2>1, DoesTyped, GoesOnce
  <2>3. CASE Does(f, x, q) = Timed(x, q, Stamp[f[x.pos + 1]]) /\ Timely(f[x.pos + 1])
    <3>1. Does(f, x, q).now = Stamp[f[x.pos + 1]] /\ f[x.pos + 1] \in DOMAIN Stamp
      BY <2>3 DEF Timed, Timely
    <3>2. x.pos + 1 \in 1 .. q
      BY <2>1, <2>2
    <3> QED  BY <2>2, <3>1, <3>2
  <2>4. CASE Does(f, x, q).now = x.now
    <3>1. \A p \in 1 .. x.pos : p \in 1 .. q
      BY <2>1, <2>2
    <3> QED  BY <2>1, <2>2, <2>4, <3>1
  <2>5. \/ Does(f, x, q) = Timed(x, q, Stamp[f[x.pos + 1]]) /\ Timely(f[x.pos + 1])
        \/ Does(f, x, q).now = x.now
    BY <1>2, <2>1, DoesWhat DEF Changed, Moved
  <2> QED  BY <2>3, <2>4, <2>5
<1> HIDE DEF R
<1>3. s \in R
  BY <1>1, <1>2, ReachedIn
<1> QED  BY <1>3 DEF R

\* The next timestamp is not before the time of the walk.
LEMMA StampsAhead ==
  ASSUME file \in Files, Forward, NEW s, Reached(file, s), NEW q, Goes(file, s.pos, q),
         Timely(file[s.pos + 1])
  PROVE  s.now <= Stamp[file[s.pos + 1]]
<1>1. s.pos \in Nat /\ s \in Spot
  BY ReachedTyped
<1>2. /\ s.pos + 1 \in 1 .. Len(file) /\ Stamp[file[s.pos + 1]] \in Nat /\ Len(file) \in Nat
  BY <1>1, DoesWhat, StampAssumption DEF Timely
<1>3. DOMAIN file = 1 .. Len(file)
  BY TokenAssumption
<1>4. ASSUME NEW p \in 1 .. s.pos, file[p] \in DOMAIN Stamp, Stamp[file[p]] = s.now
      PROVE  s.now <= Stamp[file[s.pos + 1]]
  <2>1. p \in DOMAIN file /\ s.pos + 1 \in DOMAIN file /\ p < s.pos + 1
    BY <1>1, <1>2, <1>3
  <2>2. Stamp[file[p]] < Stamp[file[s.pos + 1]]
    BY <1>4, <2>1 DEF Forward, Timely
  <2>3. s.now \in Nat
    BY <1>1 DEF Spot
  <2> QED  BY <1>2, <1>4, <2>2, <2>3
<1> QED  BY <1>2, <1>4, NowIsStamp

\* From u on only events of its time and later are added.
Extends(u, x) ==
  /\ x.now >= u.now
  /\ \E more \in Seq(Event) :
       x.out = u.out \o more /\ \A i \in 1 .. Len(more) : more[i].at >= u.now

LEMMA OutGrows ==
  ASSUME file \in Files, Forward, NEW u, Reached(file, u), NEW v, Reached(file, v), v.pos >= u.pos
  PROVE  Extends(u, v)
<1>0. u \in Spot /\ u.pos \in Nat /\ u.now \in Nat /\ u.out \in Seq(Event)
  BY ReachedTyped DEF Spot
<1>1. Extends(u, u)
  <2> DEFINE none == <<>>
  <2>1. u.out = u.out \o none /\ none \in Seq(Event) /\ Len(none) = 0
    BY <1>0, ConcatEmptySeq
  <2> HIDE DEF none
  <2>2. \A i \in 1 .. Len(none) : none[i].at >= u.now
    BY <2>1
  <2>3. u.now >= u.now
    BY <1>0
  <2> QED  BY <2>1, <2>2, <2>3 DEF Extends
<1> DEFINE R == {x \in Spot : Reached(file, x) /\ (x.pos >= u.pos => Extends(u, x))}
<1>2. Start \in R
  <2>1. ASSUME Start.pos >= u.pos PROVE Start = u
    <3>1. Start.pos = 0
      BY DEF Start
    <3>2. Start.pos = u.pos
      BY <1>0, <2>1, <3>1
    <3> QED  BY <3>2, StartReached, OnePerPlace
  <2> QED  BY <1>1, <2>1, StartTyped, StartReached
<1>3. ASSUME NEW x \in R, NEW q, Goes(file, x.pos, q) PROVE Does(file, x, q) \in R
  <2> DEFINE y == Does(file, x, q)
  <2>1. x \in Spot /\ Reached(file, x) /\ (x.pos >= u.pos => Extends(u, x))
    OBVIOUS
  <2>2. /\ y \in Spot /\ y.pos = q /\ Reached(file, y) /\ x.pos \in Nat /\ q \in Nat /\ q > x.pos
    BY <1>3, <2>1, DoesTyped, NextReached, GoesOnce, ReachedTyped
  <2>3. ASSUME x.pos < u.pos, q >= u.pos PROVE Extends(u, y)
    <3>1. q <= u.pos
      BY <1>3, <2>1, <2>3, AllBefore DEF Before
    <3>2. q = u.pos
      BY <1>0, <2>2, <2>3, <3>1
    <3>3. y = u
      <4> HIDE DEF y
      <4> QED  BY <2>2, <3>2, OnePerPlace
    <3> QED  BY <1>1, <3>3
  <2>4. ASSUME x.pos >= u.pos PROVE Extends(u, y)
    <3>1. Extends(u, x) /\ x.now \in Nat /\ x.pending \in Dict
      BY <2>1, <2>4 DEF Spot
    <3>2. CASE y.now = x.now /\ y.out = x.out
      BY <3>1, <3>2 DEF Extends
    <3>3. CASE Timely(file[x.pos + 1]) /\ y = Timed(x, q, Stamp[file[x.pos + 1]])
      <4> HIDE DEF y
      <4>1. y.now = Stamp[file[x.pos + 1]] /\ y.out = x.out \o Stamped(x.pending, x.now)
        BY <3>3 DEF Timed, FlushOf
      <4>2. x.now <= y.now /\ y.now \in Nat
        BY <1>3, <2>1, <2>2, <3>3, <4>1, StampsAhead DEF Spot
      <4>3. PICK more \in Seq(Event) :
              x.out = u.out \o more /\ \A i \in 1 .. Len(more) : more[i].at >= u.now
        BY <3>1 DEF Extends
      <4>4. x.now >= u.now
        BY <3>1 DEF Extends
      <4> DEFINE new == Stamped(x.pending, x.now)
                 all == more \o new
      <4>5. new \in Seq(Event) /\ \A i \in 1 .. Len(new) : new[i].at = x.now
        BY <3>1, StampedTyped
      <4>0. y.out = x.out \o new
        BY <4>1
      <4> HIDE DEF new
      <4>6. y.out = u.out \o all /\ all \in Seq(Event)
        <5>1. (u.out \o more) \o new = u.out \o (more \o new)
          BY <1>0, <4>3, <4>5, EventsConcat, Zenon
        <5>2. more \o new \in Seq(Event)
          BY <4>3, <4>5, ConcatProperties
        <5> QED  BY <4>0, <4>3, <5>1, <5>2
      <4>7. ASSUME NEW i \in 1 .. Len(all) PROVE all[i].at >= u.now
        <5>1. /\ Len(more) \in Nat /\ Len(new) \in Nat /\ Len(all) = Len(more) + Len(new)
              /\ all[i] = IF i <= Len(more) THEN more[i] ELSE new[i - Len(more)]
          BY <4>5, ConcatProperties
        <5> DEFINE m == Len(more)
                   n == Len(new)
        <5>2. m \in Nat /\ n \in Nat /\ i \in 1 .. m + n
          BY <5>1
        <5> HIDE DEF m, n
        <5>3. (i <= m /\ i \in 1 .. m) \/ (~ (i <= m) /\ i - m \in 1 .. n)
          BY <5>2
        <5> HIDE DEF all
        <5> QED  BY <4>3, <4>4, <4>5, <5>1, <5>3 DEF m, n
      <4>8. y.now >= u.now
        BY <1>0, <3>1, <4>2, <4>4
      <4> HIDE DEF all
      <4> QED  BY <4>6, <4>7, <4>8 DEF Extends
    <3>4. \/ y.now = x.now /\ y.out = x.out
          \/ Timely(file[x.pos + 1]) /\ y = Timed(x, q, Stamp[file[x.pos + 1]])
      BY <1>3, <2>1, DoesWhat DEF Changed, Moved
    <3> QED  BY <3>2, <3>3, <3>4
  <2> HIDE DEF y
  <2>5. y.pos >= u.pos => Extends(u, y)
    BY <1>0, <2>2, <2>3, <2>4
  <2> QED  BY <2>2, <2>5 DEF y
<1> HIDE DEF R
<1>4. v \in R
  BY <1>2, <1>3, ReachedIn
<1> QED  BY <1>4 DEF R

\* A walk that ended early missed only events after its last time.
LEMMA MissesOnlyLater ==
  ASSUME file \in Files, Forward, NEW v, Reached(file, v), NEW w, w.t1 \in Nat \union {NoTime},
         PastLast(file, v, w), NEW F, Reached(file, F), F.pos = Len(file)
  PROVE  \E more \in Seq(Event) :
           FlushOf(F) = FlushOf(v) \o more /\ \A i \in 1 .. Len(more) : more[i].at > w.t1
<1> DEFINE tok == file[v.pos + 1]
           u == Timed(v, v.pos + 1, Stamp[tok])
<1>1. /\ v \in Spot /\ v.pos \in Nat /\ F \in Spot /\ Len(file) \in Nat /\ w.t1 \in Nat
      /\ v.pos < Len(file) /\ Timely(tok) /\ Stamp[tok] > w.t1
  <2>1. Len(file) \in Nat
    BY TokenAssumption, LenProperties
  <2> QED  BY <2>1, ReachedTyped DEF PastLast
<1>2. Goes(file, v.pos, v.pos + 1)
  <2>1. tok \notin Sections \union DOMAIN Vector \union DOMAIN Port
    BY <1>1, Kinds DEF Timely
  <2>2. v.pos + 1 \in v.pos + 1 .. Len(file)
    BY <1>1
  <2> QED  BY <1>1, <2>1, <2>2 DEF Goes
<1>3. Does(file, v, v.pos + 1) = u
  BY <1>1 DEF Does
<1>4. Reached(file, u) /\ u.pos = v.pos + 1 /\ u.now = Stamp[tok] /\ u.out = FlushOf(v)
  <2>1. Reached(file, Does(file, v, v.pos + 1))
    BY <1>2, NextReached
  <2> QED  BY <1>3, <2>1 DEF Timed
<1> HIDE DEF u
<1>5. Extends(u, F) /\ u.now \in Nat /\ u.out \in Seq(Event)
  <2>1. F.pos >= u.pos
    BY <1>1, <1>4
  <2> QED  BY <1>4, <2>1, OutGrows, ReachedTyped DEF Spot
<1>6. PICK more \in Seq(Event) :
        F.out = u.out \o more /\ \A i \in 1 .. Len(more) : more[i].at >= u.now
  BY <1>5 DEF Extends
<1> DEFINE new == Stamped(F.pending, F.now)
           all == more \o new
<1>7. F.now \in Nat /\ F.now >= u.now /\ F.pending \in Dict
  BY <1>1, <1>5 DEF Extends, Spot
<1>8. new \in Seq(Event) /\ \A i \in 1 .. Len(new) : new[i].at = F.now
  BY <1>7, StampedTyped
<1>0. FlushOf(F) = F.out \o new
  BY DEF FlushOf
<1> HIDE DEF new
<1>9. FlushOf(F) = u.out \o all /\ all \in Seq(Event)
  <2>1. (u.out \o more) \o new = u.out \o (more \o new)
    BY <1>5, <1>6, <1>8, EventsConcat, Zenon
  <2>2. more \o new \in Seq(Event)
    BY <1>6, <1>8, ConcatProperties
  <2> QED  BY <1>0, <1>6, <2>1, <2>2
<1>10. ASSUME NEW i \in 1 .. Len(all) PROVE all[i].at > w.t1
  <2>1. /\ Len(more) \in Nat /\ Len(new) \in Nat /\ Len(all) = Len(more) + Len(new)
        /\ all[i] = IF i <= Len(more) THEN more[i] ELSE new[i - Len(more)]
    BY <1>8, ConcatProperties
  <2> DEFINE m == Len(more)
             n == Len(new)
  <2>2. m \in Nat /\ n \in Nat /\ i \in 1 .. m + n
    BY <2>1
  <2> HIDE DEF m, n
  <2>3. (i <= m /\ i \in 1 .. m) \/ (~ (i <= m) /\ i - m \in 1 .. n)
    BY <2>2
  <2>4. all \in Seq(Event) /\ i \in 1 .. Len(all)
    BY <1>9
  <2> HIDE DEF all
  <2>5. all[i].at \in Nat
    <3>1. all[i] \in Event
      BY <2>4, ElementOfSeq
    <3> QED  BY <3>1 DEF Event
  <2>6. all[i].at >= u.now
    BY <1>6, <1>7, <1>8, <2>1, <2>3 DEF m, n
  <2> QED  BY <1>1, <1>4, <1>5, <2>5, <2>6
<1> HIDE DEF all
<1> QED  BY <1>4, <1>9, <1>10

-----------------------------------------------------------------------------
\* Every list that ended right comes from the whole replay.
LEMMA FromWhole ==
  ASSUME DoneRight, NEW r \in ToSet(done), r.ok, r.walk.kind = "replay"
  PROVE  /\ WalkTyped(r.walk) /\ r.out \in Seq(Event)
         /\ \E s : /\ Reached(file, s) /\ Sub(r.out, FlushOf(s), AskedBy(r.walk))
                   /\ s.pos = Len(file) \/ PastLast(file, s, r.walk)
<1>1. PICK k \in DOMAIN done : done[k] = r
  BY DEF ToSet
<1>2. Right(file, done[k])
  BY DEF DoneRight
<1> QED  BY <1>1, <1>2 DEF Right

\* The part of a list that a walk asks for is the one it shows.
LEMMA SubIsPart ==
  ASSUME NEW b \in Seq(Event), NEW s \in Seq(Event), NEW w, Sub(s, b, AskedBy(w))
  PROVE  s = Part(b, w)
<1>1. s = Only(b, {j \in DOMAIN b : b[j] \in AskedBy(w)})
  BY SubIsOnly
<1>2. {j \in DOMAIN b : b[j] \in AskedBy(w)} = {j \in DOMAIN b : Wanted(w, b[j])}
  <2>1. \A j \in DOMAIN b : b[j] \in Event
    BY ElementOfSeq
  <2> QED  BY <2>1 DEF AskedBy
<1> QED  BY <1>1, <1>2 DEF Part

\* A whole replay that ends yields everything.
LEMMA WholeIsAll ==
  ASSUME file \in Files, DoneRight, NEW f \in ToSet(done), f.ok, f.walk.kind = "replay", Whole(f.walk)
  PROVE  \E F : Reached(file, F) /\ F.pos = Len(file) /\ f.out = FlushOf(F)
<1>1. PICK F : /\ Reached(file, F) /\ Sub(f.out, FlushOf(F), AskedBy(f.walk))
               /\ F.pos = Len(file) \/ PastLast(file, F, f.walk)
  BY FromWhole
<1>2. f.out \in Seq(Event)
  BY FromWhole
<1>3. F.pos = Len(file)
  BY <1>1 DEF PastLast, Whole
<1> DEFINE b == FlushOf(F)
<1>4. F \in Spot /\ Known(b) /\ b \in Seq(Event)
  BY <1>1, ReachedTyped, FlushKnown, FlushOfTyped
<1>5. ASSUME NEW j \in 1 .. Len(b) PROVE b[j] \in AskedBy(f.walk)
  <2> HIDE DEF b
  <2>1. b[j] \in Event /\ b[j].sid \in DOMAIN Width
    BY <1>4, ElementOfSeq DEF Known
  <2>2. b[j].at >= 0
    BY <2>1 DEF Event
  <2> QED  BY <2>1, <2>2 DEF AskedBy, Wanted, Whole
<1> HIDE DEF b
<1>6. Sub(b, b, AskedBy(f.walk)) /\ Sub(f.out, b, AskedBy(f.walk))
  <2>1. Sub(f.out, b, AskedBy(f.walk))
    BY <1>1 DEF b
  <2> QED  BY <1>4, <1>5, <2>1, SubWhole
<1>7. f.out = Part(b, f.walk) /\ b = Part(b, f.walk)
  BY <1>2, <1>4, <1>6, SubIsPart
<1> QED  BY <1>1, <1>3, <1>7 DEF b

\* VCDParser.iter_events with its arguments t0, t1 and sids: for every file and every
\* walk, a replay that ends has exactly the events of the whole replay that it asks for, in
\* their order, whatever ran over the parser before or was broken off.  Where t1 is given
\* the timestamps have to go forward, because the replay stops at the first one after t1.
THEOREM ReplayIsWhatWasAskedFor == Spec => []ReplayIsPart
<1>1. file \in Files /\ DoneRight => ReplayIsPart
  <2> SUFFICES ASSUME file \in Files, DoneRight, NEW f \in ToSet(done), NEW r \in ToSet(done),
                      f.ok, r.ok, f.walk.kind = "replay", r.walk.kind = "replay",
                      Whole(f.walk), r.walk.t1 = NoTime \/ Forward
               PROVE  r.out = Part(f.out, r.walk)
    BY DEF ReplayIsPart
  <2>1. PICK F : Reached(file, F) /\ F.pos = Len(file) /\ f.out = FlushOf(F)
    BY WholeIsAll
  <2>2. PICK s : /\ Reached(file, s) /\ Sub(r.out, FlushOf(s), AskedBy(r.walk))
                 /\ s.pos = Len(file) \/ PastLast(file, s, r.walk)
    BY FromWhole
  <2>3. WalkTyped(r.walk) /\ r.out \in Seq(Event)
    BY FromWhole
  <2>4. f.out \in Seq(Event) /\ FlushOf(s) \in Seq(Event)
    BY <2>1, <2>2, ReachedTyped, FlushOfTyped
  <2>5. Sub(r.out, f.out, AskedBy(r.walk))
    <3>1. CASE s.pos = Len(file)
      <4>1. s = F
        BY <2>1, <2>2, <3>1, OnePerPlace
      <4> QED  BY <2>1, <2>2, <4>1
    <3>2. CASE PastLast(file, s, r.walk)
      <4>1. Forward /\ r.walk.t1 # NoTime
        BY <3>2 DEF PastLast
      <4>2. PICK more \in Seq(Event) :
              FlushOf(F) = FlushOf(s) \o more /\ \A i \in 1 .. Len(more) : more[i].at > r.walk.t1
        BY <2>1, <2>2, <2>3, <3>2, <4>1, MissesOnlyLater DEF WalkTyped
      <4>3. \A i \in 1 .. Len(more) : more[i] \notin AskedBy(r.walk)
        <5> SUFFICES ASSUME NEW i \in 1 .. Len(more), more[i] \in AskedBy(r.walk) PROVE FALSE
          OBVIOUS
        <5>1. more[i].at <= r.walk.t1 /\ more[i].at > r.walk.t1 /\ more[i].at \in Nat
          BY <4>1, <4>2 DEF AskedBy, Wanted, Event
        <5>2. r.walk.t1 \in Nat
          BY <2>3, <4>1 DEF WalkTyped
        <5> QED  BY <5>1, <5>2
      <4> DEFINE none == <<>>
      <4>4. none \in Seq(Event) /\ r.out \o none = r.out
        BY <2>3, ConcatEmptySeq
      <4>5. Sub(none, more, AskedBy(r.walk))
        BY <4>3, SubNone
      <4> HIDE DEF none
      <4>6. Sub(r.out \o none, FlushOf(s) \o more, AskedBy(r.walk))
        BY <2>2, <2>3, <2>4, <4>4, <4>5, SubConcat
      <4> QED  BY <2>1, <4>2, <4>4, <4>6
    <3> QED  BY <2>2, <3>1, <3>2
  <2> QED  BY <2>3, <2>4, <2>5, SubIsPart
<1>2. Init => IInv /\ Placed /\ EventInv /\ Follows /\ DoneRight
  BY WalkInit, PlacedInit, EventInit, FollowsInit, DoneRightInit
<1>3. IInv /\ Placed /\ EventInv /\ Follows /\ DoneRight /\ [Next]_vars
      => (IInv /\ Placed /\ EventInv /\ Follows /\ DoneRight)'
  BY WalkNext, PlacedNext, EventNext, FollowsNext, DoneRightNext
<1>4. Follows => file \in Files
  BY DEF Follows
<1> QED  BY <1>1, <1>2, <1>3, <1>4, PTL DEF Spec

-----------------------------------------------------------------------------
(* The range that a scan has seen, where the timestamps go forward.         *)

Within(r, t) == r.min # NoTime /\ r.min <= t /\ t <= r.max

Covered(s) ==
  LET r == s.range
  IN  IF r.min = NoTime
      THEN s.now = 0 /\ s.out = <<>> /\ (s.pending # <<>> => r.initial)
      ELSE r.max # NoTime /\ Within(r, s.now) /\ \A i \in 1 .. Len(s.out) : Within(r, s.out[i].at)

\* What was pending has the time of the walk.
LEMMA FlushAt ==
  ASSUME NEW s \in Spot, NEW i \in 1 .. Len(FlushOf(s))
  PROVE  \/ i \in 1 .. Len(s.out) /\ FlushOf(s)[i] = s.out[i]
         \/ s.pending # <<>> /\ FlushOf(s)[i].at = s.now
<1> DEFINE m == Len(s.out)
           n == Len(s.pending)
           new == Stamped(s.pending, s.now)
<1>1. /\ m \in Nat /\ Len(FlushOf(s)) = m + n
      /\ \A k \in 1 .. m : FlushOf(s)[k] = s.out[k]
      /\ \A k \in m + 1 .. m + n : FlushOf(s)[k] = new[k - m]
  BY FlushOfTyped
<1>2. n \in Nat /\ \A k \in 1 .. n : new[k].at = s.now
  BY StampedTyped DEF Spot
<1>3. n > 0 => s.pending # <<>>
  OBVIOUS
<1> HIDE DEF m, n, new
<1>4. i \in 1 .. m \/ (i \in m + 1 .. m + n /\ i - m \in 1 .. n /\ n > 0)
  BY <1>1, <1>2
<1> QED  BY <1>1, <1>2, <1>3, <1>4 DEF m

LEMMA TimedCovered ==
  ASSUME NEW s \in Spot, Covered(s), NEW q, NEW t \in Nat, s.now <= t
  PROVE  Covered(Timed(s, q, t))
<1> DEFINE r == s.range
           new == Timed(s, q, t).range
           b == FlushOf(s)
<1>1. /\ r \in TimeRange /\ s.now \in Nat /\ NoTime \notin Nat
  BY WalkAssumption DEF Spot
<1>2. /\ new.min = IF r.min # NoTime THEN r.min ELSE IF r.initial THEN 0 ELSE t
      /\ new.max = IF r.max = NoTime \/ t > r.max THEN t ELSE r.max
      /\ Timed(s, q, t).now = t /\ Timed(s, q, t).out = b
  BY DEF Timed
<1>3. \A i \in 1 .. Len(b) :
        \/ i \in 1 .. Len(s.out) /\ b[i] = s.out[i]
        \/ s.pending # <<>> /\ b[i].at = s.now
  BY FlushAt
<1> HIDE DEF r, new, b
<1>4. new.max \in Nat /\ t <= new.max
  BY <1>1, <1>2 DEF TimeRange
<1>5. CASE r.min = NoTime
  <2>1. s.now = 0 /\ s.out = <<>> /\ (s.pending # <<>> => r.initial)
    BY <1>5 DEF Covered, r
  <2>2. new.min = IF r.initial THEN 0 ELSE t
    BY <1>2, <1>5
  <2>3. ASSUME NEW i \in 1 .. Len(b) PROVE Within(new, b[i].at)
    <3>1. r.initial /\ b[i].at = 0
      BY <1>3, <2>1
    <3> QED  BY <1>1, <1>4, <2>2, <3>1 DEF Within
  <2>4. Within(new, t)
    BY <1>1, <1>4, <2>2 DEF Within
  <2> QED  BY <1>1, <1>2, <1>4, <2>3, <2>4 DEF Covered, new, Within
<1>6. CASE r.min # NoTime
  <2>1. /\ r.max # NoTime /\ Within(r, s.now) /\ \A i \in 1 .. Len(s.out) : Within(r, s.out[i].at)
    BY <1>6 DEF Covered, r
  <2>2. r.min \in Nat /\ r.max \in Nat
    BY <1>1, <1>6, <2>1 DEF TimeRange
  <2>3. new.min = r.min /\ r.max <= new.max
    BY <1>1, <1>2, <1>6, <2>2
  <2>4. ASSUME NEW x \in Nat, Within(r, x) PROVE Within(new, x)
    BY <1>4, <2>2, <2>3, <2>4 DEF Within
  <2>5. ASSUME NEW i \in 1 .. Len(b) PROVE Within(new, b[i].at)
    <3>1. CASE i \in 1 .. Len(s.out) /\ b[i] = s.out[i]
      <4>1. s.out[i].at \in Nat
        <5>1. s.out \in Seq(Event)
          BY DEF Spot
        <5>2. s.out[i] \in Event
          BY <3>1, <5>1, ElementOfSeq
        <5> QED  BY <5>2 DEF Event
      <4> QED  BY <2>1, <2>4, <3>1, <4>1
    <3>2. CASE b[i].at = s.now
      BY <1>1, <2>1, <2>4, <3>2
    <3> QED  BY <1>3, <3>1, <3>2
  <2>6. Within(new, t)
    BY <1>1, <1>4, <2>1, <2>2, <2>3 DEF Within
  <2> QED  BY <1>1, <1>2, <1>4, <2>5, <2>6 DEF Covered, new, Within
<1> QED  BY <1>5, <1>6

LEMMA ChangedCovered ==
  ASSUME NEW s \in Spot, Covered(s), NEW q, NEW sym, NEW value
  PROVE  Covered(Changed(s, q, sym, value)) /\ Covered(Moved(s, q))
<1> DEFINE x == Changed(s, q, sym, value)
           y == Moved(s, q)
<1>1. /\ x.now = s.now /\ x.out = s.out /\ x.range.min = s.range.min /\ x.range.max = s.range.max
      /\ x.range.initial = (s.range.initial \/ s.range.min = NoTime)
  BY DEF Changed
<1>2. /\ y.now = s.now /\ y.out = s.out /\ y.range = s.range /\ y.pending = s.pending
  BY DEF Moved
<1> HIDE DEF x, y
<1>3. Covered(x)
  BY <1>1 DEF Covered, Within
<1>4. Covered(y)
  BY <1>2 DEF Covered, Within
<1> QED  BY <1>3, <1>4 DEF x, y

LEMMA ReachedCovered ==
  ASSUME file \in Files, Forward, NEW s, Reached(file, s)
  PROVE  Covered(s)
<1> DEFINE R == {x \in Spot : Reached(file, x) /\ Covered(x)}
<1>1. Start \in R
  <2>1. Covered(Start)
    BY DEF Covered, Start, NoRange
  <2> QED  BY <2>1, StartTyped, StartReached
<1>2. ASSUME NEW x \in R, NEW q, Goes(file, x.pos, q) PROVE Does(file, x, q) \in R
  <2>1. x \in Spot /\ Reached(file, x) /\ Covered(x)
    OBVIOUS
  <2>2. Does(file, x, q) \in Spot /\ Reached(file, Does(file, x, q))
    BY <1>2, <2>1, DoesTyped, NextReached
  <2>3. CASE /\ Timely(file[x.pos + 1]) /\ Stamp[file[x.pos + 1]] \in Nat
             /\ Does(file, x, q) = Timed(x, q, Stamp[file[x.pos + 1]])
    <3>1. x.now <= Stamp[file[x.pos + 1]]
      BY <1>2, <2>1, <2>3, StampsAhead
    <3> QED  BY <2>1, <2>2, <2>3, <3>1, TimedCovered
  <2>4. CASE \E sym \in STRING, value \in Value : Does(file, x, q) = Changed(x, q, sym, value)
    BY <2>1, <2>2, <2>4, ChangedCovered
  <2>5. CASE Does(file, x, q) = Moved(x, q)
    BY <2>1, <2>2, <2>5, ChangedCovered
  <2> QED  BY <1>2, <2>1, <2>3, <2>4, <2>5, DoesWhat
<1> HIDE DEF R
<1>3. s \in R
  BY <1>1, <1>2, ReachedIn
<1> QED  BY <1>3 DEF R

\* What the scan reports covers what the whole replay has at the end.
LEMMA TimesCover ==
  ASSUME NEW s \in Spot, Covered(s), NEW i \in 1 .. Len(FlushOf(s))
  PROVE  /\ Times(s.range).min <= FlushOf(s)[i].at
         /\ FlushOf(s)[i].at <= Times(s.range).max
<1> DEFINE b == FlushOf(s)
           r == s.range
<1>1. \/ i \in 1 .. Len(s.out) /\ b[i] = s.out[i]
      \/ s.pending # <<>> /\ b[i].at = s.now
  BY FlushAt
<1> HIDE DEF b
<1>2. CASE r.min = NoTime
  <2>1. b[i].at = 0 /\ r.initial
    BY <1>1, <1>2 DEF Covered
  <2>2. Times(r).min = 0 /\ Times(r).max = 0
    <3>1. r \in TimeRange
      BY DEF Spot
    <3> QED  BY <1>2, <2>1, <3>1 DEF Times, TimeRange
  <2> QED  BY <2>1, <2>2 DEF b
<1>3. CASE r.min # NoTime
  <2>1. Times(r) = r
    BY <1>3 DEF Times
  <2>2. Within(r, b[i].at)
    BY <1>1, <1>3 DEF Covered
  <2> QED  BY <2>1, <2>2 DEF Within, b
<1> QED  BY <1>2, <1>3

\* VCDParser.scan_time_range and iter_events: for every file whose timestamps go forward,
\* the range of a scan that ends covers every event of every replay that ends, with any
\* bounds and any signals; data before the first timestamp counts as time 0 in both.
THEOREM ScanCoversReplays == Spec => []RangeCoversForward
<1>1. file \in Files /\ DoneRight => RangeCoversForward
  <2> SUFFICES ASSUME file \in Files, DoneRight, Forward, NEW s \in ToSet(done), NEW r \in ToSet(done),
                      s.ok, r.ok, s.walk.kind = "scan", r.walk.kind = "replay", NEW e \in ToSet(r.out)
               PROVE  s.range.min <= e.at /\ e.at <= s.range.max
    BY DEF RangeCoversForward, RangeCovers
  <2>1. PICK F : Reached(file, F) /\ F.pos = Len(file) /\ s.range = Times(F.range)
    <3>1. PICK k \in DOMAIN done : done[k] = s
      BY DEF ToSet
    <3>2. Right(file, done[k])
      BY DEF DoneRight
    <3> QED  BY <3>1, <3>2 DEF Right
  <2>2. PICK v : /\ Reached(file, v) /\ Sub(r.out, FlushOf(v), AskedBy(r.walk))
                 /\ v.pos = Len(file) \/ PastLast(file, v, r.walk)
    BY FromWhole
  <2>3. WalkTyped(r.walk) /\ r.out \in Seq(Event)
    BY FromWhole
  <2>4. PICK i \in 1 .. Len(FlushOf(v)) : e = FlushOf(v)[i]
    <3>1. PICK k \in 1 .. Len(r.out) : e = r.out[k]
      BY <2>3 DEF ToSet
    <3>2. PICK f : Picks(f, r.out, FlushOf(v), AskedBy(r.walk))
      BY <2>2 DEF Sub
    <3>3. f[k] \in 1 .. Len(FlushOf(v)) /\ r.out[k] = FlushOf(v)[f[k]]
      BY <3>2 DEF Picks
    <3> QED  BY <3>1, <3>3
  <2>5. F \in Spot /\ v \in Spot /\ Covered(F)
    BY <2>1, <2>2, ReachedTyped, ReachedCovered
  <2>6. \E k \in 1 .. Len(FlushOf(F)) : e = FlushOf(F)[k]
    <3>1. CASE v.pos = Len(file)
      <4>1. v = F
        BY <2>1, <2>2, <3>1, OnePerPlace
      <4> QED  BY <2>4, <4>1
    <3>2. CASE PastLast(file, v, r.walk)
      <4>1. PICK more \in Seq(Event) : FlushOf(F) = FlushOf(v) \o more
        BY <2>1, <2>2, <2>3, <3>2, MissesOnlyLater DEF WalkTyped
      <4> DEFINE b == FlushOf(v)
      <4>2. b \in Seq(Event)
        BY <2>5, FlushOfTyped
      <4>3. i \in 1 .. Len(b)
        OBVIOUS
      <4> HIDE DEF b
      <4>4. /\ Len(b) \in Nat /\ Len(more) \in Nat /\ Len(b \o more) = Len(b) + Len(more)
            /\ i \in 1 .. Len(b) + Len(more)
        BY <4>2, <4>3, ConcatProperties
      <4>5. (b \o more)[i] = b[i]
        BY <4>2, <4>3, <4>4, ConcatProperties
      <4>6. i \in 1 .. Len(b \o more) /\ (b \o more)[i] = e
        BY <2>4, <4>4, <4>5 DEF b
      <4> QED  BY <4>1, <4>6 DEF b
    <3> QED  BY <2>2, <3>1, <3>2
  <2> QED  BY <2>1, <2>5, <2>6, TimesCover
<1>2. Init => IInv /\ Placed /\ EventInv /\ Follows /\ DoneRight
  BY WalkInit, PlacedInit, EventInit, FollowsInit, DoneRightInit
<1>3. IInv /\ Placed /\ EventInv /\ Follows /\ DoneRight /\ [Next]_vars
      => (IInv /\ Placed /\ EventInv /\ Follows /\ DoneRight)'
  BY WalkNext, PlacedNext, EventNext, FollowsNext, DoneRightNext
<1>4. Follows => file \in Files
  BY DEF Follows
<1> QED  BY <1>1, <1>2, <1>3, <1>4, PTL DEF Spec
==============================================================================
