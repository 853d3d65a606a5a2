--------------------------- MODULE ResampleProofs ---------------------------
(***************************************************************************)
(* The resampling loop is right for every list of changes, every clock and *)
(* every offset.                                                           *)
(***************************************************************************)
EXTENDS Resample, FiniteSetTheorems, TLAPS

Change == [at : Nat, value : Int]

Lists ==
  /\ changes \in Seq(Change) /\ changes # <<>> /\ Ascending(changes)
  /\ clock \in Seq(Change) /\ Ascending(clock)
  /\ samples \in Seq([value : Int, cycle : Nat, time : Nat])

\* Once the index has moved, the change it points at is due at every edge that
\* is still to come.
Passed == vidx > 1 => \A i \in cidx .. Len(clock) : changes[vidx].at <= clock[i].at

\* So far there is one sample for each sampling edge, in order.
SampledSoFar ==
  /\ Len(samples) = Cardinality(Edges(cidx - 1))
  /\ \A i \in Edges(cidx - 1) : samples[Cardinality(Edges(i))].time = clock[i].at

IInv == Lists /\ InBounds /\ Passed /\ SampledRight /\ SampledSoFar

-----------------------------------------------------------------------------
\* There is only one last change, so an index that is one is the one.
LEMMA LastAtIs ==
  ASSUME NEW list \in Seq(Change), NEW t \in Nat, NEW i \in 0 .. Len(list),
         IsLastAt(list, t, i)
  PROVE  LastAt(list, t) = i
<1>1. LastAt(list, t) \in 0 .. Len(list) /\ IsLastAt(list, t, LastAt(list, t))
  BY DEF LastAt
<1>2. ASSUME NEW j \in 0 .. Len(list), NEW k \in 0 .. Len(list), j < k,
             IsLastAt(list, t, j), IsLastAt(list, t, k)
      PROVE  FALSE
  <2>. Len(list) \in Nat
    OBVIOUS
  <2>0. k # 0 /\ k \in 1 .. Len(list) /\ k \in j + 1 .. Len(list)
    BY <1>2
  <2>1. list[k].at <= t /\ list[k].at > t
    BY <1>2, <2>0 DEF IsLastAt
  <2>2. list[k].at \in Nat
    <3>1. list[k] \in Change
      BY <2>0
    <3> QED  BY <3>1 DEF Change
  <2> QED  BY <2>1, <2>2
<1> QED  BY <1>1, <1>2

\* What the loop stores at an edge is the value held there.
LEMMA CurrentIsHeld ==
  ASSUME IInv, AtEdge, ~Due
  PROVE  /\ Current = Held(changes, clock[cidx].at)
         /\ Current \in Int /\ clock[cidx].at \in Nat
<1> DEFINE t == clock[cidx].at
<1>0. /\ vidx \in 1 .. Len(changes) /\ cidx \in 1 .. Len(clock) + 1 /\ cidx <= Len(clock)
      /\ changes \in Seq(Change) /\ clock \in Seq(Change) /\ Ascending(changes)
  BY DEF IInv, Lists, InBounds, AtEdge
<1>1. /\ vidx \in 1 .. Len(changes) /\ cidx \in 1 .. Len(clock) /\ changes \in Seq(Change)
      /\ clock[cidx] \in Change /\ Ascending(changes)
  BY <1>0
<1>2. t \in Nat /\ \A j \in 1 .. Len(changes) : changes[j].at \in Nat /\ changes[j].value \in Int
  <2>1. \A j \in 1 .. Len(changes) : changes[j] \in Change
    BY <1>1
  <2> QED  BY <1>1, <2>1 DEF Change
<1>3. \A j \in vidx + 1 .. Len(changes) : changes[j].at > t
  <2>1. CASE vidx = Len(changes)
    BY <1>1, <2>1
  <2>2. CASE vidx + 1 <= Len(changes)
    <3>1. changes[vidx + 1].at > t
      BY <1>1, <1>2, <2>2 DEF Due, TimeOf
    <3>2. \A j \in vidx + 1 .. Len(changes) : changes[vidx + 1].at <= changes[j].at
      BY <1>1, <1>2, <2>2 DEF Ascending
    <3> QED  BY <1>1, <1>2, <2>2, <3>1, <3>2
  <2> QED  BY <1>1, <2>1, <2>2
<1>4. CASE changes[vidx].at <= t
  <2>1. LastAt(changes, t) = vidx
    <3>1. IsLastAt(changes, t, vidx)
      BY <1>3, <1>4 DEF IsLastAt
    <3> QED  BY <1>1, <1>2, <3>1, LastAtIs
  <2> QED
    BY <1>1, <1>2, <1>4, <2>1 DEF Held, Current, TimeOf
<1>5. CASE changes[vidx].at > t
  <2>1. vidx = 1
    BY <1>1, <1>2, <1>5 DEF IInv, Passed
  <2>2. LastAt(changes, t) = 0
    <3>1. IsLastAt(changes, t, 0)
      BY <1>1, <1>2, <1>3, <1>5, <2>1 DEF IsLastAt
    <3> QED  BY <1>1, <1>2, <3>1, LastAtIs
  <2> QED
    BY <1>1, <1>2, <1>5, <2>2 DEF Held, Current, TimeOf
<1> QED  BY <1>1, <1>2, <1>4, <1>5

-----------------------------------------------------------------------------
\* Counting the sampling edges: one more change of the clock adds one of them when it
\* is one, and an edge is counted by the time the later ones are.
LEMMA EdgesGrow ==
  ASSUME NEW n \in Nat
  PROVE  /\ IsFiniteSet(Edges(n)) /\ Cardinality(Edges(n)) \in Nat
         /\ Cardinality(Edges(n + 1)) =
              Cardinality(Edges(n)) + (IF clock[n + 1].value = SampleValue THEN 1 ELSE 0)
         /\ \A i \in Edges(n) : Cardinality(Edges(i)) \in 1 .. Cardinality(Edges(n))
<1>1. \A m \in Nat : IsFiniteSet(Edges(m)) /\ Cardinality(Edges(m)) \in Nat
  <2> SUFFICES ASSUME NEW m \in Nat PROVE IsFiniteSet(Edges(m)) /\ Cardinality(Edges(m)) \in Nat
    OBVIOUS
  <2>1. IsFiniteSet(1 .. m) /\ Edges(m) \in SUBSET (1 .. m)
    BY FS_Interval DEF Edges
  <2>2. IsFiniteSet(Edges(m))
    BY <2>1, FS_Subset
  <2> QED  BY <2>2, FS_CardinalityType
<1>2. ASSUME NEW i \in Edges(n) PROVE Cardinality(Edges(i)) \in 1 .. Cardinality(Edges(n))
  <2>1. i \in Nat /\ Edges(i) \in SUBSET Edges(n) /\ i \in Edges(i)
    BY DEF Edges
  <2>2. Cardinality(Edges(i)) <= Cardinality(Edges(n))
    BY <1>1, <2>1, FS_Subset
  <2>3. Cardinality(Edges(i)) # 0
    BY <1>1, <2>1, FS_EmptySet
  <2> QED  BY <1>1, <2>1, <2>2, <2>3
<1>3. CASE clock[n + 1].value = SampleValue
  <2>1. Edges(n + 1) = Edges(n) \cup {n + 1} /\ n + 1 \notin Edges(n)
    BY <1>3 DEF Edges
  <2> HIDE DEF Edges
  <2>2. IsFiniteSet(Edges(n)) /\ Cardinality(Edges(n)) \in Nat
    BY <1>1
  <2>3. Cardinality(Edges(n) \cup {n + 1}) = Cardinality(Edges(n)) + 1
    BY <2>1, <2>2, FS_AddElement
  <2> QED  BY <1>1, <1>2, <1>3, <2>1, <2>2, <2>3
<1>4. CASE clock[n + 1].value # SampleValue
  <2>1. Edges(n + 1) = Edges(n)
    BY <1>4 DEF Edges
  <2> QED  BY <1>1, <1>2, <1>4, <2>1
<1> QED  BY <1>3, <1>4

LEMMA ResampleInit == Init => IInv
<1> SUFFICES ASSUME Init PROVE IInv
  OBVIOUS
<1>1. Edges(cidx - 1) = {}
  BY DEF Init, Edges
<1>2. SampledSoFar
  BY <1>1, FS_EmptySet DEF Init, SampledSoFar
<1> QED
  BY <1>2, ListAssumption DEF Init, IInv, Lists, InBounds, Passed, SampledRight, Change

LEMMA ResampleNext == IInv /\ [Next]_vars => IInv'
<1> SUFFICES ASSUME IInv, [Next]_vars PROVE IInv'
  OBVIOUS
<1>1. /\ vidx \in 1 .. Len(changes) /\ cidx \in 1 .. Len(clock) + 1 /\ Len(samples) < cidx
      /\ changes \in Seq(Change) /\ clock \in Seq(Change) /\ Ascending(clock)
      /\ samples \in Seq([value : Int, cycle : Nat, time : Nat])
  BY DEF IInv, Lists, InBounds
<1>2. \A i \in 1 .. Len(clock) : clock[i] \in Change /\ clock[i].at \in Nat
  <2> SUFFICES ASSUME NEW i \in 1 .. Len(clock) PROVE clock[i] \in Change /\ clock[i].at \in Nat
    OBVIOUS
  <2>1. clock[i] \in Change
    BY <1>1
  <2> QED  BY <2>1 DEF Change
<1>3. \A i \in 1 .. Len(changes) : changes[i] \in Change /\ changes[i].at \in Nat
  <2> SUFFICES ASSUME NEW i \in 1 .. Len(changes)
               PROVE  changes[i] \in Change /\ changes[i].at \in Nat
    OBVIOUS
  <2>1. changes[i] \in Change
    BY <1>1
  <2> QED  BY <2>1 DEF Change
<1>4. CASE Advance
  <2>1. vidx + 1 <= Len(changes) /\ changes[vidx + 1].at <= clock[cidx].at /\ cidx <= Len(clock)
    BY <1>4 DEF Advance, Due, AtEdge, TimeOf
  <2>2. \A i \in cidx .. Len(clock) : changes[vidx + 1].at <= clock[i].at
    <3> SUFFICES ASSUME NEW i \in cidx .. Len(clock) PROVE changes[vidx + 1].at <= clock[i].at
      OBVIOUS
    <3>1. clock[cidx].at <= clock[i].at
      <4>1. cidx \in 1 .. Len(clock) /\ i \in 1 .. Len(clock) /\ cidx <= i
        BY <1>1, <2>1
      <4>2. CASE i = cidx
        BY <1>2, <4>1, <4>2
      <4>3. CASE cidx < i
        BY <1>1, <4>1, <4>3 DEF Ascending
      <4> QED  BY <4>1, <4>2, <4>3
    <3> QED  BY <1>1, <1>2, <1>3, <2>1, <3>1
  <2>3. Passed'
    BY <1>4, <2>2 DEF Advance, Passed
  <2>4. SampledSoFar'
    BY <1>4 DEF Advance, IInv, SampledSoFar, Edges
  <2> QED
    BY <1>1, <1>4, <2>1, <2>3, <2>4 DEF Advance, IInv, Lists, InBounds, SampledRight
<1>5. CASE Sample
  <2> DEFINE s == [value |-> Current, cycle |-> ClockOffset + Len(samples), time |-> clock[cidx].at]
  <2>1. Current = Held(changes, clock[cidx].at) /\ Current \in Int /\ clock[cidx].at \in Nat
    BY <1>5, CurrentIsHeld DEF Sample
  <2>2. /\ samples' = Append(samples, s) /\ cidx' = cidx + 1 /\ cidx <= Len(clock)
        /\ changes' = changes /\ clock' = clock /\ vidx' = vidx
    BY <1>5 DEF Sample, AtEdge
  <2>3. s \in [value : Int, cycle : Nat, time : Nat]
    BY <1>1, <2>1, OffsetAssumption
  <2>4. /\ samples' \in Seq([value : Int, cycle : Nat, time : Nat])
        /\ Len(samples') = Len(samples) + 1
        /\ samples'[Len(samples) + 1] = s
        /\ \A k \in 1 .. Len(samples) : samples'[k] = samples[k]
    BY <1>1, <2>2, <2>3
  <2>5. SampledRight'
    <3> SUFFICES ASSUME NEW k \in 1 .. Len(samples')
                 PROVE  /\ samples'[k].value = Held(changes, samples'[k].time)
                        /\ samples'[k].cycle = ClockOffset + k - 1
      BY <2>2 DEF SampledRight
    <3>1. CASE k \in 1 .. Len(samples)
      BY <2>4, <3>1 DEF IInv, SampledRight
    <3>2. CASE k = Len(samples) + 1
      BY <1>1, <2>1, <2>4, <3>2, OffsetAssumption
    <3> QED  BY <1>1, <2>4, <3>1, <3>2
  <2>6. Passed'
    BY <1>1, <2>2 DEF IInv, Passed
  <2>7. InBounds' /\ Lists'
    BY <1>1, <2>2, <2>4 DEF IInv, InBounds, Lists
  <2>8. SampledSoFar'
    <3>1. /\ \A n : Edges(n)' = Edges(n)
          /\ cidx - 1 \in Nat /\ (cidx - 1) + 1 = cidx /\ cidx' - 1 = cidx
      BY <1>1, <2>2 DEF Edges
    <3>2. clock[cidx].value = SampleValue
      BY <1>5 DEF Sample, AtEdge
    <3>3. Cardinality(Edges(cidx)) = Len(samples) + 1
      BY <3>1, <3>2, EdgesGrow DEF IInv, SampledSoFar
    <3>4. ASSUME NEW i \in Edges(cidx) PROVE samples'[Cardinality(Edges(i))].time = clock[i].at
      <4>1. CASE i = cidx
        BY <2>4, <3>3, <4>1
      <4>2. CASE i # cidx
        <5>1. i \in Edges(cidx - 1)
          BY <1>1, <4>2 DEF Edges
        <5>2. Cardinality(Edges(i)) \in 1 .. Len(samples)
          BY <3>1, <5>1, EdgesGrow DEF IInv, SampledSoFar
        <5> QED  BY <2>4, <5>1, <5>2 DEF IInv, SampledSoFar
      <4> QED  BY <4>1, <4>2
    <3> QED  BY <2>2, <2>4, <3>1, <3>3, <3>4 DEF SampledSoFar
  <2> QED  BY <2>5, <2>6, <2>7, <2>8 DEF IInv
<1>6. CASE Skip
  <2>1. Passed'
    BY <1>1, <1>6 DEF Skip, IInv, Passed
  <2>2. SampledSoFar'
    <3>1. /\ \A n : Edges(n)' = Edges(n) /\ samples' = samples /\ clock' = clock
          /\ cidx' - 1 = cidx
      BY <1>1, <1>6 DEF Skip, Edges
    <3>2. Edges(cidx) = Edges(cidx - 1)
      BY <1>1, <1>6 DEF Skip, Edges
    <3> QED  BY <3>1, <3>2 DEF IInv, SampledSoFar
  <2> QED
    BY <1>1, <1>6, <2>1, <2>2 DEF Skip, IInv, Lists, InBounds, SampledRight
<1>7. CASE UNCHANGED vars
  BY <1>7 DEF vars, IInv, Lists, InBounds, Passed, SampledRight, SampledSoFar, Edges
<1> QED
  BY <1>4, <1>5, <1>6, <1>7 DEF Next

\* The loop reads and writes inside its arrays for every input: the compiled
\* module may leave out the bounds checks of value_change_to_value_array.
THEOREM ResampleInBounds == Spec => []InBounds
<1>1. IInv => InBounds
  BY DEF IInv
<1> QED  BY <1>1, ResampleInit, ResampleNext, PTL DEF Spec

\* Each sample of value_change_to_value_array is the value held at its edge,
\* numbered from the offset, for every list of changes and every clock.
THEOREM ResampleRight == Spec => []SampledRight
<1>1. IInv => SampledRight
  BY DEF IInv
<1> QED  BY <1>1, ResampleInit, ResampleNext, PTL DEF Spec

\* When value_change_to_value_array is through it has stored one sample for each
\* sampling edge of the clock, in their order.
THEOREM ResampleComplete == Spec => []AllSampled
<1>1. IInv => AllSampled
  <2> SUFFICES ASSUME IInv, cidx > Len(clock) PROVE AllSampled
    BY DEF AllSampled
  <2>1. cidx - 1 = Len(clock)
    BY DEF IInv, Lists, InBounds
  <2> QED  BY <2>1 DEF IInv, SampledSoFar, AllSampled
<1> QED  BY <1>1, ResampleInit, ResampleNext, PTL DEF Spec
=============================================================================
