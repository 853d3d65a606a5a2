--------------------------- MODULE WaveformProofs ---------------------------
(***************************************************************************)
(* The grid of a waveform through a session: whatever is computed, every   *)
(* value has its clock tick and its time.  A window cut by time, by cycle  *)
(* or by index is then the same window, and the run-length forms lose no   *)
(* value, for every waveform and operand.                                  *)
(***************************************************************************)
EXTENDS WaveformSession, SequenceTheorems, Lemmas

\* The columns of a waveform of n samples.
Columns(w, n) ==
  /\ n \in Nat
  /\ w.value = [i \in 1 .. n |-> w.value[i]]
  /\ w.clock \in [1 .. n -> Int] /\ w.time \in [1 .. n -> Int]

\* The array is of the kind that its width and its signedness choose.
Settled(w) == KindFor(w.width, w.signed, w.kind) = w.kind

OnGrid(w) == w = Failed \/ (Settled(w) /\ \E n \in Nat : Columns(w, n))

\* A function of the numbers up to n is a list of n items.
LEMMA ListLength ==
  ASSUME NEW n \in Nat, NEW f, f = [i \in 1 .. n |-> f[i]]
  PROVE  Len(f) = n /\ DOMAIN f = 1 .. n
<1> DEFINE S == {f[i] : i \in 1 .. n}
<1>1. \A i \in 1 .. n : f[i] \in S
  OBVIOUS
<1> HIDE DEF S
<1>3. f \in [1 .. n -> S]
  BY <1>1
<1>2. f \in Seq(S)
  BY <1>3
<1> QED  BY <1>3, <1>2, LenProperties

LEMMA ColumnLengths ==
  ASSUME NEW w, NEW n, Columns(w, n)
  PROVE  /\ n \in Nat
         /\ Len(w.value) = n /\ Len(w.clock) = n /\ Len(w.time) = n
         /\ DOMAIN w.value = 1 .. n /\ DOMAIN w.clock = 1 .. n /\ DOMAIN w.time = 1 .. n
<1>1. n \in Nat /\ w.value = [i \in 1 .. n |-> w.value[i]]
      /\ w.clock = [i \in 1 .. n |-> w.clock[i]] /\ w.time = [i \in 1 .. n |-> w.time[i]]
  BY DEF Columns
<1> QED  BY <1>1, ListLength

\* What the constructor makes of columns of one length is such a waveform again.
LEMMA NewColumns ==
  ASSUME NEW n \in Nat, NEW value, DOMAIN value = 1 .. n,
         NEW clock \in [1 .. n -> Int], NEW time \in [1 .. n -> Int],
         NEW kind, NEW width, NEW signed, NEW xz
  PROVE  OnGrid(New(value, kind, clock, time, width, signed, xz))
<1> DEFINE w == New(value, kind, clock, time, width, signed, xz)
           to == KindFor(width, signed, kind)
           made == [value |-> [i \in DOMAIN value |-> IF to = kind THEN value[i] ELSE Wrap(value[i], to)],
                    kind |-> to,
                    clock |-> clock, time |-> time, width |-> width, signed |-> signed, xz |-> xz]
<1>1. CASE w = Failed
  BY <1>1 DEF OnGrid
<1>2. CASE w # Failed
  <2>0. w = made
    BY <1>2, Zenon DEF New
  <2>1. /\ made.clock = clock /\ made.time = time
        /\ made.value = [i \in 1 .. n |-> IF to = kind THEN value[i] ELSE Wrap(value[i], to)]
    OBVIOUS
  <2>4. Settled(made)
    <3>1. made.kind = to /\ made.width = width /\ made.signed = signed
      OBVIOUS
    <3> HIDE DEF made
    <3>2. KindFor(width, signed, to) = to
      BY DEF KindFor
    <3> HIDE DEF to
    <3> QED  BY <3>1, <3>2 DEF Settled
  <2> HIDE DEF w, made, to
  <2>2. w.value = [i \in 1 .. n |-> w.value[i]]
    BY <2>0, <2>1
  <2>3. OnGrid(w)
    BY <2>0, <2>1, <2>2, <2>4 DEF OnGrid, Columns
  <2> QED  BY <2>3 DEF w
<1> QED  BY <1>1, <1>2

-----------------------------------------------------------------------------
(* Selecting samples.                                                       *)

LEMMA PickColumns ==
  ASSUME NEW w, NEW n, Columns(w, n), NEW m \in Nat, NEW positions \in [1 .. m -> 1 .. n]
  PROVE  OnGrid(Pick(w, positions))
<1> DEFINE at(column) == [k \in DOMAIN positions |-> column[positions[k]]]
           mask == IF w.xz = NoMask THEN NoMask ELSE at(w.xz)
<1>1. n \in Nat /\ w.clock \in [1 .. n -> Int] /\ w.time \in [1 .. n -> Int] /\ DOMAIN positions = 1 .. m
  BY DEF Columns
<1>2. DOMAIN at(w.value) = 1 .. m
  BY <1>1
<1>3. at(w.clock) \in [1 .. m -> Int] /\ at(w.time) \in [1 .. m -> Int]
  BY <1>1
<1>4. Pick(w, positions) = New(at(w.value), w.kind, at(w.clock), at(w.time), w.width, w.signed, mask)
  BY DEF Pick
<1> HIDE DEF at, mask
<1> QED  BY <1>2, <1>3, <1>4, NewColumns

LEMMA PositionsAscend ==
  ASSUME NEW w, NEW n, Columns(w, n), NEW kept
  PROVE  \E m \in Nat : Positions(w, kept) \in [1 .. m -> 1 .. n]
<1> DEFINE K == kept \intersect DOMAIN w.value
<1>1. n \in Nat /\ DOMAIN w.value = 1 .. n
  BY ColumnLengths
<1>2. K \subseteq 1 .. n /\ K \subseteq Int
  BY <1>1
<1>3. IsFiniteSet(1 .. n)
  BY <1>1, FS_Interval
<1> HIDE DEF K
<1>4. IsFiniteSet(K)
  BY <1>2, <1>3, FS_Subset
<1> DEFINE at == Ascends(K)
<1>5. /\ Cardinality(K) \in Nat /\ at = [p \in 1 .. Cardinality(K) |-> at[p]]
      /\ \A p \in 1 .. Cardinality(K) : at[p] \in K
  BY <1>2, <1>4, AscendsInOrder
<1>6. Positions(w, kept) = at
  BY DEF Positions, K
<1> HIDE DEF at
<1> QED  BY <1>2, <1>5, <1>6

LEMMA PickPositions ==
  ASSUME NEW w, OnGrid(w), w # Failed, NEW kept
  PROVE  OnGrid(Pick(w, Positions(w, kept)))
<1>1. PICK n \in Nat : Columns(w, n)
  BY DEF OnGrid
<1> QED  BY <1>1, PositionsAscend, PickColumns

LEMMA TakeColumns ==
  ASSUME NEW w, OnGrid(w), w # Failed, NEW m \in Nat, NEW indices, DOMAIN indices = 1 .. m
  PROVE  OnGrid(Take(w, indices))
<1>1. PICK n \in Nat : Columns(w, n)
  BY DEF OnGrid
<1>2. Len(w.value) = n
  BY <1>1, ColumnLengths
<1>3. CASE \A k \in 1 .. m : indices[k] \in -n .. n - 1
  <2> DEFINE place == [k \in DOMAIN indices |-> IF indices[k] < 0 THEN indices[k] + n + 1
                                                ELSE indices[k] + 1]
  <2>1. place \in [1 .. m -> 1 .. n]
    BY <1>3
  <2>2. Take(w, indices) = Pick(w, place)
    BY <1>2, <1>3 DEF Take
  <2> HIDE DEF place
  <2> QED  BY <1>1, <2>1, <2>2, PickColumns
<1>4. CASE ~ \A k \in 1 .. m : indices[k] \in -n .. n - 1
  <2>1. Take(w, indices) = Failed
    BY <1>2, <1>4 DEF Take
  <2> QED  BY <2>1 DEF OnGrid
<1> QED  BY <1>3, <1>4

LEMMA MaskColumns ==
  ASSUME NEW w, OnGrid(w), w # Failed, NEW keep
  PROVE  OnGrid(Mask(w, keep))
<1>1. CASE Len(keep) # Len(w.value)
  BY <1>1 DEF Mask, OnGrid
<1>2. CASE Len(keep) = Len(w.value)
  <2>1. Mask(w, keep) = Pick(w, Positions(w, {i \in DOMAIN keep : keep[i]}))
    BY <1>2 DEF Mask
  <2> QED  BY <2>1, PickPositions
<1> QED  BY <1>1, <1>2

LEMMA CutColumns ==
  ASSUME NEW w, OnGrid(w), w # Failed, NEW begin, NEW end
  PROVE  OnGrid(Cut(w, begin, end))
<1> DEFINE kept == Bound(begin, Len(w.value)) + 1 .. Bound(end, Len(w.value))
<1>1. Cut(w, begin, end) = Pick(w, Positions(w, kept))
  BY DEF Cut
<1> HIDE DEF kept
<1> QED  BY <1>1, PickPositions

\* The grid of a waveform with other values, as most operations make it.
LEMMA SameColumns ==
  ASSUME NEW w, OnGrid(w), w # Failed, NEW value, DOMAIN value = DOMAIN w.value,
         NEW kind, NEW width, NEW signed, NEW xz
  PROVE  OnGrid(New(value, kind, w.clock, w.time, width, signed, xz))
<1>1. PICK n \in Nat : Columns(w, n)
  BY DEF OnGrid
<1>2. DOMAIN value = 1 .. n /\ w.clock \in [1 .. n -> Int] /\ w.time \in [1 .. n -> Int]
  BY <1>1, ColumnLengths DEF Columns
<1> QED  BY <1>2, NewColumns

LEMMA CopyColumns ==
  ASSUME NEW w, OnGrid(w), w # Failed
  PROVE  OnGrid(Copy(w))
BY SameColumns DEF Copy

LEMMA MappedColumns ==
  ASSUME NEW w, OnGrid(w), w # Failed, NEW value, DOMAIN value = DOMAIN w.value,
         NEW kind, NEW width, NEW signed
  PROVE  OnGrid(Mapped(w, value, kind, width, signed))
BY SameColumns DEF Mapped

LEMMA CombinedColumns ==
  ASSUME NEW w, OnGrid(w), w # Failed, NEW o, NEW values, NEW kind, NEW width, NEW signed
  PROVE  OnGrid(Combined(w, o, values, kind, width, signed))
<1> DEFINE value == [i \in DOMAIN w.value |-> Wrap(values[i], kind)]
<1>1. DOMAIN value = DOMAIN w.value
  OBVIOUS
<1>2. Combined(w, o, values, kind, width, signed)
        = New(value, kind, w.clock, w.time, width, signed, MergedMask(w, o))
  BY DEF Combined
<1> HIDE DEF value
<1> QED  BY <1>1, <1>2, SameColumns

LEMMA BitsColumns ==
  ASSUME NEW w, OnGrid(w), w # Failed, NEW high, NEW low
  PROVE  OnGrid(Bits(w, high, low))
<1> DEFINE value == [i \in DOMAIN w.value |-> (w.value[i] \div 2 ^ low) % 2 ^ (high - low + 1)]
           made == New(value, w.kind, w.clock, w.time, high - low + 1, FALSE, w.xz)
<1>1. DOMAIN value = DOMAIN w.value
  OBVIOUS
<1> HIDE DEF value
<1>2. OnGrid(made)
  BY <1>1, SameColumns
<1>3. Bits(w, high, low) \in {Failed, made}
  BY Zenon DEF Bits, value
<1> QED  BY <1>2, <1>3 DEF OnGrid

-----------------------------------------------------------------------------
(* The operations.                                                          *)

LEMMA DivideColumns ==
  ASSUME NEW w, OnGrid(w), w # Failed, NEW o, NEW values, NEW reverse
  PROVE  OnGrid(Divide(w, o, values, reverse))
BY CombinedColumns DEF Divide, OnGrid

LEMMA ArithmeticColumns ==
  ASSUME NEW w, OnGrid(w), w # Failed, NEW o
  PROVE  /\ OnGrid(Add(w, o)) /\ OnGrid(Sub(w, o)) /\ OnGrid(ReverseSub(w, o)) /\ OnGrid(Mul(w, o))
         /\ OnGrid(FloorDiv(w, o)) /\ OnGrid(ReverseFloorDiv(w, o))
         /\ OnGrid(Mod(w, o)) /\ OnGrid(ReverseMod(w, o)) /\ OnGrid(Pow(w, o))
<1>1. OnGrid(Add(w, o))
  BY CombinedColumns DEF Add, OnGrid
<1>2. OnGrid(Sub(w, o))
  BY CombinedColumns DEF Sub, OnGrid
<1>3. OnGrid(ReverseSub(w, o))
  BY CombinedColumns, Zenon DEF ReverseSub, OnGrid
<1>4. OnGrid(Mul(w, o))
  BY CombinedColumns DEF Mul, OnGrid
<1>5. OnGrid(FloorDiv(w, o)) /\ OnGrid(ReverseFloorDiv(w, o))
  BY DivideColumns, Zenon DEF FloorDiv, ReverseFloorDiv
<1>6. OnGrid(Mod(w, o)) /\ OnGrid(ReverseMod(w, o))
  BY DivideColumns, Zenon DEF Mod, ReverseMod
<1>7. OnGrid(Pow(w, o))
  BY CombinedColumns, Zenon DEF Pow, OnGrid
<1> QED  BY <1>1, <1>2, <1>3, <1>4, <1>5, <1>6, <1>7

LEMMA LogicalColumns ==
  ASSUME NEW w, OnGrid(w), w # Failed, NEW o, NEW values
  PROVE  OnGrid(Logical(w, o, values)) /\ OnGrid(Compare(w, o, values))
<1>1. OnGrid(Logical(w, o, values))
  BY CombinedColumns DEF Logical, OnGrid
<1>2. OnGrid(Compare(w, o, values))
  BY CombinedColumns DEF Compare, OnGrid
<1> QED  BY <1>1, <1>2

LEMMA LogicColumns ==
  ASSUME NEW w, OnGrid(w), w # Failed, NEW o
  PROVE  /\ OnGrid(And(w, o)) /\ OnGrid(Or(w, o)) /\ OnGrid(Xor(w, o))
         /\ OnGrid(Eq(w, o)) /\ OnGrid(Ne(w, o)) /\ OnGrid(Invert(w))
<1>1. OnGrid(And(w, o)) /\ OnGrid(Or(w, o)) /\ OnGrid(Xor(w, o))
  BY LogicalColumns DEF And, Or, Xor
<1>2. OnGrid(Eq(w, o)) /\ OnGrid(Ne(w, o))
  BY LogicalColumns DEF Eq, Ne
<1>3. OnGrid(Invert(w))
  <2> DEFINE value == [i \in DOMAIN w.value |-> (-w.value[i] - 1) % 2 ^ w.width]
  <2>1. DOMAIN value = DOMAIN w.value
    OBVIOUS
  <2>2. Invert(w) \in {Failed, Mapped(w, value, w.kind, w.width, FALSE)}
    BY Zenon DEF Invert
  <2> HIDE DEF value
  <2> QED  BY <2>1, <2>2, MappedColumns DEF OnGrid
<1> QED  BY <1>1, <1>2, <1>3

LEMMA ShiftColumns ==
  ASSUME NEW w, OnGrid(w), w # Failed, NEW o
  PROVE  /\ OnGrid(Lshift(w, o)) /\ OnGrid(ReverseLshift(w, o))
         /\ OnGrid(Rshift(w, o)) /\ OnGrid(ReverseRshift(w, o))
<1>1. ASSUME NEW values, NEW reverse, NEW width, NEW kind
      PROVE  OnGrid(Shift(w, o, values, reverse, width, kind))
  <2>1. Shift(w, o, values, reverse, width, kind)
          \in {Failed, Combined(w, o, values, kind, width, w.signed)}
    BY Zenon DEF Shift
  <2> QED  BY <2>1, CombinedColumns DEF OnGrid
<1> QED  BY <1>1, Zenon DEF Lshift, ReverseLshift, Rshift, ReverseRshift

LEMMA FieldColumns ==
  ASSUME NEW w, OnGrid(w), w # Failed
  PROVE  OnGrid(AsSigned(w)) /\ OnGrid(AsUnsigned(w)) /\ OnGrid(BitCount(w))
<1>1. OnGrid(AsSigned(w))
  <2> DEFINE value == [i \in DOMAIN w.value |-> Signed(w, w.value[i])]
  <2>1. DOMAIN value = DOMAIN w.value
    OBVIOUS
  <2>2. \/ w.signed \/ (~w.signed /\ w.width = NoWidth)
        \/ (~w.signed /\ w.width # NoWidth)
    OBVIOUS
  <2>3. AsSigned(w) \in {Copy(w), Failed, Mapped(w, value, w.kind, NoWidth, TRUE)}
    BY <2>2, Zenon DEF AsSigned
  <2> HIDE DEF value
  <2> QED  BY <2>1, <2>3, CopyColumns, MappedColumns DEF OnGrid
<1>2. OnGrid(AsUnsigned(w))
  <2> DEFINE value == [i \in DOMAIN w.value |-> w.value[i] % 2 ^ w.width]
  <2>1. DOMAIN value = DOMAIN w.value
    OBVIOUS
  <2>3. AsUnsigned(w) \in {Copy(w), Failed, Mapped(w, value, w.kind, NoWidth, FALSE)}
    BY Zenon DEF AsUnsigned
  <2> HIDE DEF value
  <2> QED  BY <2>1, <2>3, CopyColumns, MappedColumns DEF OnGrid
<1>3. OnGrid(BitCount(w))
  <2> DEFINE count(v) == IF w.kind = "object"
                         THEN Ones(v, WordBits * ((w.width + WordBits - 1) \div WordBits))
                         ELSE Ones(IF v < 0 THEN -v ELSE v, WordBits)
             value == [i \in DOMAIN w.value |-> count(w.value[i])]
  <2>1. DOMAIN value = DOMAIN w.value
    OBVIOUS
  <2>2. BitCount(w) \in {Failed, Mapped(w, value, "uint", WordBits, FALSE)}
    BY Zenon DEF BitCount
  <2> HIDE DEF value
  <2> QED  BY <2>1, <2>2, MappedColumns DEF OnGrid
<1> QED  BY <1>1, <1>2, <1>3

LEMMA SplitColumns ==
  ASSUME NEW w, OnGrid(w), w # Failed, NEW parts, NEW k \in DOMAIN parts,
         \/ \E size, padding : parts = SplitBits(w, size, padding)
         \/ \E sizes : parts = SplitBitsList(w, sizes)
  PROVE  OnGrid(parts[k])
<1>1. parts = <<>> \/ \E groups : parts = SplitBy(w, groups)
  BY Zenon DEF SplitBits, SplitBitsList
<1>2. ASSUME NEW groups, parts = SplitBy(w, groups), parts # <<>>
      PROVE  parts = [p \in DOMAIN groups |-> Bits(w, groups[p].high, groups[p].low)]
  BY <1>2, Zenon DEF SplitBy
<1> QED  BY <1>1, <1>2, BitsColumns

LEMMA JoinColumns ==
  ASSUME NEW w, OnGrid(w), w # Failed, NEW o
  PROVE  /\ OnGrid(Concatenate(<<w, o>>))
         /\ \A merged, width, signed : OnGrid(Merge(<<w, o>>, merged, width, signed))
<1> DEFINE waves == <<w, o>>
<1>1. waves[1] = w
  OBVIOUS
<1> HIDE DEF waves
<1>2. OnGrid(Concatenate(waves))
  <2> DEFINE width == Total(Widths(waves))
             kind == IF width <= WordBits THEN "uint" ELSE "object"
             put(v, a) == BitByBit(v, a, EitherBit, Larger(BitLength(v), BitLength(a)))
             value == [i \in DOMAIN waves[1].value |->
                         FoldLeft(LAMBDA v, u : Wrap(put(v * 2 ^ u.width, u.value[i]), kind),
                                  0, Reverse(waves))]
             made == New(value, kind, waves[1].clock, waves[1].time, width, FALSE, AnyMask(waves))
  <2>1. DOMAIN value = DOMAIN waves[1].value
    OBVIOUS
  <2>2. Concatenate(waves) \in {Failed, made}
    BY Zenon DEF Concatenate
  <2> HIDE DEF value, kind, width
  <2>3. OnGrid(made)
    BY <1>1, <2>1, SameColumns
  <2> QED  BY <2>2, <2>3 DEF OnGrid
<1>3. ASSUME NEW merged, NEW width, NEW signed PROVE OnGrid(Merge(waves, merged, width, signed))
  <2> DEFINE value == [i \in DOMAIN waves[1].value |-> merged[i]]
             made == New(value, "object", waves[1].clock, waves[1].time, width, signed, AnyMask(waves))
  <2>1. DOMAIN value = DOMAIN waves[1].value
    OBVIOUS
  <2>2. Merge(waves, merged, width, signed) \in {Failed, made}
    BY Zenon DEF Merge
  <2> HIDE DEF value
  <2>3. OnGrid(made)
    BY <1>1, <2>1, SameColumns
  <2> QED  BY <2>2, <2>3 DEF OnGrid
<1> QED  BY <1>2, <1>3 DEF waves

LEMMA SelectionColumns ==
  ASSUME NEW w, OnGrid(w), w # Failed
  PROVE  /\ OnGrid(DropXz(w)) /\ OnGrid(UniqueConsecutive(w)) /\ OnGrid(Compress(w))
         /\ \A accepted : OnGrid(VectorizedFilter(w, accepted)) /\ OnGrid(Filter(w, accepted))
         /\ \A o : OnGrid(MaskBy(w, o))
<1>1. OnGrid(DropXz(w))
  BY CopyColumns, MaskColumns DEF DropXz
<1>2. OnGrid(UniqueConsecutive(w)) /\ OnGrid(Compress(w))
  BY PickPositions DEF UniqueConsecutive, Compress
<1>3. ASSUME NEW accepted
      PROVE  OnGrid(VectorizedFilter(w, accepted)) /\ OnGrid(Filter(w, accepted))
  BY MaskColumns DEF VectorizedFilter, Filter, OnGrid
<1>4. ASSUME NEW o PROVE OnGrid(MaskBy(w, o))
  BY MaskColumns DEF MaskBy, OnGrid
<1> QED  BY <1>1, <1>2, <1>3, <1>4

LEMMA WindowColumns ==
  ASSUME NEW w, OnGrid(w), w # Failed, NEW begin, NEW end, NEW includeEnd
  PROVE  /\ OnGrid(TimeSlice(w, begin, end, includeEnd)) /\ OnGrid(CycleSlice(w, begin, end, includeEnd))
         /\ OnGrid(Slice(w, begin, end, includeEnd))
<1>1. ASSUME NEW column PROVE OnGrid(SliceOn(w, column, begin, end, includeEnd))
  BY CopyColumns, CutColumns DEF SliceOn
<1> QED  BY <1>1, CutColumns DEF TimeSlice, CycleSlice, Slice

LEMMA MotionColumns ==
  ASSUME NEW w, OnGrid(w), w # Failed
  PROVE  /\ OnGrid(RisingEdge(w)) /\ OnGrid(FallingEdge(w))
         /\ \A n, pad : OnGrid(Ahead(w, n, pad)) /\ OnGrid(Back(w, n, pad))
<1>1. ASSUME NEW before, NEW after PROVE OnGrid(Edge(w, before, after))
  <2> DEFINE value == [i \in DOMAIN w.value |->
                IF i > 1 /\ w.value[i - 1] = before /\ w.value[i] = after THEN 1 ELSE 0]
             mask == IF w.xz = NoMask THEN NoMask
                     ELSE [i \in DOMAIN w.value |-> i > 1 /\ (w.xz[i - 1] \/ w.xz[i])]
             made == New(value, "uint", w.clock, w.time, 1, FALSE, mask)
  <2>1. DOMAIN value = DOMAIN w.value
    OBVIOUS
  <2>2. Edge(w, before, after) \in {Failed, made}
    BY Zenon DEF Edge
  <2> HIDE DEF value, mask
  <2>3. OnGrid(made)
    BY <2>1, SameColumns
  <2> QED  BY <2>2, <2>3 DEF OnGrid
<1>2. ASSUME NEW offset, NEW pad PROVE OnGrid(Relative(w, offset, pad))
  <2> DEFINE shift(column, other) ==
               Shifted(column, offset, IF pad = Repeat THEN column[1] ELSE other,
                                       IF pad = Repeat THEN Last(column) ELSE other)
             value == shift(w.value, IF pad = Repeat THEN pad ELSE Wrap(pad, w.kind))
             mask == IF w.xz = NoMask THEN NoMask ELSE shift(w.xz, FALSE)
             made == New(value, w.kind, w.clock, w.time, w.width, w.signed, mask)
  <2>1. DOMAIN value = DOMAIN w.value
    BY DEF Shifted
  <2>2. Relative(w, offset, pad) \in {Copy(w), made}
    BY Zenon DEF Relative
  <2> HIDE DEF value, mask
  <2>3. OnGrid(made)
    BY <2>1, SameColumns
  <2> QED  BY <2>2, <2>3, CopyColumns
<1> QED  BY <1>1, <1>2 DEF RisingEdge, FallingEdge, Ahead, Back

\* The sum of integers is the last of the partial sums, each an integer.
LEMMA TotalIsInt ==
  ASSUME NEW column, NEW N \in Nat, Len(column) = N, \A i \in 1 .. N : column[i] \in Int
  PROVE  Total(column) \in Int
<1> DEFINE Equation(f) == f = [k \in 0 .. N |-> IF k = 0 THEN 0 ELSE f[k - 1] + column[k]]
           sum == CHOOSE f : Equation(f)
           step == [n \in 1 .. N |-> [v \in Int |-> v + column[n]]]
<1>1. Total(column) = sum[N]
  BY DEF Total
<1>2. /\ step \in [1 .. N -> [Int -> Int]]
      /\ \A n \in 1 .. N : \A v \in Int : step[n][v] = v + column[n]
  OBVIOUS
<1> HIDE DEF step
<1>3. PICK f \in [0 .. N -> Int] : f[0] = 0 /\ \A n \in 1 .. N : f[n] = step[n][f[n - 1]]
  <2> DEFINE Z == Int
             none == 0
  <2>1. none \in Z /\ step \in [1 .. N -> [Z -> Z]]
    BY <1>2
  <2> HIDE DEF Z, none
  <2>2. \E f \in [0 .. N -> Z] : f[0] = none /\ \A n \in 1 .. N : f[n] = step[n][f[n - 1]]
    BY <2>1, Iteration
  <2> QED  BY <2>2 DEF Z, none
<1>4. Equation(f)
  <2>1. \A n \in 1 .. N : n - 1 \in 0 .. N /\ f[n - 1] \in Int
    BY <1>3
  <2>2. \A n \in 1 .. N : f[n] = f[n - 1] + column[n]
    BY <1>2, <1>3, <2>1
  <2> QED  BY <1>3, <2>2
<1>5. Equation(sum)
  BY <1>4
<1> HIDE DEF sum
<1>6. sum[0] = 0 /\ \A n \in 1 .. N : sum[n] = sum[n - 1] + column[n]
  BY <1>5
<1>7. \A n \in 1 .. N : sum[n - 1] \in Int => sum[n] \in Int
  BY <1>6
<1>8. \A n \in 0 .. N : sum[n] \in Int
  <2> DEFINE Z == Int
  <2>1. sum[0] \in Z /\ \A n \in 1 .. N : sum[n - 1] \in Z => sum[n] \in Z
    BY <1>6, <1>7
  <2> HIDE DEF Z
  <2>2. \A n \in 0 .. N : sum[n] \in Z
    BY <2>1, IterationStays
  <2> QED  BY <2>2 DEF Z
<1> QED  BY <1>1, <1>8

\* No chunk is empty.
LEMMA ChunkIsFull ==
  ASSUME NEW n \in Nat, NEW size \in Int, size > 0, NEW k \in 1 .. (n + size - 1) \div size
  PROVE  /\ (k - 1) * size + 1 \in 1 .. n /\ Smaller(k * size, n) \in 1 .. n
         /\ (k - 1) * size + 1 <= Smaller(k * size, n)
<1> DEFINE m == (n + size - 1) \div size
<1>1. m \in Int /\ size * m <= n + size - 1
  OBVIOUS
<1> HIDE DEF m
<1>2. k \in Int /\ 1 <= k /\ k <= m
  BY <1>1 DEF m
<1>3. (m - k) * size >= 0 /\ (k - 1) * size >= 0 /\ k * size \in Int
  BY <1>1, <1>2
<1>4. (k - 1) * size = k * size - size /\ (m - k) * size = size * m - k * size
  BY <1>1, <1>2
<1>5. k * size - size + 1 <= n /\ k * size - size >= 0
  BY <1>1, <1>3, <1>4
<1> QED  BY <1>3, <1>4, <1>5 DEF Smaller

\* The mean of a chunk of integers is one.
LEMMA ChunkMeans ==
  ASSUME NEW n \in Nat, NEW column \in [1 .. n -> Int], NEW size \in Int, size > 0
  PROVE  [k \in DOMAIN Chunks(column, size) |-> Mean(Chunks(column, size)[k])]
           \in [1 .. (n + size - 1) \div size -> Int]
<1> DEFINE m == (n + size - 1) \div size
           First(k) == (k - 1) * size + 1
           Final(k) == Smaller(k * size, n)
<1>1. Len(column) = n
  <2>1. column = [i \in 1 .. n |-> column[i]]
    OBVIOUS
  <2> QED  BY <2>1, ListLength
<1>2. Chunks(column, size) = [k \in 1 .. m |-> SubSeq(column, First(k), Final(k))]
  BY <1>1 DEF Chunks
<1>3. ASSUME NEW k \in 1 .. m PROVE Mean(SubSeq(column, First(k), Final(k))) \in Int
  <2> DEFINE chunk == SubSeq(column, First(k), Final(k))
  <2>1. First(k) \in 1 .. n /\ Final(k) \in 1 .. n /\ First(k) <= Final(k)
    BY ChunkIsFull
  <2> HIDE DEF First, Final, m
  <2>2. First(k) \in Int /\ Final(k) \in Int /\ \A i \in First(k) .. Final(k) : column[i] \in Int
    BY <2>1
  <2>3. chunk \in Seq(Int) /\ Len(chunk) = IF First(k) <= Final(k) THEN Final(k) - First(k) + 1 ELSE 0
    BY <2>2, SubSeqProperties
  <2> HIDE DEF chunk
  <2>4. Len(chunk) \in Nat \ {0}
    BY <2>1, <2>3
  <2>5. \A i \in 1 .. Len(chunk) : chunk[i] \in Int
    BY <2>3, ElementOfSeq
  <2>6. Total(chunk) \in Int
    BY <2>4, <2>5, TotalIsInt
  <2>7. Mean(chunk) \in Int
    BY <2>4, <2>6 DEF Mean
  <2> QED  BY <2>7 DEF chunk
<1> HIDE DEF m, First, Final
<1>4. [k \in DOMAIN Chunks(column, size) |-> Mean(Chunks(column, size)[k])]
        = [k \in 1 .. m |-> Mean(SubSeq(column, First(k), Final(k)))]
  BY <1>2
<1>5. [k \in DOMAIN Chunks(column, size) |-> Mean(Chunks(column, size)[k])] \in [1 .. m -> Int]
  BY <1>3, <1>4
<1> QED  BY <1>5 DEF m

LEMMA DownsampleColumns ==
  ASSUME NEW w, OnGrid(w), w # Failed, NEW size \in Int, NEW func
  PROVE  OnGrid(Downsample(w, size, func))
<1>1. CASE size <= 0
  BY <1>1, Zenon DEF Downsample, OnGrid
<1>2. CASE size > 0
  <2>1. PICK n \in Nat : Columns(w, n)
    BY DEF OnGrid
  <2> DEFINE m == (n + size - 1) \div size
             over(column, F(_)) == [k \in DOMAIN Chunks(column, size) |-> F(Chunks(column, size)[k])]
             value == IF func = "mean" THEN over(w.value, Mean)
                      ELSE over(w.value, LAMBDA c : Max(ToSet(c)))
             mask == IF w.xz = NoMask THEN NoMask ELSE over(w.xz, LAMBDA c : TRUE \in ToSet(c))
             kind == IF func = "mean" THEN "float"
                     ELSE IF w.kind = "object" \/ value = <<>> THEN ListKind(value) ELSE w.kind
             clock == over(w.clock, Mean)
             time == over(w.time, Mean)
  <2>2. Len(w.value) = n /\ w.clock \in [1 .. n -> Int] /\ w.time \in [1 .. n -> Int]
    BY <2>1, ColumnLengths DEF Columns
  <2>3. clock \in [1 .. m -> Int] /\ time \in [1 .. m -> Int]
    BY <1>2, <2>2, ChunkMeans
  <2>4. DOMAIN Chunks(w.value, size) = 1 .. m
    BY <2>2 DEF Chunks
  <2>5. DOMAIN value = 1 .. m
    BY <2>4
  <2>6. m \in Nat
    BY <1>2
  <2>7. Downsample(w, size, func) = New(value, kind, clock, time, NoWidth, w.signed, mask)
    BY <1>2 DEF Downsample
  <2> HIDE DEF m, value, mask, kind, clock, time
  <2> QED  BY <2>3, <2>5, <2>6, <2>7, NewColumns
<1> QED  BY <1>1, <1>2

-----------------------------------------------------------------------------
(* Through a session.                                                       *)

LEMMA LoadedColumns ==
  ASSUME NEW p \in Loaded \union Operands
  PROVE  OnGrid(p[1])
BY SessionAssumption DEF LoadedOnGrid, OnGrid, Columns, Settled

LEMMA InitOnGrid == Init => OnGrid(wave)
<1> SUFFICES ASSUME Init PROVE OnGrid(wave)
  OBVIOUS
<1>1. CASE \E p \in Loaded : wave = p[1]
  BY <1>1, LoadedColumns
<1>2. CASE wave = Failed
  BY <1>2 DEF OnGrid
<1> QED  BY <1>1, <1>2 DEF Init

LEMMA BinaryStep ==
  ASSUME OnGrid(wave), wave # Failed, Arithmetic \/ Logic \/ Shifts
  PROVE  OnGrid(wave')
<1>1. CASE Arithmetic
  BY <1>1, ArithmeticColumns, Zenon DEF Arithmetic, Binary, Become
<1>2. CASE Logic
  BY <1>2, LogicColumns, Zenon DEF Logic, Binary, Unary, Become
<1>3. CASE Shifts
  BY <1>3, ShiftColumns, Zenon DEF Shifts, Binary, Become
<1> QED  BY <1>1, <1>2, <1>3

LEMMA FieldStep ==
  ASSUME OnGrid(wave), wave # Failed, Fields
  PROVE  OnGrid(wave')
<1>1. CASE Unary(AsSigned, {}) \/ Unary(AsUnsigned, {}) \/ Unary(BitCount, {})
  BY <1>1, FieldColumns DEF Unary, Become
<1>2. CASE \E high, low \in 0 .. 2 : Unary(LAMBDA w : Bits(w, high, low), {})
  BY <1>2, BitsColumns, Zenon DEF Unary, Become
<1>3. CASE \E size \in Shape.sizes, padding \in BOOLEAN :
             \E k \in DOMAIN SplitBits(wave, size, padding) :
               Unary(LAMBDA w : SplitBits(w, size, padding)[k], {})
  <2>1. PICK size \in Shape.sizes, padding \in BOOLEAN :
               \E k \in DOMAIN SplitBits(wave, size, padding) : wave' = SplitBits(wave, size, padding)[k]
    BY <1>3, Zenon DEF Unary, Become
  <2> QED  BY <2>1, SplitColumns
<1>4. CASE \E sizes \in Shape.lists : \E k \in DOMAIN SplitBitsList(wave, sizes) :
             Unary(LAMBDA w : SplitBitsList(w, sizes)[k], {})
  <2>1. PICK sizes \in Shape.lists :
               \E k \in DOMAIN SplitBitsList(wave, sizes) : wave' = SplitBitsList(wave, sizes)[k]
    BY <1>4, Zenon DEF Unary, Become
  <2> QED  BY <2>1, SplitColumns
<1>5. CASE Binary(LAMBDA w, o : Concatenate(<<w, o>>), Operands, {})
  <2>1. PICK o \in Operands : wave' = Concatenate(<<wave, o[1]>>)
    BY <1>5, Zenon DEF Binary, Become
  <2> QED  BY <2>1, JoinColumns
<1>6. CASE Binary(LAMBDA w, o : Merge(<<w, o>>, Each(w, o, Larger), WordBits + 1, TRUE),
                  Operands, {"wild"})
  <2>1. PICK o \in Operands :
          wave' = Merge(<<wave, o[1]>>, Each(wave, o[1], Larger), WordBits + 1, TRUE)
    BY <1>6, Zenon DEF Binary, Become
  <2> QED  BY <2>1, JoinColumns
<1> QED  BY <1>1, <1>2, <1>3, <1>4, <1>5, <1>6, Zenon DEF Fields

LEMMA SelectionStep ==
  ASSUME OnGrid(wave), wave # Failed, Selection
  PROVE  OnGrid(wave')
<1>1. CASE Unary(Copy, {}) \/ Unary(DropXz, {})
           \/ Unary(UniqueConsecutive, {"raw"}) \/ Unary(Compress, {"raw"})
  BY <1>1, CopyColumns, SelectionColumns DEF Unary, Become
<1>2. CASE \E keep \in Shape.keeps : Unary(LAMBDA w : Mask(w, keep), {})
  BY <1>2, MaskColumns, Zenon DEF Unary, Become
<1>3. CASE \E o \in Operands : wave # Failed /\ Become(MaskBy(wave, o[1]), MaskBy(twin, o[2]), {})
  BY <1>3, SelectionColumns DEF Become
<1>4. CASE \/ Unary(LAMBDA w : VectorizedFilter(w, {v \in ToSet(w.value) : v # 0}), {"raw"})
           \/ Unary(LAMBDA w : Filter(w, {v \in ToSet(w.value) : v > 1}), {"raw"})
  BY <1>4, SelectionColumns, Zenon DEF Unary, Become
<1>5. CASE \E indices \in Shape.indices : Unary(LAMBDA w : Take(w, indices), {})
  <2>1. PICK indices \in Shape.indices : wave' = Take(wave, indices)
    BY <1>5, Zenon DEF Unary, Become
  <2>2. Len(indices) \in Nat /\ DOMAIN indices = 1 .. Len(indices)
    BY SessionAssumption, LenProperties
  <2> QED  BY <2>1, <2>2, TakeColumns
<1>6. CASE \E o \in Operands : wave # Failed /\ Become(TakeBy(wave, o[1]), TakeBy(twin, o[2]), {"raw"})
  <2>1. PICK o \in Operands : wave' = TakeBy(wave, o[1])
    BY <1>6 DEF Become
  <2>2. o[1] = Failed \/ \E m \in Nat : DOMAIN o[1].value = 1 .. m
    BY LoadedColumns, ColumnLengths DEF OnGrid
  <2>3. CASE wave' = Failed
    BY <2>3 DEF OnGrid
  <2>4. CASE wave' # Failed
    <3> DEFINE indices == [k \in DOMAIN o[1].value |-> Wrap(o[1].value[k], "int")]
    <3>1. o[1].kind \in {"int", "uint"} /\ wave' = Take(wave, indices)
      BY <2>1, <2>4 DEF TakeBy
    <3>2. o[1] # Failed
      BY <3>1 DEF Failed
    <3>3. DOMAIN indices = DOMAIN o[1].value
      OBVIOUS
    <3> HIDE DEF indices
    <3> QED  BY <2>2, <3>1, <3>2, <3>3, TakeColumns
  <2> QED  BY <2>3, <2>4
<1>7. CASE \E size \in Shape.sizes, func \in {"mean", "max"} :
             Unary(LAMBDA w : Downsample(w, size, func), RetypedTags(func))
  <2>1. PICK size \in Shape.sizes, func \in {"mean", "max"} : wave' = Downsample(wave, size, func)
    BY <1>7, Zenon DEF Unary, Become
  <2> QED  BY <2>1, SessionAssumption, DownsampleColumns
<1> QED  BY <1>1, <1>2, <1>3, <1>4, <1>5, <1>6, <1>7, Zenon DEF Selection

LEMMA TimeStep ==
  ASSUME OnGrid(wave), wave # Failed, Windows \/ Motion
  PROVE  OnGrid(wave')
<1>1. CASE Windows
  <2>1. PICK i, j \in DOMAIN wave.time, includeEnd \in BOOLEAN :
          \/ wave' = TimeSlice(wave, wave.time[i], wave.time[j], includeEnd)
          \/ wave' = CycleSlice(wave, wave.clock[i], wave.clock[j], includeEnd)
          \/ wave' = Slice(wave, i - 2, j - 2, includeEnd)
    BY <1>1, Zenon DEF Windows, Unary, Become
  <2> QED  BY <2>1, WindowColumns
<1>2. CASE Motion
  BY <1>2, MotionColumns, Zenon DEF Motion, Unary, Become
<1> QED  BY <1>1, <1>2

LEMMA NextOnGrid ==
  ASSUME OnGrid(wave), [Next]_vars
  PROVE  OnGrid(wave')
<1>1. CASE Rows \/ UNCHANGED vars
  BY <1>1 DEF Rows, vars
<1>2. CASE Arithmetic \/ Logic \/ Shifts \/ Fields \/ Selection \/ Windows \/ Motion
  <2>1. wave # Failed
    BY <1>2, Zenon DEF Arithmetic, Logic, Shifts, Fields, Selection, Windows, Motion, Unary, Binary, Become
  <2> QED  BY <1>2, <2>1, BinaryStep, FieldStep, SelectionStep, TimeStep
<1> QED  BY <1>1, <1>2 DEF Next

\* Whatever operations a session has been through, its waveform has one clock tick
\* and one time for every value.
THEOREM EverySampleOnGrid == Spec => []OnGrid(wave)
<1>1. OnGrid(wave) /\ [Next]_vars => OnGrid(wave)'
  BY NextOnGrid
<1> QED  BY InitOnGrid, <1>1, PTL DEF Spec

-----------------------------------------------------------------------------
(* Windows.                                                                 *)

\* Ascending neighbours make an ascending column.
LEMMA AscendingPairs ==
  ASSUME NEW n \in Nat, NEW column \in [1 .. n -> Int], Ascending(column)
  PROVE  \A i, j \in 1 .. n : i < j => column[i] < column[j]
<1>1. \A i \in 2 .. n : column[i - 1] < column[i]
  <2>1. column = [i \in 1 .. n |-> column[i]]
    OBVIOUS
  <2>2. Len(column) = n
    BY <2>1, ListLength
  <2> QED  BY <2>2 DEF Ascending
<1> DEFINE Reach == {d \in Nat : \A i \in 1 .. n : i + d + 1 <= n => column[i] < column[i + d + 1]}
<1>2. 0 \in Reach
  <2>1. ASSUME NEW i \in 1 .. n, i + 0 + 1 <= n PROVE column[i] < column[i + 0 + 1]
    <3>1. i + 1 \in 2 .. n /\ (i + 1) - 1 = i /\ i + 0 + 1 = i + 1
      BY <2>1
    <3>2. column[(i + 1) - 1] < column[i + 1]
      BY <1>1, <3>1
    <3> QED  BY <3>1, <3>2
  <2> QED  BY <2>1
<1>3. ASSUME NEW d \in Nat, d \in Reach PROVE d + 1 \in Reach
  <2>1. ASSUME NEW i \in 1 .. n, i + (d + 1) + 1 <= n PROVE column[i] < column[i + (d + 1) + 1]
    <3> DEFINE k == i + d + 1
    <3>1. k \in 1 .. n /\ k + 1 \in 2 .. n /\ (k + 1) - 1 = k /\ i + (d + 1) + 1 = k + 1 /\ k <= n
      BY <2>1
    <3>2. column[i] < column[k]
      BY <1>3, <3>1
    <3> HIDE DEF k
    <3>3. column[(k + 1) - 1] < column[k + 1]
      BY <1>1, <3>1
    <3>4. column[k + 1] \in Int /\ column[k] \in Int /\ column[i] \in Int /\ column[k] < column[k + 1]
      BY <3>1, <3>3
    <3> QED  BY <3>1, <3>2, <3>4
  <2> QED  BY <2>1
<1> HIDE DEF Reach
<1>4. \A d \in Nat : d \in Reach
  BY <1>2, <1>3, NatSetInduction
<1>5. ASSUME NEW i \in 1 .. n, NEW j \in 1 .. n, i < j PROVE column[i] < column[j]
  <2>1. j - i - 1 \in Nat /\ i + (j - i - 1) + 1 = j /\ i + (j - i - 1) + 1 <= n
    BY <1>5
  <2>2. j - i - 1 \in Reach
    BY <1>4, <2>1
  <2>3. column[i] < column[i + (j - i - 1) + 1]
    BY <2>1, <2>2 DEF Reach
  <2> QED  BY <2>1, <2>3
<1> QED  BY <1>5

\* A binary search for the value of a sample finds the sample.
LEMMA Searched ==
  ASSUME NEW n \in Nat, NEW column \in [1 .. n -> Int], Ascending(column), NEW i \in 1 .. n
  PROVE  Below(column, column[i]) = i - 1 /\ UpTo(column, column[i]) = i
<1>1. \A k, l \in 1 .. n : k < l => column[k] < column[l]
  BY AscendingPairs
<1>2. {k \in DOMAIN column : column[k] < column[i]} = 1 .. i - 1
  <2>1. ASSUME NEW k \in 1 .. n PROVE column[k] < column[i] <=> k \in 1 .. i - 1
    BY <1>1
  <2> QED  BY <2>1
<1>3. {k \in DOMAIN column : column[k] <= column[i]} = 1 .. i
  <2>1. ASSUME NEW k \in 1 .. n PROVE column[k] <= column[i] <=> k \in 1 .. i
    BY <1>1
  <2> QED  BY <2>1
<1>4. Cardinality(1 .. i - 1) = i - 1 /\ Cardinality(1 .. i) = i
  BY FS_Interval
<1> QED  BY <1>2, <1>3, <1>4 DEF Below, UpTo

\* Cutting by a column from one sample to another is cutting by their indices.
LEMMA CutByColumns ==
  ASSUME NEW w, NEW n, Columns(w, n), Ascending(w.time), Ascending(w.clock),
         NEW i \in 1 .. n, NEW j \in 1 .. n, NEW includeEnd
  PROVE  /\ TimeSlice(w, w.time[i], w.time[j], includeEnd) = Slice(w, i - 1, j - 1, includeEnd)
         /\ CycleSlice(w, w.clock[i], w.clock[j], includeEnd) = Slice(w, i - 1, j - 1, includeEnd)
<1> DEFINE time == w.time
           clock == w.clock
<1>1. n \in Nat /\ time \in [1 .. n -> Int] /\ clock \in [1 .. n -> Int]
  BY DEF Columns
<1>2. Ascending(time) /\ Ascending(clock)
  OBVIOUS
<1> HIDE DEF time, clock
<1>3. w.value # <<>> /\ (j - 1) + 1 = j
  <2>1. DOMAIN <<>> = {}
    OBVIOUS
  <2> QED  BY <2>1, ColumnLengths
<1>4. Below(time, time[i]) = i - 1 /\ Below(time, time[j]) = j - 1 /\ UpTo(time, time[j]) = j
  BY <1>1, <1>2, Searched
<1>5. Below(clock, clock[i]) = i - 1 /\ Below(clock, clock[j]) = j - 1 /\ UpTo(clock, clock[j]) = j
  BY <1>1, <1>2, Searched
<1>6. TimeSlice(w, time[i], time[j], includeEnd) = Slice(w, i - 1, j - 1, includeEnd)
  BY <1>3, <1>4 DEF TimeSlice, SliceOn, Slice, time
<1>7. CycleSlice(w, clock[i], clock[j], includeEnd) = Slice(w, i - 1, j - 1, includeEnd)
  BY <1>3, <1>5 DEF CycleSlice, SliceOn, Slice, clock
<1> QED  BY <1>6, <1>7 DEF time, clock

\* For every waveform of every session, a window given by two times, by two clock
\* cycles or by two indices is the same window, with and without its end
\* (time_slice, cycle_slice and slice).
THEOREM WindowsAgree == Spec => []SlicesAgree
<1>1. OnGrid(wave) => SlicesAgree
  <2> SUFFICES ASSUME OnGrid(wave), wave # Failed, Ascending(wave.time), Ascending(wave.clock),
                      NEW i \in DOMAIN wave.time, NEW j \in DOMAIN wave.time,
                      NEW includeEnd \in BOOLEAN
               PROVE  /\ TimeSlice(wave, wave.time[i], wave.time[j], includeEnd)
                            = Slice(wave, i - 1, j - 1, includeEnd)
                      /\ CycleSlice(wave, wave.clock[i], wave.clock[j], includeEnd)
                            = Slice(wave, i - 1, j - 1, includeEnd)
    BY DEF SlicesAgree
  <2>1. PICK n \in Nat : Columns(wave, n)
    BY DEF OnGrid
  <2>2. i \in 1 .. n /\ j \in 1 .. n
    BY <2>1 DEF Columns
  <2> QED  BY <2>1, <2>2, CutByColumns
<1> QED  BY EverySampleOnGrid, <1>1, PTL

-----------------------------------------------------------------------------
(* Runs of equal values: what compress and unique_consecutive keep.         *)

\* A selection of m samples out of a waveform, as the list of their places.
Picks(of, w, m, at) ==
  /\ Len(of.value) = m /\ of.clock \in [1 .. m -> Int]
  /\ \A p \in 1 .. m : of.value[p] = w.value[at[p]] /\ of.clock[p] = w.clock[at[p]]

\* What a selection of an array's samples is.
LEMMA PickShape ==
  ASSUME NEW w, NEW n, NEW m, NEW at,
         Columns(w, n), Settled(w), m \in Nat, at \in [1 .. m -> 1 .. n]
  PROVE  Picks(Pick(w, at), w, m, at)
<1> DEFINE of(column) == [k \in DOMAIN at |-> column[at[k]]]
           xz == IF w.xz = NoMask THEN NoMask ELSE of(w.xz)
           value == of(w.value)
           clock == of(w.clock)
           time == of(w.time)
           made == [value |-> [i \in DOMAIN value |-> IF w.kind = w.kind THEN value[i] ELSE Wrap(value[i], w.kind)],
                    kind |-> w.kind, clock |-> clock, time |-> time, width |-> w.width,
                    signed |-> w.signed, xz |-> xz]
<1>1. Pick(w, at) = New(value, w.kind, clock, time, w.width, w.signed, xz)
  BY DEF Pick
<1>2. DOMAIN at = 1 .. m
  OBVIOUS
<1>3. /\ value = [k \in 1 .. m |-> w.value[at[k]]]
      /\ clock = [k \in 1 .. m |-> w.clock[at[k]]]
  BY <1>2
<1> HIDE DEF xz, clock, time, value
<1>4. \A v : Wrap(v, "object") = v
  BY DEF Wrap
<1>5. New(value, w.kind, clock, time, w.width, w.signed, xz) = made
  BY <1>4, Zenon DEF New, Settled
<1>6. made.value = value
  BY <1>3
<1>7. made.clock = clock
  OBVIOUS
<1> HIDE DEF made
<1>8. Len(value) = m
  <2>1. value = [k \in 1 .. m |-> value[k]]
    BY <1>3
  <2> QED  BY <2>1, ListLength
<1>9. clock \in [1 .. m -> Int]
  BY <1>3 DEF Columns
<1>10. /\ Pick(w, at).value = value
       /\ Pick(w, at).clock = clock
  BY <1>1, <1>5, <1>6, <1>7
<1>11. \A k \in 1 .. m : value[k] = w.value[at[k]] /\ clock[k] = w.clock[at[k]]
  BY <1>3
<1> QED  BY <1>8, <1>9, <1>10, <1>11 DEF Picks

\* The value at the least of the places from a clock tick on is the nearest after it.
LEMMA NearestAfter ==
  ASSUME NEW w, NEW m, NEW cycle, NEW p, m \in Nat, w.clock \in [1 .. m -> Int], p \in 1 .. m,
         w.clock[p] >= cycle, \A q \in 1 .. m : w.clock[q] >= cycle => p <= q
  PROVE  IsNearest(w.value[p], w, cycle, TRUE)
<1> DEFINE there == {q \in DOMAIN w.clock : w.clock[q] >= cycle}
<1>1. there \subseteq 1 .. m /\ p \in there
  OBVIOUS
<1>2. \A q \in there : p <= q
  BY <1>1
<1>3. there = {q \in DOMAIN w.clock : IF TRUE THEN w.clock[q] >= cycle ELSE w.clock[q] <= cycle}
  OBVIOUS
<1> HIDE DEF there
<1>4. \A x \in there : (\A y \in there : x <= y) <=> x = p
  <2>1. \A q \in there : q \in Int
    BY <1>1
  <2> QED  BY <1>1, <1>2, <2>1
<1>5. Min(there) = p
  BY <1>1, <1>4, Zenon DEF Min
<1> QED  BY <1>1, <1>3, <1>5 DEF IsNearest

\* That at the greatest of the places up to a clock tick is the nearest before it.
LEMMA NearestBefore ==
  ASSUME NEW w, NEW m, NEW cycle, NEW p, m \in Nat, w.clock \in [1 .. m -> Int], p \in 1 .. m,
         w.clock[p] <= cycle, \A q \in 1 .. m : w.clock[q] <= cycle => q <= p
  PROVE  IsNearest(w.value[p], w, cycle, FALSE)
<1> DEFINE there == {q \in DOMAIN w.clock : w.clock[q] <= cycle}
<1>1. there \subseteq 1 .. m /\ p \in there
  OBVIOUS
<1>2. \A q \in there : q <= p
  BY <1>1
<1>3. there = {q \in DOMAIN w.clock : IF FALSE THEN w.clock[q] >= cycle ELSE w.clock[q] <= cycle}
  OBVIOUS
<1> HIDE DEF there
<1>4. \A x \in there : (\A y \in there : x >= y) <=> x = p
  <2>1. \A q \in there : q \in Int
    BY <1>1
  <2> QED  BY <1>1, <1>2, <2>1
<1>5. Max(there) = p
  BY <1>1, <1>4, Zenon DEF Max
<1> QED  BY <1>1, <1>3, <1>5 DEF IsNearest

\* A selection of a waveform's samples: those at a set of places, in their order.
Keeps(of, w, K, m, at) == ListsAll(K, m, at) /\ Picks(of, w, m, at)

\* Places in their order, listed, make such a selection.
LEMMA Selected ==
  ASSUME NEW w, NEW n, NEW K, Columns(w, n), Settled(w), K \subseteq 1 .. n
  PROVE  \E m, at : Keeps(Pick(w, Ascends(K)), w, K, m, at)
<1>0. n \in Nat
  BY DEF Columns
<1> DEFINE at == Ascends(K)
<1> HIDE DEF at
<1>1. PICK m : ListsAll(K, m, at)
  BY <1>0, AscendsPlaces DEF at
<1>2. at \in [1 .. m -> 1 .. n]
  BY <1>1 DEF ListsAll
<1>3. m \in Nat
  BY <1>1 DEF ListsAll
<1>4. Keeps(Pick(w, at), w, K, m, at)
  BY <1>1, <1>2, <1>3, PickShape, Zenon DEF Keeps
<1> QED  BY <1>4 DEF at

\* Where the ends of the runs are kept, every sample has the value of the next one kept.
LEMMA EndsKept ==
  ASSUME NEW w, NEW n, NEW K, NEW of, NEW m, NEW at, NEW i,
         Columns(w, n), Ascending(w.clock), K \subseteq 1 .. n, EndsRuns(w.value, n, K),
         Keeps(of, w, K, m, at), i \in 1 .. n
  PROVE  IsNearest(w.value[i], of, w.clock[i], TRUE)
<1>0. /\ n \in Nat /\ w.clock \in [1 .. n -> Int]
      /\ \A k, l \in 1 .. n : k < l => w.clock[k] < w.clock[l]
  BY AscendingPairs DEF Columns
<1>n. n \in Nat
  BY <1>0
<1>1. \A k, l \in 1 .. n : w.clock[k] \in Int /\ (w.clock[k] >= w.clock[l] <=> k >= l)
  BY <1>0
<1>j. PICK j : EndOf(w.value, K, i, j)
  BY <1>n, RunEnd, Zenon
<1>2. j \in K /\ i <= j /\ w.value[j] = w.value[i] /\ \A k \in K : i <= k => j <= k
  BY <1>j DEF EndOf
<1>3. PICK p \in 1 .. m : at[p] = j
  BY <1>2 DEF Keeps, ListsAll
<1>4. \A q \in 1 .. m : at[q] \in K /\ at[q] \in 1 .. n /\ of.clock[q] = w.clock[at[q]]
  BY DEF Keeps, Picks, ListsAll
<1>5. of.clock[p] >= w.clock[i] /\ of.value[p] = w.value[i]
  BY <1>1, <1>2, <1>3, <1>4 DEF Keeps, Picks
<1>6. ASSUME NEW q \in 1 .. m, of.clock[q] >= w.clock[i] PROVE p <= q
  <2>1. i <= at[q]
    BY <1>1, <1>4, <1>6
  <2>2. at[p] <= at[q]
    BY <1>2, <1>3, <1>4, <2>1, Zenon
  <2>3. at[q] \in Int /\ at[p] \in Int
    BY <1>4
  <2>4. q < p => at[q] < at[p]
    BY DEF Keeps, Picks, ListsAll
  <2> QED  BY <2>2, <2>3, <2>4
<1>7. m \in Nat /\ of.clock \in [1 .. m -> Int]
  BY DEF Keeps, Picks, ListsAll
<1>8. IsNearest(of.value[p], of, w.clock[i], TRUE)
  BY <1>5, <1>6, <1>7, NearestAfter, Zenon
<1> QED  BY <1>5, <1>8

\* Where the beginnings are kept, that of the one kept before it.
LEMMA BeginsKept ==
  ASSUME NEW w, NEW n, NEW K, NEW of, NEW m, NEW at, NEW i,
         Columns(w, n), Ascending(w.clock), K \subseteq 1 .. n, BeginsRuns(w.value, n, K),
         Keeps(of, w, K, m, at), i \in 1 .. n
  PROVE  IsNearest(w.value[i], of, w.clock[i], FALSE)
<1>0. /\ n \in Nat /\ w.clock \in [1 .. n -> Int]
      /\ \A k, l \in 1 .. n : k < l => w.clock[k] < w.clock[l]
  BY AscendingPairs DEF Columns
<1>n. n \in Nat
  BY <1>0
<1>1. \A k, l \in 1 .. n : w.clock[k] \in Int /\ (w.clock[k] <= w.clock[l] <=> k <= l)
  <2> SUFFICES ASSUME NEW k \in 1 .. n, NEW l \in 1 .. n
               PROVE  w.clock[k] \in Int /\ (w.clock[k] <= w.clock[l] <=> k <= l)
    OBVIOUS
  <2>1. w.clock[k] \in Int /\ w.clock[l] \in Int
    BY <1>0
  <2>2. k < l \/ k = l \/ l < k
    BY <1>0
  <2> QED  BY <1>0, <2>1, <2>2
<1>j. PICK j : BeginOf(w.value, K, i, j)
  BY <1>n, RunBegin, Zenon
<1>2. j \in K /\ j <= i /\ w.value[j] = w.value[i] /\ \A k \in K : k <= i => k <= j
  BY <1>j DEF BeginOf
<1>3. PICK p \in 1 .. m : at[p] = j
  BY <1>2 DEF Keeps, ListsAll
<1>4. \A q \in 1 .. m : at[q] \in K /\ at[q] \in 1 .. n /\ of.clock[q] = w.clock[at[q]]
  BY DEF Keeps, Picks, ListsAll
<1>5. of.clock[p] <= w.clock[i] /\ of.value[p] = w.value[i]
  BY <1>1, <1>2, <1>3, <1>4 DEF Keeps, Picks
<1>6. ASSUME NEW q \in 1 .. m, of.clock[q] <= w.clock[i] PROVE q <= p
  <2>1. at[q] <= i
    BY <1>1, <1>4, <1>6
  <2>2. at[q] <= at[p]
    BY <1>2, <1>3, <1>4, <2>1, Zenon
  <2>3. at[q] \in Int /\ at[p] \in Int
    BY <1>4
  <2>4. p < q => at[p] < at[q]
    BY DEF Keeps, Picks, ListsAll
  <2> QED  BY <2>2, <2>3, <2>4
<1>7. m \in Nat /\ of.clock \in [1 .. m -> Int]
  BY DEF Keeps, Picks, ListsAll
<1>8. IsNearest(of.value[p], of, w.clock[i], FALSE)
  BY <1>5, <1>6, <1>7, NearestBefore, Zenon
<1> QED  BY <1>5, <1>8

\* Either way, no two neighbours that are kept are equal.
LEMMA KeptDiffer ==
  ASSUME NEW w, NEW n, NEW K, NEW of, NEW m, NEW at, NEW i,
         n \in Nat, K \subseteq 1 .. n, EndsRuns(w.value, n, K) \/ BeginsRuns(w.value, n, K),
         Keeps(of, w, K, m, at), i \in 2 .. Len(of.value)
  PROVE  of.value[i] # of.value[i - 1]
<1>1. i - 1 \in 1 .. m /\ i \in 1 .. m /\ i - 1 < i
  BY DEF Keeps, Picks, ListsAll
<1>2. at[i - 1] \in K /\ at[i] \in K /\ at[i - 1] < at[i]
  BY <1>1 DEF Keeps, Picks, ListsAll
<1>3. ASSUME NEW k \in K, at[i - 1] < k, k < at[i] PROVE FALSE
  <2>1. PICK q \in 1 .. m : at[q] = k
    BY DEF Keeps, Picks, ListsAll
  <2>2. q = i - 1 \/ q = i \/ q < i - 1 \/ i < q
    OBVIOUS
  <2>3. (q < i - 1 => at[q] < at[i - 1]) /\ (i < q => at[i] < at[q])
    BY <1>1 DEF Keeps, Picks, ListsAll
  <2>4. at[q] \in Int /\ at[i - 1] \in Int /\ at[i] \in Int
    <3>1. \A x \in K : x \in Int
      OBVIOUS
    <3> QED  BY <1>2, <2>1, <3>1, Zenon
  <2> QED  BY <1>3, <2>1, <2>2, <2>3, <2>4
<1>4. w.value[at[i]] # w.value[at[i - 1]]
  BY <1>2, <1>3, NextKeptDiffers, Zenon
<1> QED  BY <1>1, <1>4 DEF Keeps, Picks

\* compress and unique_consecutive of one waveform.
LEMMA RunsOf ==
  ASSUME NEW w, NEW n \in Nat, Columns(w, n), Settled(w), Ascending(w.clock)
  PROVE  LET first == UniqueConsecutive(w)
             last  == Compress(w)
         IN  /\ \A i \in DOMAIN w.value :
                  /\ IsNearest(w.value[i], first, w.clock[i], FALSE)
                  /\ IsNearest(w.value[i], last, w.clock[i], TRUE)
             /\ \A i \in 2 .. Len(last.value) : last.value[i] # last.value[i - 1]
             /\ \A i \in 2 .. Len(first.value) : first.value[i] # first.value[i - 1]
<1> DEFINE KF == {k \in 1 .. n : k = 1 \/ w.value[k] # w.value[k - 1]}
           KL == {k \in 1 .. n : k = n \/ w.value[k] # w.value[k + 1]}
           first == Pick(w, Ascends(KF))
           last == Pick(w, Ascends(KL))
<1>1. /\ Len(w.value) = n /\ DOMAIN w.value = 1 .. n /\ w.clock \in [1 .. n -> Int]
      /\ KF \subseteq 1 .. n /\ KL \subseteq 1 .. n
  BY ColumnLengths DEF Columns
<1>2. UniqueConsecutive(w) = first /\ Compress(w) = last
  <2>1. {i \in DOMAIN w.value : i = 1 \/ w.value[i] # w.value[i - 1]} \intersect DOMAIN w.value = KF
    BY <1>1
  <2>2. {i \in DOMAIN w.value : i = Len(w.value) \/ w.value[i] # w.value[i + 1]}
          \intersect DOMAIN w.value = KL
    BY <1>1
  <2> HIDE DEF KF, KL
  <2> QED  BY <2>1, <2>2 DEF UniqueConsecutive, Compress, Positions
<1>3. BeginsRuns(w.value, n, KF) /\ EndsRuns(w.value, n, KL)
  BY DEF BeginsRuns, EndsRuns
<1> HIDE DEF KF, KL
<1>4. /\ \A i \in 1 .. n : IsNearest(w.value[i], first, w.clock[i], FALSE)
      /\ \A i \in 2 .. Len(first.value) : first.value[i] # first.value[i - 1]
  <2>1. PICK m, at : Keeps(first, w, KF, m, at)
    BY <1>1, Selected, Zenon
  <2> HIDE DEF first
  <2>2. ASSUME NEW i \in 1 .. n PROVE IsNearest(w.value[i], first, w.clock[i], FALSE)
    BY <1>1, <1>3, <2>1, BeginsKept, Zenon
  <2>3. ASSUME NEW i \in 2 .. Len(first.value) PROVE first.value[i] # first.value[i - 1]
    BY <1>1, <1>3, <2>1, KeptDiffer, Zenon
  <2> QED  BY <2>2, <2>3
<1>5. /\ \A i \in 1 .. n : IsNearest(w.value[i], last, w.clock[i], TRUE)
      /\ \A i \in 2 .. Len(last.value) : last.value[i] # last.value[i - 1]
  <2>1. PICK m, at : Keeps(last, w, KL, m, at)
    BY <1>1, Selected, Zenon
  <2> HIDE DEF last
  <2>2. ASSUME NEW i \in 1 .. n PROVE IsNearest(w.value[i], last, w.clock[i], TRUE)
    BY <1>1, <1>3, <2>1, EndsKept, Zenon
  <2>3. ASSUME NEW i \in 2 .. Len(last.value) PROVE last.value[i] # last.value[i - 1]
    BY <1>1, <1>3, <2>1, KeptDiffer, Zenon
  <2> QED  BY <2>2, <2>3
<1> HIDE DEF first, last
<1> QED  BY <1>1, <1>2, <1>4, <1>5

\* compress and unique_consecutive, for every waveform of every session: no value is lost, as
\* that of a sample is that of the next sample kept, or of the one before it, and no two
\* neighbours that are kept are equal.
THEOREM NoValueIsLost == Spec => []RunsReconstruct
<1>1. OnGrid(wave) => RunsReconstruct
  <2> SUFFICES ASSUME OnGrid(wave), wave # Failed, Ascending(wave.clock)
               PROVE  RunsReconstruct
    BY DEF RunsReconstruct
  <2>1. PICK n \in Nat : Columns(wave, n)
    BY DEF OnGrid
  <2>2. Settled(wave)
    BY DEF OnGrid
  <2> QED  BY <2>1, <2>2, RunsOf DEF RunsReconstruct
<1> QED  BY EverySampleOnGrid, <1>1, PTL
=============================================================================
