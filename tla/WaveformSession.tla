-------------------------- MODULE WaveformSession --------------------------
(***************************************************************************)
(* A user's session with a waveform, or with the result of a match: every  *)
(* operation makes the next waveform, or result, of the last one.  "twin"  *)
(* is the same session over a file loaded with another xz_value: the two   *)
(* differ in what lies under the mask of unknown samples, and in nothing   *)
(* else.                                                                   *)
(*                                                                         *)
(* Operands are such pairs too.  Fractions (the mean of a chunk) are       *)
(* selected from and serialised; arithmetic on them is not modelled.       *)
(***************************************************************************)
EXTENDS MatchResults

CONSTANTS
  Loaded,      (* bound: the pairs of waveforms a session starts with        *)
  Operands,    (* bound: the pairs tried as a second operand                 *)
  Scalars,     (* bound: the scalars tried                                   *)
  Shape,       (* bound: [sizes, lists, indices, keeps, offsets, pads]       *)
  MaxSteps     (* bound: operations of a session                             *)

\* A waveform as it is loaded: one clock tick and one time for every value, in an array
\* of the kind that its width chooses.
LoadedOnGrid(w) ==
  /\ KindFor(w.width, w.signed, w.kind) = w.kind
  /\ Len(w.value) \in Nat /\ w.value = [i \in 1 .. Len(w.value) |-> w.value[i]]
  /\ w.clock \in [1 .. Len(w.value) -> Int] /\ w.time \in [1 .. Len(w.value) -> Int]

ASSUME SessionAssumption ==
  /\ \A p \in Loaded \union Operands : LoadedOnGrid(p[1])
  /\ Shape.sizes \subseteq Int /\ Shape.indices \subseteq Seq(Int)

VARIABLES
  wave,        (* the waveform                                               *)
  twin,        (* what it is when the unknown samples hold other values      *)
  steps,       (* operations so far                                          *)
  history      (* "raw": an operation that looks at the values of unknown    *)
               (* samples; "wild": one that may leave the declared width     *)

vars == <<wave, twin, steps, history, resultVars>>

Init ==
  /\ \/ (\E p \in Loaded : wave = p[1] /\ twin = p[2]) /\ NoResult
     \/ wave = Failed /\ twin = Failed /\ ResultInit
  /\ steps = 0 /\ history = {}

\* After an operation that looks at unknown samples there is nothing left to compare,
\* and the twin is the waveform itself.
Become(a, b, tags) ==
  /\ steps < MaxSteps /\ wave # Failed /\ twin # Failed
  /\ wave' = a
  /\ twin' = IF "raw" \in history \union tags THEN a ELSE b
  /\ steps' = steps + 1 /\ history' = history \union tags
  /\ UNCHANGED resultVars

Unary(F(_), tags) == Become(F(wave), F(twin), tags)

\* Signed results, and those of waveforms of no width or no bits, may not fit.
Widthless(w) == w.width \in {0, NoWidth}
Unfit == IF wave.signed \/ Widthless(wave) THEN {"wild"} ELSE {}
PadTags(pad) == IF pad = Repeat \/ wave = Failed THEN {} ELSE Unfit

Seconds == Operands \union {<<Scalar(n), Scalar(n)>> : n \in Scalars}

Binary(F(_, _), operands, tags) ==
  /\ wave # Failed /\ wave.kind # "float"
  /\ \E o \in operands :
       Become(F(wave, o[1]), F(twin, o[2]),
              tags \union Unfit \union (IF IsScalar(o[1]) \/ ~Widthless(o[1]) THEN {} ELSE {"wild"}))

ScalarPairs == {<<Scalar(n), Scalar(n)>> : n \in Scalars}

-----------------------------------------------------------------------------
Arithmetic ==
  \/ Binary(Add, Seconds, {})
  \/ Binary(Sub, Seconds, {"wild"})
  \/ Binary(ReverseSub, ScalarPairs, {"wild"})
  \/ Binary(Mul, Seconds, {})
  \/ Binary(FloorDiv, Seconds, {})
  \/ Binary(ReverseFloorDiv, ScalarPairs, {})
  \/ Binary(Mod, Seconds, {})
  \/ Binary(ReverseMod, ScalarPairs, {})
  \/ Binary(Pow, ScalarPairs, {})

Logic ==
  \/ Binary(And, Seconds, {})
  \/ Binary(Or, Seconds, {})
  \/ Binary(Xor, Seconds, {})
  \/ Binary(Eq, Seconds, {})
  \/ Binary(Ne, Seconds, {})
  \/ Unary(Invert, {})

\* Bound: no scalar is shifted by an object, whose values TLC's integers may not hold.
Shifts ==
  \/ Binary(Lshift, Seconds, {})
  \/ wave.kind # "object" /\ Binary(ReverseLshift, ScalarPairs, {"raw"})
  \/ Binary(Rshift, Seconds, {})
  \/ Binary(ReverseRshift, ScalarPairs, {})

Fields ==
  \/ Unary(AsSigned, {})
  \/ Unary(AsUnsigned, {})
  \/ Unary(BitCount, {})
  \/ \E high, low \in 0 .. 2 : Unary(LAMBDA w : Bits(w, high, low), {})
  \/ wave # Failed /\ \E size \in Shape.sizes, padding \in BOOLEAN :
       \E k \in DOMAIN SplitBits(wave, size, padding) :
         Unary(LAMBDA w : SplitBits(w, size, padding)[k], {})
  \/ wave # Failed /\ \E sizes \in Shape.lists : \E k \in DOMAIN SplitBitsList(wave, sizes) :
       Unary(LAMBDA w : SplitBitsList(w, sizes)[k], {})
  \/ Binary(LAMBDA w, o : Concatenate(<<w, o>>), Operands, {})
  \/ Binary(LAMBDA w, o : Merge(<<w, o>>, Each(w, o, Larger), WordBits + 1, TRUE),
            Operands, {"wild"})

\* The array that the largest of objects are kept in depends on all of them.
RetypedTags(func) == IF func = "max" /\ wave.kind = "object" THEN {"raw"} ELSE {}

Selection ==
  \/ Unary(Copy, {})
  \/ Unary(DropXz, {})
  \/ \E keep \in Shape.keeps : Unary(LAMBDA w : Mask(w, keep), {})
  \/ \E o \in Operands : wave # Failed /\ Become(MaskBy(wave, o[1]), MaskBy(twin, o[2]), {})
  \/ Unary(LAMBDA w : VectorizedFilter(w, {v \in ToSet(w.value) : v # 0}), {"raw"})
  \/ Unary(LAMBDA w : Filter(w, {v \in ToSet(w.value) : v > 1}), {"raw"})
  \/ Unary(UniqueConsecutive, {"raw"})
  \/ Unary(Compress, {"raw"})
  \/ \E indices \in Shape.indices : Unary(LAMBDA w : Take(w, indices), {})
  \/ \E o \in Operands : wave # Failed /\ Become(TakeBy(wave, o[1]), TakeBy(twin, o[2]), {"raw"})
  \/ \E size \in Shape.sizes, func \in {"mean", "max"} :
       Unary(LAMBDA w : Downsample(w, size, func), RetypedTags(func))

Ascending(column) == \A i \in 2 .. Len(column) : column[i - 1] < column[i]

\* A binary search needs columns in order; the bounds are those of two samples.
Windows ==
  /\ wave # Failed /\ Ascending(wave.time) /\ Ascending(wave.clock)
  /\ \E i, j \in DOMAIN wave.time, includeEnd \in BOOLEAN :
       \/ Unary(LAMBDA w : TimeSlice(w, w.time[i], w.time[j], includeEnd), {})
       \/ Unary(LAMBDA w : CycleSlice(w, w.clock[i], w.clock[j], includeEnd), {})
       \/ Unary(LAMBDA w : Slice(w, i - 2, j - 2, includeEnd), {})

Motion ==
  \/ \E n \in Shape.offsets, pad \in Shape.pads : Unary(LAMBDA w : Ahead(w, n, pad), PadTags(pad))
  \/ \E n \in Shape.offsets, pad \in Shape.pads : Unary(LAMBDA w : Back(w, n, pad), PadTags(pad))
  \/ Unary(RisingEdge, {})
  \/ Unary(FallingEdge, {})

Rows ==
  /\ steps < MaxSteps /\ steps' = steps + 1
  /\ ResultNext
  /\ UNCHANGED <<wave, twin, history>>

Next == Arithmetic \/ Logic \/ Shifts \/ Fields \/ Selection \/ Windows \/ Motion \/ Rows

Spec == Init /\ [][Next]_vars

-----------------------------------------------------------------------------
\* The two sessions agree on everything but the values of unknown samples.
AgreeWhereKnown ==
  /\ wave.clock = twin.clock /\ wave.time = twin.time /\ wave.xz = twin.xz
  /\ wave.width = twin.width /\ wave.signed = twin.signed /\ wave.kind = twin.kind
  /\ \A i \in DOMAIN wave.value : Unknown(wave, i) \/ wave.value[i] = twin.value[i]

\* Serialised, "masked positions" are 'x' and count nowhere, in full and truncated.
SerialAgrees == \A n \in {NoWidth, 1} : ToDict(wave, n) = ToDict(twin, n)

\* xz_mask: what the reader put where the file says x never reaches a known sample,
\* the clock, the width, the length or the JSON, whatever is computed: unless an
\* operation looks below the mask (compress, the filters, take by a waveform,
\* scalar <<, the largest out of objects).
UnknownStaysUnknown ==
  "raw" \notin history =>
    /\ wave = Failed <=> twin = Failed
    /\ wave # Failed => AgreeWhereKnown /\ SerialAgrees

\* Columns of one length, machine words in their range.
WellFormed(w) ==
  /\ w.kind \in {"uint", "int", "object", "float"}
  /\ Len(w.clock) = Len(w.value) /\ Len(w.time) = Len(w.value)
  /\ w.xz = NoMask \/ (DOMAIN w.xz = DOMAIN w.value /\ \A i \in DOMAIN w.xz : w.xz[i] \in BOOLEAN)
  /\ \A i \in DOMAIN w.value : Wrap(w.value[i], w.kind) = w.value[i]
  /\ KindFor(w.width, w.signed, w.kind) = w.kind

Fits(w) == w.width # NoWidth => \A i \in DOMAIN w.value : w.value[i] \in 0 .. 2 ^ w.width - 1

\* Whatever is computed is a waveform, and the inferred width of an unsigned one is
\* enough for its values, through chains of operations, for machine words and objects
\* alike; not after a subtraction.
FitsWidth ==
  wave # Failed =>
    /\ WellFormed(wave)
    /\ ~wave.signed /\ "wild" \notin history => Fits(wave)

Sound(w) == w # Failed /\ ~w.signed /\ ~Widthless(w) /\ "wild" \notin history

\* The result is the integers' result modulo 2^width.
ModuloWidth(got, w, o, Op(_, _)) ==
  got # Failed =>
    \A i \in DOMAIN w.value : got.value[i] = Op(w.value[i], ValueAt(o, i)) % 2 ^ got.width

\* Sums, products and left shifts are exact whenever their width is not capped, and
\* wrap at the width where it is: machine words never lose a bit of a wider result.
ExactModuloWidth ==
  Sound(wave) => \A p \in Seconds :
    /\ ModuloWidth(Add(wave, p[1]), wave, p[1], Plus)
    /\ ModuloWidth(Mul(wave, p[1]), wave, p[1], Times)
    /\ ModuloWidth(Lshift(wave, p[1]), wave, p[1], LAMBDA a, b : a * 2 ^ b)

\* concatenate is "the inverse of split_bits", for equal groups, padded or not, and for
\* listed ones, below and above the size of a machine word.
SplitsRejoin ==
  /\ \A size \in Shape.sizes, padding \in BOOLEAN :
       LET parts == SplitBits(wave, size, padding)
       IN  parts # <<>> => Concatenate(parts) = Copy(wave)
  /\ \A sizes \in Shape.lists :
       LET parts == SplitBitsList(wave, sizes)
       IN  parts # <<>> => Concatenate(parts) = Copy(wave)

\* as_signed gives the two's complement of the bits, and as_unsigned takes it back.
SignsReturn ==
  /\ AsUnsigned(AsSigned(wave)) = wave
  /\ \A i \in DOMAIN wave.value :
       AsSigned(wave).value[i] = TwosComplement(wave.value[i], wave.width)

\* Fields and signs are views of the same bits: what they take apart or reinterpret
\* comes back, whatever the waveform went through before.
BitsAreKept == Sound(wave) => SplitsRejoin /\ SignsReturn

\* A window by time, by cycle or by index is the same window.
SlicesAgree ==
  wave # Failed /\ Ascending(wave.time) /\ Ascending(wave.clock) =>
    \A i, j \in DOMAIN wave.time, includeEnd \in BOOLEAN :
      /\ TimeSlice(wave, wave.time[i], wave.time[j], includeEnd) = Slice(wave, i - 1, j - 1, includeEnd)
      /\ CycleSlice(wave, wave.clock[i], wave.clock[j], includeEnd) = Slice(wave, i - 1, j - 1, includeEnd)

\* The docs build edges out of comparisons and shifts in time: after the first sample
\* rising_edge and falling_edge are that, values and masks.
EdgeIsShiftedCompare ==
  wave # Failed /\ wave.width = 1 /\ ~wave.signed =>
    \A level \in {0, 1} :
      LET built == And(Eq(Back(wave, 1, Repeat), Scalar(level)), Eq(wave, Scalar(1 - level)))
          edge  == Edge(wave, level, 1 - level)
      IN  \A i \in 2 .. Len(wave.value) :
            edge.value[i] = built.value[i] /\ Unknown(edge, i) = Unknown(built, i)

\* The value is that of the nearest sample of the run-length form, by cycle.
IsNearest(value, w, cycle, after) ==
  LET there == {i \in DOMAIN w.clock : IF after THEN w.clock[i] >= cycle ELSE w.clock[i] <= cycle}
  IN  there # {} /\ value = w.value[IF after THEN Min(there) ELSE Max(there)]

\* unique_consecutive and compress lose no value: every sample is that of the next kept
\* one on the side the run is kept at, and no two kept neighbours are equal.
RunsReconstruct ==
  wave # Failed /\ Ascending(wave.clock) =>
    LET first == UniqueConsecutive(wave)
        last  == Compress(wave)
    IN  /\ \A i \in DOMAIN wave.value :
             /\ IsNearest(wave.value[i], first, wave.clock[i], FALSE)
             /\ IsNearest(wave.value[i], last, wave.clock[i], TRUE)
        /\ \A i \in 2 .. Len(last.value) : last.value[i] # last.value[i - 1]
        /\ \A i \in 2 .. Len(first.value) : first.value[i] # first.value[i - 1]
=============================================================================
