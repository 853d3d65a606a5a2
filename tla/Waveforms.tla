----------------------------- MODULE Waveforms -----------------------------
(***************************************************************************)
(* A sampled waveform (waveform.py): its construction, the selection of    *)
(* samples, shifts in time and reinterpretations of its bits.              *)
(*                                                                         *)
(* A waveform is a record: the columns value, clock and time, sequences of *)
(* one length, the width in bits or NoWidth, the signedness, the mask of   *)
(* the unknown samples (xz_mask) or NoMask, and the kind of its array.     *)
(* "uint" and "int" are the machine words of WordBits bits (64 in the      *)
(* code), "object" holds integers of any size and "float" fractions, which *)
(* the model rounds down. What raises an exception returns Failed.         *)
(***************************************************************************)
EXTENDS Integers, SequencesExt, FiniteSetsExt, Ranks

CONSTANTS
  WordBits,       (* bits of a machine word                                  *)
  MaxShiftWidth,  (* MAX_SHIFT_RESULT_WIDTH                                  *)
  NoWidth,        (* width None                                              *)
  NoMask,         (* xz_mask None                                            *)
  Repeat          (* pad='repeat'                                            *)

ASSUME WordAssumption == WordBits \in Nat \ {0} /\ MaxShiftWidth \in Nat /\ MaxShiftWidth >= WordBits

Failed == [kind |-> "failed"]

Larger(a, b) == IF a > b THEN a ELSE b
Smaller(a, b) == IF a < b THEN a ELSE b

TwosComplement(v, bits) ==
  LET u == v % 2 ^ bits
  IN  IF u >= 2 ^ (bits - 1) THEN u - 2 ^ bits ELSE u

\* What is left of an integer in an array of the kind.
Wrap(v, kind) ==
  CASE kind = "uint" -> v % 2 ^ WordBits
    [] kind = "int" -> TwosComplement(v, WordBits)
    [] OTHER -> v

\* The width and the signedness choose the array.
KindFor(width, signed, kind) ==
  CASE width = NoWidth -> kind
    [] width # NoWidth /\ width > WordBits -> "object"
    [] OTHER -> IF signed THEN "int" ELSE "uint"

\* The constructor: an array of another kind is cast, an integer too large for a
\* machine word raises.
New(value, kind, clock, time, width, signed, xz) ==
  LET to == KindFor(width, signed, kind)
  IN  IF kind = "object" /\ \E i \in DOMAIN value : Wrap(value[i], to) # value[i]
      THEN Failed
      ELSE [value |-> [i \in DOMAIN value |-> IF to = kind THEN value[i] ELSE Wrap(value[i], to)],
            kind |-> to,
            clock |-> clock, time |-> time, width |-> width, signed |-> signed, xz |-> xz]

Unknown(w, i) == w.xz # NoMask /\ w.xz[i]

\* The sum of a sequence of numbers.
Total(column) ==
  LET sum[k \in 0 .. Len(column)] == IF k = 0 THEN 0 ELSE sum[k - 1] + column[k]
  IN  sum[Len(column)]

-----------------------------------------------------------------------------
(* Selecting samples.                                                       *)

\* The samples at the positions, in their order, and their part of the mask.
Pick(w, positions) ==
  LET at(column) == [k \in DOMAIN positions |-> column[positions[k]]]
  IN  New(at(w.value), w.kind, at(w.clock), at(w.time), w.width, w.signed,
          IF w.xz = NoMask THEN NoMask ELSE at(w.xz))

Positions(w, kept) == Ascends(kept \intersect DOMAIN w.value)

\* An index counts from the end when it is negative.
Take(w, indices) ==
  LET n == Len(w.value)
  IN  IF \E k \in DOMAIN indices : indices[k] \notin -n .. n - 1
      THEN Failed
      ELSE Pick(w, [k \in DOMAIN indices |-> IF indices[k] < 0 THEN indices[k] + n + 1
                                             ELSE indices[k] + 1])

\* Indices out of another waveform of machine words, taken for signed ones; its mask is
\* not asked.
TakeBy(w, o) ==
  IF o.kind \notin {"int", "uint"} THEN Failed
  ELSE Take(w, [k \in DOMAIN o.value |-> Wrap(o.value[k], "int")])

Mask(w, keep) ==
  IF Len(keep) # Len(w.value) THEN Failed ELSE Pick(w, Positions(w, {i \in DOMAIN keep : keep[i]}))

SameGrid(w, o) == Len(w.value) = Len(o.value) /\ w.clock = o.clock /\ w.time = o.time

\* A waveform of one bit as the mask: its unknown samples count as false.
MaskBy(w, o) ==
  IF ~SameGrid(w, o) \/ o.width # 1 THEN Failed
  ELSE Mask(w, [i \in DOMAIN w.value |-> o.value[i] # 0 /\ ~Unknown(o, i)])

Copy(w) == New(w.value, w.kind, w.clock, w.time, w.width, w.signed, w.xz)

DropXz(w) ==
  IF \A i \in DOMAIN w.value : ~Unknown(w, i) THEN Copy(w)
  ELSE Mask(w, [i \in DOMAIN w.value |-> ~w.xz[i]])

\* The function is given by the values it accepts.
VectorizedFilter(w, accepted) == Mask(w, [i \in DOMAIN w.value |-> w.value[i] \in accepted])

\* np.vectorize refuses an empty array.
Filter(w, accepted) == IF w.value = <<>> THEN Failed ELSE VectorizedFilter(w, accepted)

\* The values are compared as they lie in the array, unknown or not.
UniqueConsecutive(w) ==
  Pick(w, Positions(w, {i \in DOMAIN w.value : i = 1 \/ w.value[i] # w.value[i - 1]}))

\* Mutant: the last run is lost.
CompressLosing(w) ==
  Pick(w, Positions(w, {i \in DOMAIN w.value : i < Len(w.value) /\ w.value[i] # w.value[i + 1]}))

Compress(w) ==
  Pick(w, Positions(w, {i \in DOMAIN w.value : i = Len(w.value) \/ w.value[i] # w.value[i + 1]}))

\* Python's slice [begin:end] of an array of n items.
Bound(i, n) == IF i < 0 THEN Larger(i + n, 0) ELSE Smaller(i, n)
Cut(w, begin, end) ==
  LET n == Len(w.value)
  IN  Pick(w, Positions(w, Bound(begin, n) + 1 .. Bound(end, n)))

Slice(w, begin, end, includeEnd) == Cut(w, begin, IF includeEnd THEN end + 1 ELSE end)

\* np.searchsorted on an ascending column.
Below(column, x) == Cardinality({i \in DOMAIN column : column[i] < x})
UpTo(column, x) == Cardinality({i \in DOMAIN column : column[i] <= x})

\* Mutant: the end is always part of the window.
SliceOnClosed(w, column, begin, end, includeEnd) ==
  IF w.value = <<>> THEN Copy(w) ELSE Cut(w, Below(column, begin), UpTo(column, end))

SliceOn(w, column, begin, end, includeEnd) ==
  IF w.value = <<>> THEN Copy(w)
  ELSE Cut(w, Below(column, begin), IF includeEnd THEN UpTo(column, end) ELSE Below(column, end))

TimeSlice(w, begin, end, includeEnd) == SliceOn(w, w.time, begin, end, includeEnd)
CycleSlice(w, begin, end, includeEnd) == SliceOn(w, w.clock, begin, end, includeEnd)

\* Chunks of "size" samples, the last of them shorter.
Chunks(column, size) ==
  [k \in 1 .. (Len(column) + size - 1) \div size |->
     SubSeq(column, (k - 1) * size + 1, Smaller(k * size, Len(column)))]
Mean(chunk) == Total(chunk) \div Len(chunk)

\* The array np.array makes of a list of Python integers: of signed words when they are
\* all small enough, of unsigned ones when they are all too large for that, of fractions
\* when they are mixed or there is none, and of objects when one is no word at all.
ListKind(values) ==
  LET fits(v, kind) == Wrap(v, kind) = v
      all == ToSet(values)
  IN  CASE all = {} -> "float"
        [] all # {} /\ \A v \in all : fits(v, "int") -> "int"
        [] all # {} /\ \A v \in all : fits(v, "uint") /\ ~fits(v, "int") -> "uint"
        [] \E v \in all : ~fits(v, "uint") /\ ~fits(v, "int") -> "object"
        [] OTHER -> "float"

\* func is np.mean, which makes fractions, or the largest value.  Machine words make an
\* array of their kind, the integers out of objects one that depends on them.
Downsample(w, size, func) ==
  LET over(column, F(_)) ==
        [k \in DOMAIN Chunks(column, size) |-> F(Chunks(column, size)[k])]
      values == IF func = "mean" THEN over(w.value, Mean)
                ELSE over(w.value, LAMBDA c : Max(ToSet(c)))
      kind   == IF func = "mean" THEN "float"
                ELSE IF w.kind = "object" \/ values = <<>> THEN ListKind(values) ELSE w.kind
  IN  IF size <= 0 THEN Failed
      ELSE New(values, kind,
               over(w.clock, Mean), over(w.time, Mean), NoWidth, w.signed,
               IF w.xz = NoMask THEN NoMask
               ELSE over(w.xz, LAMBDA c : TRUE \in ToSet(c)))

-----------------------------------------------------------------------------
(* Looking ahead and back.                                                  *)

\* A column seen from "offset" samples later, with "first" before its first and
\* "last" after its last sample.
Shifted(column, offset, first, last) ==
  [i \in DOMAIN column |-> IF i + offset < 1 THEN first
                           ELSE IF i + offset > Len(column) THEN last
                           ELSE column[i + offset]]

\* relative: pad is Repeat or the value to pad with, whose samples are known.
Relative(w, offset, pad) ==
  IF w.value = <<>> \/ offset = 0 THEN Copy(w)
  ELSE LET shift(column, other) ==
             Shifted(column, offset, IF pad = Repeat THEN column[1] ELSE other,
                                     IF pad = Repeat THEN Last(column) ELSE other)
       IN  New(shift(w.value, IF pad = Repeat THEN pad ELSE Wrap(pad, w.kind)), w.kind, w.clock, w.time, w.width, w.signed,
               IF w.xz = NoMask THEN NoMask ELSE shift(w.xz, FALSE))

Ahead(w, n, pad) == Relative(w, n, pad)
Back(w, n, pad) == Relative(w, -n, pad)

\* Mutant: an edge is unknown only when the sample itself is.
EdgeHere(w, before, after) ==
  IF w.width # 1 THEN Failed
  ELSE New([i \in DOMAIN w.value |->
              IF i > 1 /\ w.value[i - 1] = before /\ w.value[i] = after THEN 1 ELSE 0],
           "uint", w.clock, w.time, 1, FALSE, w.xz)

\* rising_edge (0, 1) and falling_edge (1, 0): no edge on the first sample, and an
\* unknown one on both sides of an unknown sample.
Edge(w, before, after) ==
  IF w.width # 1 THEN Failed
  ELSE New([i \in DOMAIN w.value |->
              IF i > 1 /\ w.value[i - 1] = before /\ w.value[i] = after THEN 1 ELSE 0],
           "uint", w.clock, w.time, 1, FALSE,
           IF w.xz = NoMask THEN NoMask
           ELSE [i \in DOMAIN w.value |-> i > 1 /\ (w.xz[i - 1] \/ w.xz[i])])

RisingEdge(w) == Edge(w, 0, 1)
FallingEdge(w) == Edge(w, 1, 0)

-----------------------------------------------------------------------------
(* Reinterpreting the bits.                                                 *)

\* vectorized_map: a new value for each, the width kept unless a positive one is given.
Mapped(w, values, kind, width, signed) ==
  New(values, kind, w.clock, w.time,
      IF width \in {0, NoWidth} THEN w.width ELSE width, signed, w.xz)

Signed(w, v) ==
  CASE w.kind = "object" -> IF (v \div 2 ^ (w.width - 1)) % 2 = 1 THEN v - 2 ^ w.width ELSE v
    [] OTHER -> IF v < 2 ^ w.width \div 2 THEN v ELSE v - 2 ^ w.width

AsSigned(w) ==
  CASE w.signed -> Copy(w)
    [] ~w.signed /\ w.width = NoWidth -> Failed
    [] OTHER -> Mapped(w, [i \in DOMAIN w.value |-> Signed(w, w.value[i])], w.kind, NoWidth, TRUE)

AsUnsigned(w) ==
  CASE ~w.signed -> Copy(w)
    [] w.signed /\ w.width = NoWidth -> Failed
    [] OTHER -> Mapped(w, [i \in DOMAIN w.value |-> w.value[i] % 2 ^ w.width], w.kind, NoWidth, FALSE)

\* The complement needs a mask of the array's kind: a signed machine word has none.
Invert(w) ==
  IF w.width = NoWidth \/ w.kind = "int" THEN Failed
  ELSE Mapped(w, [i \in DOMAIN w.value |-> (-w.value[i] - 1) % 2 ^ w.width], w.kind, w.width, FALSE)

\* w[high:low] and w[bit], again not of signed machine words.
Bits(w, high, low) ==
  IF \/ high < low \/ low < 0 \/ w.width = NoWidth
     \/ w.width # NoWidth /\ high >= w.width
     \/ w.kind = "int"
  THEN Failed
  ELSE New([i \in DOMAIN w.value |-> (w.value[i] \div 2 ^ low) % 2 ^ (high - low + 1)],
           w.kind, w.clock, w.time, high - low + 1, FALSE, w.xz)

Ones(v, bits) == Cardinality({b \in 0 .. bits - 1 : (v \div 2 ^ b) % 2 = 1})

\* Machine words count the bits of the magnitude, larger ones whole words of the
\* two's complement.
BitCount(w) ==
  CASE w.width = NoWidth -> Failed
    [] OTHER ->
         LET count(v) == IF w.kind = "object"
                         THEN Ones(v, WordBits * ((w.width + WordBits - 1) \div WordBits))
                         ELSE Ones(IF v < 0 THEN -v ELSE v, WordBits)
         IN  Mapped(w, [i \in DOMAIN w.value |-> count(w.value[i])], "uint", WordBits, FALSE)

\* The groups of split_bits, the lowest first, as [high, low].
EqualGroups(width, size) ==
  [k \in 1 .. (width + size - 1) \div size |->
     [low |-> (k - 1) * size, high |-> Smaller(k * size, width) - 1]]
ListedGroups(sizes) ==
  [k \in DOMAIN sizes |-> [low  |-> Total(SubSeq(sizes, 1, k - 1)),
                           high |-> Total(SubSeq(sizes, 1, k)) - 1]]

\* split_bits raises when one of its groups does.
SplitBy(w, groups) ==
  LET parts == [k \in DOMAIN groups |-> Bits(w, groups[k].high, groups[k].low)]
  IN  IF Failed \in ToSet(parts) THEN <<>> ELSE parts

SplitBits(w, size, padding) ==
  IF w.width = NoWidth \/ (w.width # NoWidth /\ ~padding /\ w.width % size # 0) THEN <<>>
  ELSE SplitBy(w, EqualGroups(w.width, size))

SplitBitsList(w, sizes) ==
  IF w.width = NoWidth \/ (w.width # NoWidth /\ Total(sizes) # w.width) THEN <<>>
  ELSE SplitBy(w, ListedGroups(sizes))
=============================================================================
