-------------------------- MODULE WaveformAlgebra --------------------------
(***************************************************************************)
(* The binary operators of a waveform (_binary_op and the methods that     *)
(* call it), concatenation and merging.  The second operand is another     *)
(* waveform or a scalar, [scalar |-> n].                                   *)
(***************************************************************************)
EXTENDS Waveforms

Scalar(n) == [scalar |-> n]
IsScalar(o) == DOMAIN o = {"scalar"}

Magnitude(n) == IF n < 0 THEN -n ELSE n

\* Bound: the bits of the largest object.
TopBit == 30
BitLength(n) == CHOOSE k \in 0 .. TopBit : Magnitude(n) < 2 ^ k /\ (k > 0 => Magnitude(n) >= 2 ^ (k - 1))

\* _get_width
WidthOf(o) == IF IsScalar(o) THEN Larger(1, BitLength(o.scalar)) ELSE o.width
ValueAt(o, i) == IF IsScalar(o) THEN o.scalar ELSE o.value[i]
KindOf(w, o) == IF w.kind = "object" \/ (~IsScalar(o) /\ o.kind = "object") THEN "object" ELSE w.kind

-----------------------------------------------------------------------------
(* The checks before an operation.                                          *)

Narrow(width) == width = NoWidth \/ (width # NoWidth /\ width <= WordBits)

\* A width function that raises.
BadWidth == -1

\* A scalar that a machine word cannot hold raises in every operation but a comparison.
Holds(kind, o) == IsScalar(o) => Wrap(o.scalar, kind) = o.scalar

Comparable(w, o) == IsScalar(o) \/ (SameGrid(w, o) /\ w.signed = o.signed)

ArithCompatible(w, o) ==
  /\ Comparable(w, o) /\ Holds(KindOf(w, o), o)
  /\ Narrow(w.width) /\ Narrow(WidthOf(o))
  /\ IsScalar(o) => o.scalar >= 0 \/ w.signed

LogicCompatible(w, o) ==
  /\ Comparable(w, o) /\ Holds(KindOf(w, o), o)
  /\ w.kind # "float" /\ (IsScalar(o) => o.scalar >= 0)
  /\ ~IsScalar(o) => o.kind # "float"

\* Mutant: only the mask of the left operand survives.
MergeKeepsLeft(w, o) == w.xz

\* _merge_xz_mask: a sample is unknown when one of its operands is.
MergedMask(w, o) ==
  CASE IsScalar(o) -> w.xz
    [] ~IsScalar(o) /\ o.xz = NoMask -> w.xz
    [] ~IsScalar(o) /\ o.xz # NoMask /\ w.xz = NoMask -> o.xz
    [] OTHER -> [i \in DOMAIN w.xz |-> w.xz[i] \/ o.xz[i]]

\* An operator of numpy, sample by sample.
Each(w, o, Op(_, _)) == [i \in DOMAIN w.value |-> Op(w.value[i], ValueAt(o, i))]

\* The result on the grid of w: the values, wrapped to the arrays' kind.
Combined(w, o, values, kind, width, signed) ==
  New([i \in DOMAIN w.value |-> Wrap(values[i], kind)], kind, w.clock, w.time, width, signed, MergedMask(w, o))

-----------------------------------------------------------------------------
(* Arithmetic: the widths are capped at a machine word.                     *)

Plus(a, b)  == a + b
Minus(a, b) == a - b
Times(a, b) == a * b

Capped(width) == Smaller(width, WordBits)
NoWidths(w, o) == NoWidth \in {w.width, WidthOf(o)}

\* Mutant: no room for the carry.
AddWithoutCarry(w, o) ==
  IF ~ArithCompatible(w, o) THEN Failed
  ELSE Combined(w, o, Each(w, o, Plus), KindOf(w, o),
                IF NoWidths(w, o) THEN NoWidth ELSE Capped(Larger(w.width, WidthOf(o))), w.signed)

Add(w, o) ==
  IF ~ArithCompatible(w, o) THEN Failed
  ELSE Combined(w, o, Each(w, o, Plus), KindOf(w, o),
                IF NoWidths(w, o) THEN NoWidth ELSE Capped(Larger(w.width, WidthOf(o)) + 1), w.signed)

SubWidth(w, o) == IF NoWidths(w, o) THEN NoWidth ELSE Capped(Larger(w.width, WidthOf(o)))

Sub(w, o) ==
  IF ~ArithCompatible(w, o) THEN Failed
  ELSE Combined(w, o, Each(w, o, Minus), KindOf(w, o), SubWidth(w, o), w.signed)
ReverseSub(w, o) ==
  IF ~ArithCompatible(w, o) THEN Failed
  ELSE Combined(w, o, Each(w, o, LAMBDA a, b : Minus(b, a)), KindOf(w, o), SubWidth(w, o), w.signed)

Mul(w, o) ==
  IF ~ArithCompatible(w, o) THEN Failed
  ELSE Combined(w, o, Each(w, o, Times), KindOf(w, o),
                IF NoWidths(w, o) THEN NoWidth ELSE Capped(w.width + WidthOf(o)), w.signed)

\* Rounded down; a machine word divided by zero is zero, an object raises.
Quotient(a, b) ==
  CASE b = 0 -> 0 [] b > 0 -> a \div b [] OTHER -> (-a) \div (-b)
Remainder(a, b) == IF b = 0 THEN 0 ELSE a - b * Quotient(a, b)

Divisible(w, o, reverse) ==
  KindOf(w, o) = "object" =>
    \A i \in DOMAIN w.value : (IF reverse THEN w.value[i] ELSE ValueAt(o, i)) # 0

CappedOrNone(width) == IF width = NoWidth THEN NoWidth ELSE Capped(width)

Divide(w, o, values, reverse) ==
  IF ~ArithCompatible(w, o) \/ ~Divisible(w, o, reverse) THEN Failed
  ELSE Combined(w, o, values, KindOf(w, o),
                CappedOrNone(IF reverse THEN WidthOf(o) ELSE w.width), w.signed)

FloorDiv(w, o) == Divide(w, o, Each(w, o, Quotient), FALSE)
ReverseFloorDiv(w, o) == Divide(w, o, Each(w, o, LAMBDA a, b : Quotient(b, a)), TRUE)
Mod(w, o) == Divide(w, o, Each(w, o, Remainder), FALSE)
ReverseMod(w, o) == Divide(w, o, Each(w, o, LAMBDA a, b : Remainder(b, a)), TRUE)

\* Raised step by step, so that the product never leaves the word.
Power(a, n, kind) ==
  LET p[k \in 0 .. n] == IF k = 0 THEN 1 ELSE Wrap(a * p[k - 1], kind) IN p[n]

Pow(w, o) ==
  IF ~ArithCompatible(w, o) \/ \E i \in DOMAIN w.value : ValueAt(o, i) < 0 THEN Failed
  ELSE Combined(w, o, Each(w, o, LAMBDA a, b : Power(a, b, KindOf(w, o))), KindOf(w, o), WordBits, w.signed)

-----------------------------------------------------------------------------
(* Bits: an integer is its two's complement, as long as it takes.           *)

Bit(v, b) == (v \div 2 ^ b) % 2

\* The bits below "top", and the sign.
BitByBit(a, b, Op(_, _), top) ==
  MapThenSumSet(LAMBDA k : 2 ^ k * Op(Bit(a, k), Bit(b, k)), 0 .. top - 1)
    - 2 ^ top * Op(IF a < 0 THEN 1 ELSE 0, IF b < 0 THEN 1 ELSE 0)

BothBits(p, q) == p * q
EitherBit(p, q) == Larger(p, q)
OneBit(p, q) == (p + q) % 2

\* _infer_logical_op_width
LogicWidth(w, o) ==
  CASE w.width = NoWidth -> BadWidth
    [] w.width # NoWidth /\ IsScalar(o) -> IF w.width < BitLength(o.scalar) THEN BadWidth ELSE w.width
    [] OTHER -> IF o.width = w.width THEN w.width ELSE BadWidth

Bits2(w, o, Op(_, _)) ==
  Each(w, o, LAMBDA a, b : BitByBit(a, b, Op, Larger(BitLength(a), BitLength(b))))

Logical(w, o, values) ==
  LET width == LogicWidth(w, o)
  IN  IF ~LogicCompatible(w, o) \/ width = BadWidth THEN Failed
      ELSE Combined(w, o, values, KindOf(w, o), width, FALSE)

And(w, o) == Logical(w, o, Bits2(w, o, BothBits))
Or(w, o) == Logical(w, o, Bits2(w, o, EitherBit))
Xor(w, o) == Logical(w, o, Bits2(w, o, OneBit))

\* Comparisons look at the integers, whatever the arrays.
Compare(w, o, values) ==
  IF ~Comparable(w, o) THEN Failed ELSE Combined(w, o, values, "uint", 1, FALSE)

Eq(w, o) == Compare(w, o, Each(w, o, LAMBDA a, b : IF a = b THEN 1 ELSE 0))
Ne(w, o) == Compare(w, o, Each(w, o, LAMBDA a, b : IF a # b THEN 1 ELSE 0))

-----------------------------------------------------------------------------
(* Shifts.                                                                  *)

OrZero(width) == IF width = NoWidth THEN 0 ELSE width
MaxValue(w) == IF w.value = <<>> THEN 0 ELSE Max(ToSet(w.value))

LeftShift(a, b, kind) == IF kind # "object" /\ b \notin 0 .. WordBits - 1 THEN 0 ELSE a * 2 ^ b
RightShift(a, b) ==
  IF b \notin 0 .. TopBit THEN (IF a < 0 THEN -1 ELSE 0) ELSE a \div 2 ^ b

\* Mutant: machine words are shifted however wide the result is.
ShiftInWords(w, o, width) == KindOf(w, o)

\* _shift_dtype_upgrader: a result wider than a machine word is shifted as objects.
ShiftKind(w, o, width) ==
  IF width # NoWidth /\ width > WordBits THEN "object" ELSE KindOf(w, o)

\* An object shifted by a negative amount raises.
Shift(w, o, values, reverse, width, kind) ==
  IF \/ ~LogicCompatible(w, o) \/ width = BadWidth
     \/ width # NoWidth /\ width > MaxShiftWidth
     \/ kind = "object" /\ \E i \in DOMAIN w.value :
                             (IF reverse THEN w.value[i] ELSE ValueAt(o, i)) < 0
  THEN Failed
  ELSE Combined(w, o, values, kind, width, w.signed)

LshiftWidth(w, o) ==
  CASE IsScalar(o) -> OrZero(w.width) + o.scalar
    [] ~IsScalar(o) /\ o.width = NoWidth -> BadWidth
    [] OTHER -> OrZero(w.width) + 2 ^ o.width - 1

Lshift(w, o) ==
  LET width == LshiftWidth(w, o)
      kind  == ShiftKind(w, o, width)
  IN  Shift(w, o, Each(w, o, LAMBDA a, b : LeftShift(a, b, kind)), FALSE, width, kind)

\* A scalar shifted by a waveform: its largest value, unknown or not, sets the width.
ReverseLshiftWidth(w, o) ==
  IF OrZero(w.width) = 0 THEN w.width
  ELSE Larger(BitLength(o.scalar) + MaxValue(w), w.width)

ReverseLshift(w, o) ==
  LET width == ReverseLshiftWidth(w, o)
      kind  == ShiftKind(w, o, width)
  IN  Shift(w, o, Each(w, o, LAMBDA a, b : LeftShift(b, a, kind)), TRUE, width, kind)

RshiftWidth(w, o) == IF IsScalar(o) THEN Larger(OrZero(w.width) - o.scalar, 0) ELSE w.width

Rshift(w, o) == Shift(w, o, Each(w, o, RightShift), FALSE, RshiftWidth(w, o), KindOf(w, o))

ReverseRshiftWidth(w, o) ==
  IF OrZero(w.width) = 0 THEN w.width ELSE Larger(BitLength(o.scalar), w.width)

ReverseRshift(w, o) ==
  LET width == ReverseRshiftWidth(w, o)
  IN  Shift(w, o, Each(w, o, LAMBDA a, b : RightShift(b, a)), TRUE, width, ShiftKind(w, o, width))

-----------------------------------------------------------------------------
(* Several waveforms into one.                                              *)

\* A sample is unknown when one of its parts is.
AnyMask(waves) ==
  LET masks == {w.xz : w \in {v \in ToSet(waves) : v.xz # NoMask}}
  IN  IF masks = {} THEN NoMask
      ELSE [i \in DOMAIN waves[1].value |-> \E m \in masks : m[i]]

Joinable(waves) == waves # <<>> /\ \A k \in DOMAIN waves : SameGrid(waves[k], waves[1])

Widths(waves) == [k \in DOMAIN waves |-> waves[k].width]

\* Mutant: the first part becomes the highest.
ConcatenateForwards(waves) ==
  IF ~Joinable(waves) \/ \E k \in DOMAIN waves : waves[k].signed \/ waves[k].width = NoWidth
  THEN Failed
  ELSE LET width == Total(Widths(waves))
           kind  == IF width <= WordBits THEN "uint" ELSE "object"
       IN  New([i \in DOMAIN waves[1].value |->
                  FoldLeft(LAMBDA v, w : Wrap(v * 2 ^ w.width + w.value[i], kind), 0, waves)],
               kind, waves[1].clock, waves[1].time, width, FALSE, AnyMask(waves))

\* concatenate: from the last, the highest, to the first; each part is or-ed into the
\* bits the shift has emptied.
Concatenate(waves) ==
  IF ~Joinable(waves) \/ \E k \in DOMAIN waves : waves[k].signed \/ waves[k].width = NoWidth
  THEN Failed
  ELSE LET width == Total(Widths(waves))
           kind  == IF width <= WordBits THEN "uint" ELSE "object"
           put(v, a) == BitByBit(v, a, EitherBit, Larger(BitLength(v), BitLength(a)))
       IN  New([i \in DOMAIN waves[1].value |->
                  FoldLeft(LAMBDA v, w : Wrap(put(v * 2 ^ w.width, w.value[i]), kind),
                           0, Reverse(waves))],
               kind, waves[1].clock, waves[1].time, width, FALSE, AnyMask(waves))

\* merge: func sees the values, known or not, and makes the merged ones of them.  It
\* returns Python integers: the scalars of numpy it is given would go on as machine words
\* in the array of objects.
Merge(waves, merged, width, signed) ==
  IF ~Joinable(waves) THEN Failed
  ELSE New([i \in DOMAIN waves[1].value |-> merged[i]], "object", waves[1].clock, waves[1].time, width, signed, AnyMask(waves))
=============================================================================
