----------------------------- MODULE Serialize -----------------------------
(***************************************************************************)
(* The JSON form of a waveform (serialize.py).  A number is [number |-> n],*)
(* or [digits |-> n], a decimal string, when a double cannot hold it; an   *)
(* unknown sample is the string x.                                         *)
(***************************************************************************)
EXTENDS WaveformAlgebra

CONSTANT SafeInt   (* _JS_SAFE_INT                                           *)

ASSUME SafeIntAssumption == SafeInt \in Nat

UnknownText == [text |-> "x"]
Missing == [absent |-> TRUE]

CoerceInt(n) == IF n \in -SafeInt .. SafeInt THEN [number |-> n] ELSE [digits |-> n]

ValueText(w, i) == IF Unknown(w, i) THEN UnknownText ELSE CoerceInt(w.value[i])

Known(w) == {w.value[i] : i \in {j \in DOMAIN w.value : ~Unknown(w, j)}}

\* waveform_summary: of the whole waveform; no smallest and largest object.
Summary(w) ==
  LET ends(column) == IF column = <<>> THEN Missing
                      ELSE [first |-> CoerceInt(Head(column)), last |-> CoerceInt(Last(column))]
  IN  [samples |-> Len(w.value), has_xz |-> w.xz # NoMask,
       time |-> ends(w.time), cycle |-> ends(w.clock),
       xz_count |-> IF w.xz = NoMask \/ w.value = <<>> THEN Missing
                    ELSE CoerceInt(Cardinality({i \in DOMAIN w.xz : w.xz[i]})),
       values |-> IF Known(w) = {} \/ w.kind = "object" THEN Missing
                  ELSE [least |-> CoerceInt(Min(Known(w))), most |-> CoerceInt(Max(Known(w)))]]

\* waveform_to_dict: at most maxSamples rows, all of them when that is NoWidth.
ToDict(w, maxSamples) ==
  LET n     == Len(w.value)
      shown == IF maxSamples = NoWidth THEN n ELSE Larger(0, Smaller(n, maxSamples))
  IN  [width |-> w.width, signed |-> w.signed, length |-> n, shown |-> shown,
       truncated |-> shown < n, summary |-> Summary(w),
       rows |-> [i \in 1 .. shown |->
                   [time |-> CoerceInt(w.time[i]), cycle |-> CoerceInt(w.clock[i]),
                    value |-> ValueText(w, i)]]]
=============================================================================
