----------------------------- MODULE MCResample -----------------------------
(* Resample on every short list of changes. *)
EXTENDS Resample, FiniteSets

CONSTANTS Times, MaxChanges, MaxClock

Lists(n, vals) ==
  UNION {{list \in [1 .. k -> [at : Times, value : vals]] : Ascending(list)} : k \in 0 .. n}

\* Distinct values, so that a sample tells which change it was taken from.
SomeChanges == {list \in Lists(MaxChanges, {7, 8, 9}) \ {<<>>} :
                  \A i \in 1 .. Len(list) : list[i].value = 6 + i}
SomeClocks  == Lists(MaxClock, {0, 1})
=============================================================================
