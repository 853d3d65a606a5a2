-------------------------- MODULE MCPatternRuntime --------------------------
(* PatternRuntime on small instances. *)
EXTENDS PatternRuntimeProofs

\* Two, or three, cycles of a clock that skips a number, as a masked axis does.
TwoClock == [i \in 0 .. 1 |-> 5 + 2 * i]
ThreeClock == [i \in 0 .. 2 |-> IF i = 2 THEN 8 ELSE 5 + i]
=============================================================================
