----------------------------- MODULE SampleHold -----------------------------
(***************************************************************************)
(* The two functions every reader is built on: which changes of a clock    *)
(* are sampling edges (src/wavekit/readers/edge_detect.py), and the value  *)
(* a signal holds at a time.                                               *)
(*                                                                         *)
(* A list of changes is a sequence of records with a time "at".            *)
(***************************************************************************)
EXTENDS Integers, Sequences

Ascending(list) == \A i, j \in 1 .. Len(list) : i < j => list[i].at <= list[j].at

\* Mutant: an edge out of x or z counts.
IntoKnown(list, i, xz) == ~xz[i]

\* Both ends of an edge are known.
Known(list, i, xz) == ~xz[i] /\ ~xz[i - 1]

\* select_clock_edges, for a list of 0/1 values and a mask that says which of
\* them stand for x or z.  The first change has no predecessor.
IsEdge(list, i, posedge, xz) ==
  /\ i > 1
  /\ list[i - 1].value = (IF posedge THEN 0 ELSE 1)
  /\ list[i].value = (IF posedge THEN 1 ELSE 0)
  /\ Known(list, i, xz)

\* The last change at or before t, or 0 when every change comes later.
IsLastAt(list, t, i) ==
  /\ i # 0 => list[i].at <= t
  /\ \A j \in i + 1 .. Len(list) : list[j].at > t

LastAt(list, t) == CHOOSE i \in 0 .. Len(list) : IsLastAt(list, t, i)

\* The value held at t: a result array starts out as zeros.
Held(list, t) == IF LastAt(list, t) = 0 THEN 0 ELSE list[LastAt(list, t)].value
=============================================================================
