------------------------------ MODULE Resample ------------------------------
(***************************************************************************)
(* value_change_to_value_array: one pass over the sampling edges of the    *)
(* clock, with a second index that runs along the changes of the signal.   *)
(* The uint64 and the object path of value_change.py and of the Cython     *)
(* module are the same loop.  Indices start at 1 here.                     *)
(***************************************************************************)
EXTENDS SampleHold, FiniteSets

CONSTANTS
  ChangeLists,   (* bound: the lists of value changes tried                  *)
  ClockLists,    (* bound: the lists of clock changes tried                  *)
  SampleValue,   (* sample_clock_value: 1 on posedge, 0 on negedge           *)
  ClockOffset,   (* clock_offset                                             *)
  Beyond         (* what an unchecked read past the end yields               *)

\* The readers refuse a signal without changes, and a file's time ascends.
ASSUME ListAssumption ==
  /\ \A list \in ChangeLists :
       list \in Seq([at : Nat, value : Int]) /\ list # <<>> /\ Ascending(list)
  /\ \A list \in ClockLists :
       list \in Seq([at : Nat, value : Int]) /\ Ascending(list)

ASSUME OffsetAssumption == ClockOffset \in Nat /\ Beyond \in Int

VARIABLES
  changes,   (* value_change                                                 *)
  clock,     (* clock_changes                                                *)
  vidx,      (* vidx                                                         *)
  cidx,      (* cidx                                                         *)
  samples    (* value_res, clock_res and time_res, up to ccnt                *)

vars == <<changes, clock, vidx, cidx, samples>>

Init ==
  /\ changes \in ChangeLists /\ clock \in ClockLists
  /\ vidx = 1 /\ cidx = 1
  /\ samples = <<>>

\* The compiled loop runs without bounds checks.
TimeOf(i) == IF i <= Len(changes) THEN changes[i].at ELSE Beyond

\* Mutant: every change of the clock is sampled.
AtChange == cidx <= Len(clock)

AtEdge == cidx <= Len(clock) /\ clock[cidx].value = SampleValue

\* Mutant: one index too far.
DueUnchecked == vidx <= Len(changes) /\ TimeOf(vidx + 1) <= clock[cidx].at

Due == vidx + 1 <= Len(changes) /\ TimeOf(vidx + 1) <= clock[cidx].at

Advance ==
  /\ AtEdge /\ Due
  /\ vidx' = vidx + 1
  /\ UNCHANGED <<changes, clock, cidx, samples>>

\* Mutant: no guard against a first change that is still to come.
CurrentUnguarded == changes[vidx].value

Current == IF TimeOf(vidx) <= clock[cidx].at THEN changes[vidx].value ELSE 0

Sample ==
  /\ AtEdge /\ ~Due
  /\ samples' = Append(samples, [value |-> Current,
                                 cycle |-> ClockOffset + Len(samples),
                                 time  |-> clock[cidx].at])
  /\ cidx' = cidx + 1
  /\ UNCHANGED <<changes, clock, vidx>>

Skip ==
  /\ cidx <= Len(clock) /\ clock[cidx].value # SampleValue
  /\ cidx' = cidx + 1
  /\ UNCHANGED <<changes, clock, vidx, samples>>

Next == Advance \/ Sample \/ Skip

Spec == Init /\ [][Next]_vars

-----------------------------------------------------------------------------
\* Every index the unchecked loop reads or writes is inside its array: vidx in
\* the changes, cidx in the clock, and no more samples than clock changes seen.
InBounds ==
  /\ vidx \in 1 .. Len(changes)
  /\ cidx \in 1 .. Len(clock) + 1
  /\ Len(samples) < cidx

\* Each sample is the value the signal holds at its edge, and cycle numbers are
\* consecutive from the offset: one index that never goes back is enough.
SampledRight ==
  \A k \in 1 .. Len(samples) :
    /\ samples[k].value = Held(changes, samples[k].time)
    /\ samples[k].cycle = ClockOffset + k - 1

\* The sampling edges among the first n changes of the clock.
Edges(n) == {i \in 1 .. n : clock[i].value = SampleValue}

\* When the loop is through there is one sample for each sampling edge, in order.
AllSampled ==
  cidx > Len(clock) =>
    /\ Len(samples) = Cardinality(Edges(Len(clock)))
    /\ \A i \in Edges(Len(clock)) : samples[Cardinality(Edges(i))].time = clock[i].at
=============================================================================
