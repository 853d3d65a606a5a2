------------------------------- MODULE Readers -------------------------------
(***************************************************************************)
(* One file read in the three formats: the readers share no state, and     *)
(* every one of them is held to the same promise.                          *)
(***************************************************************************)
EXTENDS VcdReader, FstReader, FsdbReader

VARIABLE format   (* whose load the last one is                              *)

vars == <<baseVars, vcdVars, fstVars, format>>

Init == BaseInit /\ VcdInit /\ FstInit /\ format = "vcd"

Vcd == VcdNext /\ format' = "vcd" /\ UNCHANGED fstVars
Fst == FstNext /\ format' = "fst" /\ UNCHANGED vcdVars
Fsdb == (\E l \in Loads : FsdbLoad(l)) /\ format' = "fsdb" /\ UNCHANGED <<vcdVars, fstVars>>

Next == Vcd \/ Fst \/ Fsdb

Spec == Init /\ [][Next]_vars

Done(f) == phase = "idle" /\ format = f /\ outcome # Interrupted

\* A VCD load returns what the file says, whatever was loaded before it with the same
\* reader: the shared cache, the x inserted into its lists, a clock that was loaded
\* as a signal, and broken-off scans of other signals change nothing.
VcdRight == Done("vcd") /\ torn \intersect Wanted(load) = {} => outcome = VcdPromise

\* An FST load returns what the file says, whatever the handle was left at by the
\* loads before it, finished or broken off, and however far the library reads on.
FstRight == Done("fst") => outcome = FstPromise

\* An FSDB load returns what the file says: the passes over the database fit together.
FsdbRight == Done("fsdb") => outcome = FsdbPromise
=============================================================================
