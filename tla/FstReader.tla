------------------------------ MODULE FstReader ------------------------------
(***************************************************************************)
(* FstReader.load_waveform: every load makes two passes over the file with *)
(* one native handle (pylibfst), whose mask of signals and time limit stay *)
(* as the last pass left them.  An x is replaced where the text is read,   *)
(* the clock's by 0, and there is no mask.                                 *)
(***************************************************************************)
EXTENDS ReaderBase

VARIABLES
  handle,         (* the native handle: [mask, limit]                        *)
  clockChanges    (* all_clock_changes                                       *)

fstVars == <<handle, clockChanges>>

FstInit == handle = [mask |-> {}, limit |-> Unset] /\ clockChanges = <<>>

\* Mutant: the mask is added to.
MaskAdded(s, limit) == [mask |-> handle.mask \union {s}, limit |-> limit]

\* fstReaderClrFacProcessMaskAll, fstReaderSetFacProcessMask, and the time limit.
Prepared(s, limit) == [mask |-> {s}, limit |-> limit]

\* fstReaderIterBlocks2: the changes of the signals in the mask.  The library reads
\* whole blocks, so some lie after the limit ("beyond").
Delivered(h, beyond) ==
  SelectSeq(file, LAMBDA e : e.sid \in h.mask /\ (h.limit = Unset \/ beyond \/ e.at <= h.limit))

\* The callback keeps what is not after the end.
UpToEnd(events, end) == SelectSeq(events, LAMBDA e : end = Unset \/ e.at <= end)

\* _load_value_change: the changes of a signal as numbers.
Pass(h, end, beyond, xz) == Numbers(UpToEnd(Delivered(h, beyond), end), xz)

FstBegin(l) ==
  /\ IF ~Exclusive(l) \/ l.masked
     THEN Call(l, "idle") /\ outcome' = Failed
     ELSE Call(l, "fst clock") /\ UNCHANGED outcome
  /\ UNCHANGED fstVars

FstReadClock ==
  /\ phase = "fst clock"
  /\ handle' = Prepared(load.clock, Unset)
  /\ \E beyond \in BOOLEAN : clockChanges' = Pass(handle', Unset, beyond, 0)
  /\ phase' = "fst signal"
  /\ UNCHANGED <<file, load, loads, outcome>>

FstEdges == EdgeTimes(load, clockChanges, [i \in DOMAIN clockChanges |-> FALSE])

FstRefuseClock ==
  /\ phase = "fst signal" /\ ~UsableClock(load, clockChanges, FstEdges)
  /\ Return(Failed)
  /\ UNCHANGED <<file, load, loads, fstVars>>

\* Each edge takes the last change at or before it; without one the sample is 0.
FstReadSignal ==
  /\ phase = "fst signal" /\ UsableClock(load, clockChanges, FstEdges)
  /\ LET end == EndTime(load, FstEdges)
     IN  /\ handle' = Prepared(load.signal, end)
         /\ \E beyond \in BOOLEAN :
              LET events  == UpToEnd(Delivered(handle', beyond), end)
                  changes == Pass(handle', end, beyond, load.xzValue)
              IN  Return(IF \/ changes = <<>> \/ ~Readable(events, load.xzValue)
                            \/ (load.range # Unset /\ Declared[load.signal].low # 0)
                         THEN Failed
                         ELSE Finalized(load, Field(load, Sampled(load, changes, <<>>, FstEdges))))
  /\ UNCHANGED <<file, load, loads, clockChanges>>

\* An exception between the passes.
FstInterrupt ==
  /\ Interrupts /\ phase = "fst signal"
  /\ Return(Interrupted)
  /\ UNCHANGED <<file, load, loads, fstVars>>

FstNext ==
  \/ \E l \in Loads : FstBegin(l)
  \/ FstReadClock \/ FstRefuseClock \/ FstReadSignal \/ FstInterrupt

-----------------------------------------------------------------------------
\* The clock as the reader sees it: an x is a 0.
FstClock ==
  LET list == FileList(load.clock)
  IN  [i \in DOMAIN list |-> [list[i] EXCEPT !.value = [k \in DOMAIN @ |-> IF @[k] = "x" THEN "0" ELSE @[k]]]]

\* A load of an FST file returns what the file says, except that an x of the clock is
\* a 0, a signal is 0 before its first value, and one that has none by the end of the
\* window is refused.
FstPromise ==
  LET end  == EndTime(load, TrueEdges(load, FstClock))
      list == SelectSeq(FileList(load.signal), LAMBDA e : end = Unset \/ e.at <= end)
      full == Promised(load, FstClock, FileList(load.signal), <<"0">>)
  IN  IF \/ load.masked \/ full = Failed \/ (load.range # Unset /\ Declared[load.signal].low # 0)
      THEN Failed
      ELSE IF list = <<>> \/ ~Readable(list, load.xzValue) THEN Failed ELSE full
=============================================================================
