------------------------------ MODULE VcdReader ------------------------------
(***************************************************************************)
(* VcdReader.load_waveform: the changes of a signal and its clock are kept *)
(* in a cache that every load of the reader shares, and sampled from       *)
(* there.  The file is what its replay yields (VcdStream).                 *)
(***************************************************************************)
EXTENDS ReaderBase

VARIABLES
  cache,       (* _tv_cache                                                  *)
  missing,     (* missing                                                    *)
  pos,         (* changes of the file the scan has seen                      *)
  torn         (* history: signals whose scan broke off with a list begun    *)

vcdVars == <<cache, missing, pos, torn>>

VcdInit == cache = [s \in {} |-> <<>>] /\ missing = {} /\ pos = 0 /\ torn = {}

Wanted(l) == {l.signal, l.clock}

Missing(l) == Wanted(l) \ DOMAIN cache

\* Refused before anything is read.
Refused(l) == ~Exclusive(l) \/ l.range = Several \/ Declared[l.signal].real

BeginLoad(l) ==
  /\ IF Refused(l)
     THEN Call(l, "idle") /\ missing' = {} /\ outcome' = Failed
     ELSE /\ Call(l, IF Missing(l) = {} THEN "sample" ELSE "scan")
          /\ missing' = Missing(l) /\ UNCHANGED outcome
  /\ pos' = 0
  /\ UNCHANGED <<cache, torn>>

CachedList(s) == IF s \in DOMAIN cache THEN cache[s] ELSE <<>>

Store(s, list) == cache' = [t \in DOMAIN cache \union {s} |-> IF t = s THEN list ELSE cache[t]]

\* The replay yields the next change of a missing signal.
ScanEvent ==
  /\ phase = "scan" /\ pos < Len(file)
  /\ LET e == file[pos + 1]
     IN  IF e.sid \in missing
         THEN Store(e.sid, Append(CachedList(e.sid), [at |-> e.at, value |-> e.value]))
         ELSE UNCHANGED cache
  /\ pos' = pos + 1
  /\ UNCHANGED <<baseVars, missing, torn>>

\* Mutant: an assignment in place of setdefault.
AbsentReset == [s \in DOMAIN cache \union missing |-> IF s \in missing THEN <<>> ELSE cache[s]]

\* A signal without changes gets an empty list.
AbsentEmpty == [s \in DOMAIN cache \union missing |-> CachedList(s)]

EndScan ==
  /\ phase = "scan" /\ pos = Len(file)
  /\ cache' = AbsentEmpty
  /\ phase' = "sample"
  /\ UNCHANGED <<file, load, loads, outcome, missing, pos, torn>>

\* Ctrl-C, or an error reading the file, goes through _ensure_cached.
InterruptScan ==
  /\ Interrupts /\ phase = "scan"
  /\ Return(Interrupted)
  /\ torn' = torn \union (missing \intersect DOMAIN cache)
  /\ UNCHANGED <<file, load, loads, cache, missing, pos>>

-----------------------------------------------------------------------------
Unknowns(s) == [k \in 1 .. Width(s) |-> "x"]

\* A signal that has no value at 0 is unknown until it has one.
Padded(s, list) ==
  IF list # <<>> /\ list[1].at > 0 THEN <<[at |-> 0, value |-> Unknowns(s)]>> \o list ELSE list

ClockList == cache[load.clock]
ClockEdges ==
  EdgeTimes(load, Numbers(ClockList, 0), [i \in DOMAIN ClockList |-> HasX(ClockList[i].value)])

RefuseClock ==
  /\ phase = "sample" /\ ~UsableClock(load, ClockList, ClockEdges)
  /\ Return(Failed)
  /\ UNCHANGED <<file, load, loads, vcdVars>>

\* Mutant: the whole text is asked, not the bits of the field.
XAnywhere(text, l) == HasX(text)

\* _has_xz_in_range, of the bits that the path asks for.
XInRange(text, l) ==
  IF l.range = Unset THEN HasX(text)
  ELSE \E i \in DOMAIN text : /\ text[i] = "x" /\ Len(text) - i >= Smaller(Low(l), High(l))
                              /\ Len(text) - i <= Larger(Low(l), High(l))

\* A field can only be cut out of a signal stored from bit 0 up.
VcdResult(l, list) ==
  LET flags == [i \in DOMAIN list |->
                  [at |-> list[i].at, value |-> IF XInRange(list[i].value, l) THEN 1 ELSE 0]]
      wave  == Sampled(l, Numbers(list, l.xzValue), flags, ClockEdges)
  IN  IF list = <<>> \/ ~Readable(list, l.xzValue) \/ (l.range # Unset /\ Declared[l.signal].low # 0)
      THEN Failed
      ELSE Finalized(l, Field(l, wave))

\* The initial x goes into the cached list, which is the clock's too when the
\* signal is its own clock.
SampleSignal ==
  /\ phase = "sample" /\ UsableClock(load, ClockList, ClockEdges)
  /\ LET list == Padded(load.signal, cache[load.signal])
     IN  Store(load.signal, list) /\ Return(VcdResult(load, list))
  /\ UNCHANGED <<file, load, loads, missing, pos, torn>>

VcdNext ==
  \/ \E l \in Loads : BeginLoad(l)
  \/ ScanEvent \/ EndScan \/ InterruptScan \/ RefuseClock \/ SampleSignal

-----------------------------------------------------------------------------
\* All the file says of the signal, once, with or without the initial x.
Whole(s) == cache[s] \in {FileList(s), Padded(s, FileList(s))}

\* Outside of a scan every cached list is whole: _ensure_cached promises to
\* "ensure value-change lists for all sids are cached".
CachedIsWhole == phase # "scan" => \A s \in DOMAIN cache : Whole(s)

\* A scan that breaks off damages no list but the ones it was filling: the lists of
\* earlier loads stay whole, and so do those of a scan that goes through, even in
\* the middle of another one.
OthersStayWhole ==
  \A s \in DOMAIN cache \ torn : (phase = "scan" /\ s \in missing) \/ Whole(s)

\* A load of a VCD file returns what the file says.  It cannot read an x with a
\* replacement that is no bit, a signal without a value, a real, or a field of a
\* signal that is not stored from bit 0 up.
VcdPromise ==
  LET list == FileList(load.signal)
  IN  IF \/ list = <<>> \/ Declared[load.signal].real \/ ~Readable(Padded(load.signal, list), load.xzValue)
         \/ (load.range # Unset /\ Declared[load.signal].low # 0)
      THEN Failed
      ELSE Promised(load, FileList(load.clock), list, Unknowns(load.signal))
=============================================================================
