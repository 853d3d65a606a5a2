----------------------------- MODULE ReaderBase -----------------------------
(***************************************************************************)
(* What the three readers share: the arguments of a load, the window they  *)
(* ask for, the resampling of a list of changes on the edges of a clock,   *)
(* the field of bits and the sign of the result (readers/base.py and the   *)
(* parts of load_waveform each reader repeats), and what base.py promises  *)
(* of a load.                                                              *)
(*                                                                         *)
(* A file is a sequence of changes [at, sid, value]; a value is a text, a  *)
(* sequence of the characters 0, 1 and x, the most significant bit first.  *)
(* A load is a record of its arguments.  What raises returns Failed.       *)
(***************************************************************************)
EXTENDS SampleHold, Waveforms

CONSTANTS
  Files,       (* bound: the files tried                                     *)
  Declared,    (* the signals: [width, low (of the stored range), real]      *)
  Loads,       (* bound: the loads tried                                     *)
  MaxLoads,    (* bound: loads of one file                                   *)
  Unset,       (* None                                                       *)
  Interrupts   (* whether an exception may break off a load                  *)

VARIABLES
  file,        (* the changes of the file                                    *)
  load,        (* the arguments of the load                                  *)
  phase,       (* where the load is                                          *)
  loads,       (* loads so far                                               *)
  outcome      (* how the last load ended                                    *)

ASSUME FileAssumption == Files \subseteq Seq([at : Nat, sid : DOMAIN Declared, value : Seq(STRING)])

baseVars == <<file, load, phase, loads, outcome>>

Sids == DOMAIN Declared
Width(s) == Declared[s].width

Interrupted == [kind |-> "interrupted"]

BaseInit ==
  /\ file \in Files /\ load = (CHOOSE l \in Loads : TRUE)
  /\ phase = "idle" /\ loads = 0 /\ outcome = Interrupted

\* What the first n changes of the file say of a signal, and what all of them do.
FileLists(s) ==
  LET list[n \in 0 .. Len(file)] ==
        IF n = 0 THEN <<>>
        ELSE IF file[n].sid = s THEN Append(list[n - 1], [at |-> file[n].at, value |-> file[n].value])
             ELSE list[n - 1]
  IN  list

FileList(s) == FileLists(s)[Len(file)]

Call(l, first) ==
  /\ phase = "idle" /\ loads < MaxLoads
  /\ load' = l /\ loads' = loads + 1 /\ phase' = first
  /\ UNCHANGED file

Return(result) == phase' = "idle" /\ outcome' = result

-----------------------------------------------------------------------------
(* The arguments and the window.                                            *)

\* A window cannot begin, or end, both at a time and at a cycle.
Exclusive(l) ==
  /\ l.beginTime = Unset \/ l.beginCycle = Unset
  /\ l.endTime = Unset \/ l.endCycle = Unset

CyclesInRange(l, edges) ==
  /\ l.beginCycle # Unset => l.beginCycle < Len(edges)
  /\ l.endCycle # Unset => l.endCycle <= Len(edges)
  /\ Unset \notin {l.beginCycle, l.endCycle} => l.beginCycle < l.endCycle

BeginTime(l, edges) ==
  IF l.beginCycle # Unset THEN edges[l.beginCycle + 1]
  ELSE IF l.beginTime # Unset THEN l.beginTime ELSE 0

EndTime(l, edges) ==
  CASE l.endCycle = Unset -> l.endTime
    [] l.endCycle = Len(edges) -> Unset
    [] OTHER -> edges[l.endCycle + 1]

\* clock_offset: the cycles before the window keep their numbers.
Offset(l, edges) == Len(SelectSeq(edges, LAMBDA t : t < BeginTime(l, edges)))

\* The window of the edges is closed; time_slice drops what lies on its end.
InWindow(l, t, edges) ==
  BeginTime(l, edges) <= t /\ (EndTime(l, edges) # Unset => t <= EndTime(l, edges))

-----------------------------------------------------------------------------
(* Texts, edges and samples.                                                *)

Bit(c, xz) == IF c = "x" THEN xz ELSE IF c = "1" THEN 1 ELSE 0
Number(text, xz) == FoldLeft(LAMBDA n, c : 2 * n + Bit(c, xz), 0, text)
HasX(text) == "x" \in ToSet(text)

\* int(text, 2) once every x is replaced by the digits of xz.
Readable(list, xz) ==
  \A i \in DOMAIN list : \A c \in ToSet(list[i].value) : c \in {"0", "1"} \/ (c = "x" /\ xz \in {0, 1})

Numbers(list, xz) == [i \in DOMAIN list |-> [at |-> list[i].at, value |-> Number(list[i].value, xz)]]

\* select_clock_edges of the changes of a clock and the flags of its x.
EdgeTimes(l, changes, flags) ==
  LET edges == SelectSeq([i \in DOMAIN changes |-> i], LAMBDA i : IsEdge(changes, i, l.posedge, flags))
  IN  [k \in DOMAIN edges |-> changes[edges[k]].at]

UsableClock(l, changes, edges) ==
  changes # <<>> /\ Width(l.clock) = 1 /\ edges # <<>> /\ CyclesInRange(l, edges)

\* value_change_to_waveform of the values and of the flags of unknown ones on the
\* edges in the window, cut by time_slice.
Sampled(l, values, flags, edges) ==
  LET kept     == SelectSeq(edges, LAMBDA t : InWindow(l, t, edges))
      at(list) == [k \in DOMAIN kept |-> Held(list, kept[k])]
      full     == New(at(values), IF Width(l.signal) > WordBits THEN "object" ELSE "uint",
                      [k \in DOMAIN kept |-> Offset(l, edges) + k - 1], kept,
                      Width(l.signal), FALSE,
                      IF l.masked THEN [k \in DOMAIN kept |-> at(flags)[k] # 0] ELSE NoMask)
      end      == IF EndTime(l, edges) = Unset THEN Last(edges) + 1 ELSE EndTime(l, edges)
  IN  TimeSlice(full, BeginTime(l, edges), end, FALSE)

High(l) == l.range[1]
Low(l) == l.range[2]
Several == <<>>   \* a range of more than one pair of brackets

\* The bits that the path asks for.
Field(l, wave) ==
  CASE l.range = Unset -> wave
    [] l.range # Unset /\ (l.range = Several \/ High(l) >= Width(l.signal)) -> Failed
    [] OTHER -> IF High(l) - Low(l) + 1 < Width(l.signal) THEN Bits(wave, High(l), Low(l)) ELSE wave

\* _finalize_loaded_waveform
Finalized(l, wave) == IF wave # Failed /\ l.signed THEN AsSigned(wave) ELSE wave

-----------------------------------------------------------------------------
(* What base.py promises of a load: one sample for each edge of the clock   *)
(* in the window, half open, numbered from the first edge of the file.      *)

\* An edge goes from one known level to the other; the first change is none.
TrueEdges(l, clock) ==
  LET edges == SelectSeq([i \in DOMAIN clock |-> i], LAMBDA i :
                 /\ i > 1
                 /\ clock[i - 1].value = (IF l.posedge THEN <<"0">> ELSE <<"1">>)
                 /\ clock[i].value = (IF l.posedge THEN <<"1">> ELSE <<"0">>))
  IN  [k \in DOMAIN edges |-> clock[edges[k]].at]

\* The cycles asked for, by their numbers.
TrueCycles(l, edges) ==
  SelectSeq([k \in DOMAIN edges |-> k - 1], LAMBDA c :
    /\ l.beginCycle # Unset => c >= l.beginCycle
    /\ l.endCycle # Unset => c < l.endCycle
    /\ l.beginTime # Unset => edges[c + 1] >= l.beginTime
    /\ l.endTime # Unset => edges[c + 1] < l.endTime)

\* The last text given by t, "before" before the first, without its leading zeros.
TrueText(list, width, t, before) ==
  LET text == IF LastAt(list, t) = 0 THEN before ELSE list[LastAt(list, t)].value
  IN  [k \in 1 .. width - Len(text) |-> "0"] \o text

\* The characters of the bits asked for.
Asked(l, text) ==
  IF l.range = Unset THEN text ELSE SubSeq(text, Len(text) - High(l), Len(text) - Low(l))

Valued(l, text) ==
  LET n == Number(text, l.xzValue)
  IN  IF l.signed /\ Bit(text[1], l.xzValue) = 1 THEN n - 2 ^ Len(text) ELSE n

ProperRange(l) ==
  l.range = Unset \/ (l.range # Unset /\ l.range # Several /\ High(l) >= Low(l) /\ High(l) < Width(l.signal))

\* The waveform of the signal whose changes are "list" on the clock whose changes
\* are "clock"; "before" is the text of the signal before its first value.
Promised(l, clock, list, before) ==
  LET edges  == TrueEdges(l, clock)
      cycles == TrueCycles(l, edges)
      text   == [k \in DOMAIN cycles |->
                   Asked(l, TrueText(list, Width(l.signal), edges[cycles[k] + 1], before))]
      bits   == IF l.range = Unset THEN Width(l.signal) ELSE High(l) - Low(l) + 1
  IN  IF \/ ~Exclusive(l) \/ ~ProperRange(l) \/ Width(l.clock) # 1 \/ edges = <<>>
         \/ ~CyclesInRange(l, edges)
      THEN Failed
      ELSE [value  |-> [k \in DOMAIN cycles |-> Valued(l, text[k])],
            kind   |-> KindFor(bits, l.signed, "object"),
            clock  |-> cycles,
            time   |-> [k \in DOMAIN cycles |-> edges[cycles[k] + 1]],
            width  |-> bits,
            signed |-> l.signed,
            xz     |-> IF l.masked THEN [k \in DOMAIN cycles |-> HasX(text[k])] ELSE NoMask]
=============================================================================
