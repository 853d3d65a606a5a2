----------------------------- MODULE FsdbReader -----------------------------
(***************************************************************************)
(* FsdbReader.load_waveform and NpiFsdbReader.load_value_change_mode: a    *)
(* load makes up to four passes over the database, each of which decodes   *)
(* the texts in one mode, to their value or to the mask of their x, in     *)
(* chunks of a machine word.                                               *)
(***************************************************************************)
EXTENDS ReaderBase

\* The database (external): as the file, each value stored with all bits of its signal,
\* which the decoding relies on (it counts the characters of a text from the front), so
\* with the leading zeros a text may leave out; and an x at 0 for a signal without a
\* value there.
Database(s) ==
  LET texts == FileList(s)
      list  == [i \in DOMAIN texts |->
                  [texts[i] EXCEPT !.value = [k \in 1 .. Width(s) - Len(@) |-> "0"] \o @]]
  IN  IF list # <<>> /\ list[1].at = 0 THEN list
      ELSE <<[at |-> 0, value |-> [k \in 1 .. Width(s) |-> "x"]]>> \o list

\* The modes.
ValueXz0 == [one |-> 1, x |-> 0]
ValueXz1 == [one |-> 1, x |-> 1]
XzMask == [one |-> 0, x |-> 1]

\* cstr_to_ull_array: one number for each word of the width, of the WordBits characters
\* that come next in the text and of what there is of them.
Chunk(text, mode, width, i) ==
  FoldLeft(LAMBDA n, c : 2 * n + (IF c = "x" THEN mode.x ELSE IF c = "1" THEN mode.one ELSE 0), 0,
           SubSeq(text, i * WordBits + 1, Smaller((i + 1) * WordBits, Smaller(Len(text), width))))

Words(width) == [i \in 1 .. (width + WordBits - 1) \div WordBits |-> i - 1]

\* Mutant: every chunk is taken for a full one.
JoinedFull(text, mode, width) ==
  FoldLeft(LAMBDA n, i : n * 2 ^ WordBits + Chunk(text, mode, width, i), 0, Words(width))

\* The chunks put together, each shifted by the bits that are left of the width, however
\* many characters it was made of.
Joined(text, mode, width) ==
  FoldLeft(LAMBDA n, i : n * 2 ^ Smaller(WordBits, width - i * WordBits) + Chunk(text, mode, width, i),
           0, Words(width))

\* npi_fsdb_goto_time (external): the last change at or before the time, and on.
From(list, begin) == SubSeq(list, LastAt(list, begin), Len(list))

\* load_value_change_mode
FsdbPass(s, begin, end, mode) ==
  LET seen == SelectSeq(From(Database(s), begin), LAMBDA e : end = Unset \/ e.at <= end)
  IN  [i \in DOMAIN seen |-> [at |-> seen[i].at, value |-> Joined(seen[i].value, mode, Width(s))]]

\* A character that is no bit raises.
Decodable(s) == \A i \in DOMAIN Database(s) : ToSet(Database(s)[i].value) \subseteq {"0", "1", "x"}

\* The bits of the mask that the path asks for.
FieldFlags(l, masks) ==
  [i \in DOMAIN masks |->
     [masks[i] EXCEPT !.value =
        IF l.range = Unset \/ l.range = Several THEN @
        ELSE (@ \div 2 ^ Low(l)) % 2 ^ Larger(0, High(l) - Low(l) + 1)]]

\* The values of the clock and the flags of its x come from two passes and are joined
\* by their position.
FsdbLoad(l) ==
  /\ phase = "idle" /\ loads < MaxLoads
  /\ LET clock == FsdbPass(l.clock, 0, Unset, ValueXz0)
         masks == FsdbPass(l.clock, 0, Unset, XzMask)
         edges == EdgeTimes(l, clock, [i \in DOMAIN masks |-> masks[i].value # 0])
         begin == BeginTime(l, edges)
         end   == EndTime(l, edges)
         pass(mode) == FsdbPass(l.signal, begin, end, mode)
         values     == pass(IF l.xzValue = 1 THEN ValueXz1 ELSE ValueXz0)
     IN  outcome' =
           IF \/ ~Exclusive(l) \/ l.xzValue \notin {0, 1} \/ ~Decodable(l.signal) \/ ~Decodable(l.clock)
              \/ ~UsableClock(l, clock, edges)
           THEN Failed
           ELSE Finalized(l, Field(l, Sampled(l, values, FieldFlags(l, pass(XzMask)), edges)))
  /\ load' = l /\ loads' = loads + 1
  /\ UNCHANGED <<file, phase>>

\* A load of an FSDB file returns what the file says; it cannot read a character that
\* is no bit, and takes no replacement of an x but a bit.
FsdbPromise ==
  IF load.xzValue \notin {0, 1} \/ ~Decodable(load.signal) THEN Failed
  ELSE Promised(load, FileList(load.clock), FileList(load.signal), [k \in 1 .. Width(load.signal) |-> "x"])
=============================================================================
