------------------------------ MODULE VcdHeader ------------------------------
(***************************************************************************)
(* VCDParser._parse_header: the sections of a header are read in their     *)
(* order, and the declared variables become signals.  Bits that were       *)
(* declared one by one become a bus again when they are all there.         *)
(*                                                                         *)
(* A text is a sequence of atoms, of which "." and "__" matter here; a     *)
(* suffix is a sequence of brackets, <<bit>> or <<msb, lsb>>.  A path is   *)
(* [text, suffix].  A section is read as a whole, its body as a record.    *)
(***************************************************************************)
EXTENDS Integers, SequencesExt, FiniteSetsExt

CONSTANTS
  Headers,      (* bound: the headers tried                                  *)
  MaxDepth,     (* MAX_SCOPE_DEPTH                                           *)
  MaxVars,      (* MAX_VARS                                                  *)
  MaxWidth,     (* MAX_SIGNAL_WIDTH                                          *)
  MaxBits,      (* MAX_REASSEMBLE_BITS                                       *)
  MaxInitial    (* MAX_INITIAL_TOKENS                                        *)

VARIABLES
  header,       (* the sections                                              *)
  at,           (* sections read                                             *)
  stage,        (* sections, line (after $enddefinitions), ready or failed   *)
  scope,        (* scope: the names of the open scopes                       *)
  rawVars,      (* raw_vars                                                  *)
  initial,      (* _initial_tokens, their number                             *)
  signals,      (* self.signals, in the order of the dictionary              *)
  bitMap        (* _bit_map: [sym, id, bit]                                  *)

headerVars == <<header, at, stage, scope, rawVars, initial, signals, bitMap>>

HeaderInit ==
  /\ header \in Headers /\ at = 0 /\ stage = "sections" /\ scope = <<>>
  /\ rawVars = <<>> /\ initial = 0 /\ signals = <<>> /\ bitMap = {}

Joined(names) ==
  FoldLeft(LAMBDA text, name : IF text = <<>> THEN name ELSE text \o <<".">> \o name, <<>>, names)

PathOf(sc, name) == [name EXCEPT !.text = IF sc = <<>> THEN @ ELSE sc \o <<".">> \o @]

-----------------------------------------------------------------------------
(* Reading the sections.                                                    *)

Section(kw) == stage = "sections" /\ at < Len(header) /\ header[at + 1].kw = kw /\ at' = at + 1
Body == header[at + 1]
Fail == stage' = "failed"

EnterScope ==
  /\ Section("$scope")
  /\ CASE Body.name = <<>> -> UNCHANGED <<stage, scope>>
       [] Body.name # <<>> /\ Len(scope) >= MaxDepth -> Fail /\ UNCHANGED scope
       [] OTHER -> scope' = Append(scope, Body.name) /\ UNCHANGED stage
  /\ UNCHANGED <<header, rawVars, initial, signals, bitMap>>

\* $upscope without an open scope is ignored.
LeaveScope ==
  /\ Section("$upscope")
  /\ scope' = IF scope = <<>> THEN <<>> ELSE Front(scope)
  /\ UNCHANGED <<header, stage, rawVars, initial, signals, bitMap>>

Abs(n) == IF n < 0 THEN -n ELSE n

\* The size is <<width>>, <<msb, lsb>>, or <<>> when it cannot be read.
SizeOf(size) == IF Len(size) = 1 THEN size[1] ELSE Abs(size[1] - size[2]) + 1

\* The range of a reference is part of the name; a single bit is kept apart.
Declared ==
  LET w == SizeOf(Body.size)
  IN  [sym |-> Body.sym, width |-> w, scope |-> Joined(scope), type |-> Body.type,
       name |-> IF w > 1 THEN [Body.name EXCEPT !.suffix = @ \o Body.ref] ELSE Body.name,
       ref |-> IF w > 1 THEN <<>> ELSE Body.ref]

\* A body that cannot be read is skipped, one that is too large ends the parse.
DeclareVar ==
  /\ Section("$var")
  /\ CASE Body.size = <<>> -> UNCHANGED <<stage, rawVars>>
       [] Body.size # <<>> /\ SizeOf(Body.size) \notin 1 .. MaxWidth -> Fail /\ UNCHANGED rawVars
       [] Body.size # <<>> /\ SizeOf(Body.size) \in 1 .. MaxWidth ->
            IF Body.sym = <<>> THEN UNCHANGED <<stage, rawVars>>
            ELSE IF Len(rawVars) >= MaxVars THEN Fail /\ UNCHANGED rawVars
            ELSE rawVars' = Append(rawVars, Declared) /\ UNCHANGED stage
  /\ UNCHANGED <<header, scope, initial, signals, bitMap>>

EndDefinitions ==
  /\ Section("$enddefinitions")
  /\ stage' = "line"
  /\ UNCHANGED <<header, scope, rawVars, initial, signals, bitMap>>

\* $comment, $date, $version and $timescale, and tokens outside of a section.
OtherSection ==
  /\ Section("other")
  /\ UNCHANGED <<header, stage, scope, rawVars, initial, signals, bitMap>>

\* What follows on the line of $enddefinitions belongs to the data.
BufferToken ==
  /\ stage = "line" /\ at < Len(header) /\ at' = at + 1
  /\ IF initial >= MaxInitial THEN Fail /\ UNCHANGED initial
     ELSE initial' = initial + 1 /\ UNCHANGED stage
  /\ UNCHANGED <<header, scope, rawVars, signals, bitMap>>

-----------------------------------------------------------------------------
(* Making signals of the variables.                                         *)

\* A one-bit variable with a bit for a reference.
IsBit(v) == v.width = 1 /\ v.ref # <<>> /\ Len(v.ref[1]) = 1
BitIndex(v) == v.ref[1][1]
GroupOf(v) == <<v.scope, v.name>>

BitVars == SelectSeq(rawVars, IsBit)
GroupBits(g) == SelectSeq(BitVars, LAMBDA v : GroupOf(v) = g)
Indices(g) == {BitIndex(v) : v \in ToSet(GroupBits(g))}

\* The groups in the order of their first bits.
GroupList ==
  LET firsts == SelectSeq([i \in DOMAIN BitVars |-> i],
                          LAMBDA i : \A j \in 1 .. i - 1 : GroupOf(BitVars[j]) # GroupOf(BitVars[i]))
  IN  [k \in DOMAIN firsts |-> GroupOf(BitVars[firsts[k]])]

\* Mutant: bits that do not start at 0 are a bus, too.
IsBusOfAny(g) ==
  /\ Len(GroupBits(g)) = Cardinality(Indices(g)) /\ Cardinality(Indices(g)) >= 2

\* No bit twice, at least two of them, and all of them from 0 up.
IsBus(g) ==
  /\ Len(GroupBits(g)) = Cardinality(Indices(g)) /\ Cardinality(Indices(g)) >= 2
  /\ Max(Indices(g)) + 1 = Cardinality(Indices(g)) /\ 0 \in Indices(g)

\* standalone: the bits that make no bus follow the rest.
Standalone ==
  LET named(v) == [v EXCEPT !.name.suffix = @ \o v.ref]
      rest == SelectSeq(rawVars, LAMBDA v : ~IsBit(v))
      bits == SelectSeq(BitVars, LAMBDA v : ~IsBus(GroupOf(v)))
  IN  [i \in DOMAIN rest |-> named(rest[i])] \o [i \in DOMAIN bits |-> named(bits[i])]

Signal(id, path, width, type, sc) ==
  [id |-> id, aliases |-> <<path>>, width |-> width, type |-> type,
   scopes |-> IF sc = <<>> THEN <<>> ELSE <<sc>>]

\* Mutant: the path of an identifier that is known already is lost.
FirstPathOnly(list, v) ==
  IF \E s \in ToSet(list) : s.id = v.sym THEN list
  ELSE Append(list, Signal(v.sym, PathOf(v.scope, v.name), v.width, v.type, v.scope))

\* A variable under an identifier that is known already is an alias: the width and
\* the type stay those of the first.
Register(list, v) ==
  LET path == PathOf(v.scope, v.name)
  IN  IF \E s \in ToSet(list) : s.id = v.sym
      THEN [i \in DOMAIN list |->
              IF list[i].id # v.sym THEN list[i]
              ELSE [list[i] EXCEPT !.aliases = Append(@, path),
                                   !.scopes = IF v.scope = <<>> \/ v.scope \in ToSet(@) THEN @
                                              ELSE Append(@, v.scope)]]
      ELSE Append(list, Signal(v.sym, path, v.width, v.type, v.scope))

\* sig_id of a bus: its scope and its name, joined by two underscores.
GroupId(g) == <<"__grp__">> \o g[1] \o <<"__">> \o g[2].text

Bus(g) ==
  LET top == Max(Indices(g))
  IN  Signal(GroupId(g), PathOf(g[1], [g[2] EXCEPT !.suffix = @ \o <<<<top, 0>>>>]),
             top + 1, Last(GroupBits(g)).type, g[1])

\* A bus replaces what has its identifier.
AddBus(list, g) ==
  IF \E s \in ToSet(list) : s.id = GroupId(g)
  THEN [i \in DOMAIN list |-> IF list[i].id = GroupId(g) THEN Bus(g) ELSE list[i]]
  ELSE Append(list, Bus(g))

Buses == SelectSeq(GroupList, IsBus)

\* The end of the file, or of the line of $enddefinitions.
MakeSignals ==
  /\ stage \in {"sections", "line"} /\ at = Len(header)
  /\ IF \E g \in ToSet(GroupList) : Cardinality(Indices(g)) > MaxBits
     THEN Fail /\ UNCHANGED <<signals, bitMap>>
     ELSE /\ stage' = "ready"
          /\ signals' = FoldLeft(AddBus, FoldLeft(Register, <<>>, Standalone), Buses)
          /\ bitMap' = UNION {{[sym |-> v.sym, id |-> GroupId(g), bit |-> BitIndex(v)] :
                                 v \in ToSet(GroupBits(g))} : g \in ToSet(Buses)}
  /\ UNCHANGED <<header, at, scope, rawVars, initial>>

HeaderNext ==
  \/ EnterScope \/ LeaveScope \/ DeclareVar \/ EndDefinitions \/ OtherSection \/ BufferToken
  \/ MakeSignals

-----------------------------------------------------------------------------
\* The identifiers of two buses differ.
IdsDiffer == \A g, h \in ToSet(Buses) : GroupId(g) = GroupId(h) => g = h

\* Every declared variable is found under its own path: as an alias of its
\* identifier, or as the bit of a bus that it drives.
EveryVarFound ==
  stage = "ready" /\ IdsDiffer => \A v \in ToSet(rawVars) : \E s \in ToSet(signals) :
    \/ s.id = v.sym /\ PathOf(v.scope, [v.name EXCEPT !.suffix = @ \o v.ref]) \in ToSet(s.aliases)
    \/ /\ IsBit(v) /\ [sym |-> v.sym, id |-> s.id, bit |-> BitIndex(v)] \in bitMap
       /\ BitIndex(v) < s.width /\ PathOf(v.scope, v.name).text = s.aliases[1].text

\* Each bit of a bus is driven by exactly one variable, declared as that bit of that name.
BitsDriven(s) ==
  \A b \in 0 .. s.width - 1 :
    /\ Cardinality({m \in bitMap : m.id = s.id /\ m.bit = b}) = 1
    /\ \E v \in ToSet(rawVars) : /\ IsBit(v) /\ BitIndex(v) = b
                                 /\ PathOf(v.scope, v.name).text = s.aliases[1].text

\* No bit of a bus is made up, and none drives a bus that is not there.  ("must NOT be
\* synthesized as a bus[4:0] with phantom lower bits")
NoPhantomBits ==
  /\ \A m \in bitMap : \E s \in ToSet(signals) : s.id = m.id /\ m.bit < s.width
  /\ IdsDiffer => \A s \in ToSet(signals) : (\E m \in bitMap : m.id = s.id) => BitsDriven(s)
=============================================================================
