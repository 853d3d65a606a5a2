------------------------------ MODULE VcdStream ------------------------------
(***************************************************************************)
(* The value changes of a VCD file: VCDParser.iter_events replays them for *)
(* a query, VCDParser.scan_time_range finds the first and the last time.   *)
(* Both walk over the tokens of the file with one token of look-ahead,     *)
(* kept in a stack, and one parser object serves any number of walks.      *)
(*                                                                         *)
(* A token is a string.  What it stands for where the walk is between two  *)
(* value changes is given by the functions below; as the identifier of a   *)
(* vector, a real or a port value any token will do.                       *)
(***************************************************************************)
EXTENDS Integers, SequencesExt, Ranks

CONSTANTS
  Files,      (* bound: the data sections tried                              *)
  Walks(_),   (* bound: the walks tried over a file, records                 *)
              (* [kind, t0, t1, sids]                                        *)
  MaxWalks(_),(* bound: how many of them, one after the other                *)
  NoTime,     (* None, as a time                                             *)
  Malformed,  (* a timestamp int() refuses                                   *)
  TooLarge,   (* a timestamp beyond MAX_TIME_TICKS                           *)
  Stamp,      (* timestamp tokens, with their time                           *)
  Scalar,     (* "1!" and the like, with [sym, value]                        *)
  Vector,     (* well-formed b and r tokens, with their value                *)
  Port,       (* well-formed p tokens, with their value                      *)
  Strengths,  (* the tokens 0 to 7                                           *)
  Wrappers,   (* _SIM_KEYWORDS                                               *)
  Sections,   (* every other token that begins with $                        *)
  End,        (* $end                                                        *)
  Width,      (* self.signals: every signal and every bus, with its width    *)
  Unsized,    (* the signals declared real, realtime or event                *)
  BitMap      (* self._bit_map: identifiers of bits, with <<bus, index>>s    *)

\* A token of one digit opens neither a section nor a value change.
ASSUME TokenAssumption ==
  /\ Files \subseteq Seq(STRING) /\ Strengths \subseteq STRING
  /\ Strengths \intersect (Sections \union DOMAIN Vector \union DOMAIN Port) = {}

\* What a token is between two value changes shows by its first character.
ASSUME KindAssumption ==
  LET kinds == <<Wrappers \union {End}, Sections, DOMAIN Stamp, DOMAIN Scalar, DOMAIN Vector,
                 DOMAIN Port>>
  IN  \A i, j \in 1 .. 6 : i # j => kinds[i] \intersect kinds[j] = {}

\* The times of a walk are ticks; it need not have a last one.
ASSUME WalkAssumption ==
  /\ NoTime \notin Nat
  /\ \A f \in Files : \A w \in Walks(f) :
       w.kind \in {"replay", "scan"} /\ w.t0 \in Nat /\ w.t1 \in Nat \union {NoTime}

Text == Seq(STRING)

\* int() makes a number without a sign of a timestamp, unless it refuses.
ASSUME StampAssumption ==
  \A tok \in DOMAIN Stamp : Stamp[tok] \in Nat \union {Malformed, TooLarge}

\* A token without a value is not well-formed.
ASSUME ValueAssumption ==
  LET Some == Text \ {<<>>}
  IN  /\ \A tok \in DOMAIN Scalar : Scalar[tok].sym \in STRING /\ Scalar[tok].value \in Some
      /\ \A tok \in DOMAIN Vector : Vector[tok] \in Some
      /\ \A tok \in DOMAIN Port : Port[tok] \in Some

\* What the header made: the bits of a bus are drawn from its width.
ASSUME SignalAssumption ==
  /\ DOMAIN Width \subseteq STRING /\ Width \in [DOMAIN Width -> Nat]
  /\ Unsized \subseteq DOMAIN Width
  /\ BitMap \in [DOMAIN BitMap -> Seq((DOMAIN Width) \X Nat)]

VARIABLES
  file,       (* the data section                                            *)
  raw,        (* what _data_tokens has still to yield                        *)
  pushback,   (* tokens given back, the next one last                        *)
  mode,       (* idle, top, value (inside a value change) or section         *)
  walk,       (* the arguments of the walk                                   *)
  carry,      (* of a value change: its value, strengths due, strengths read *)
  now,        (* cur_t                                                       *)
  bits,       (* bit_state: of each bus its bits, bit 0 first                *)
  pending,    (* pending, in insertion order                                 *)
  out,        (* the events yielded                                          *)
  range,      (* t_min, t_max and saw_initial_data of a scan                 *)
  done        (* the walks that ended                                        *)

parse == <<raw, pushback, mode, carry>>
effect == <<now, bits, pending, out, range>>
vars == <<file, walk, done, parse, effect>>

Buses == {ref[1] : ref \in UNION {{BitMap[s][i] : i \in DOMAIN BitMap[s]} : s \in DOMAIN BitMap}}

\* What the header made of a bus: a bit has one identifier only.  The name it gave
\* the bus begins with "__grp__", which no identifier of the file does.
ASSUME BusAssumption ==
  /\ \A s \in DOMAIN BitMap : \A i \in DOMAIN BitMap[s] : BitMap[s][i][2] < Width[BitMap[s][i][1]]
  /\ \A r, s \in DOMAIN BitMap : ToSet(BitMap[r]) \intersect ToSet(BitMap[s]) # {} => r = s
  /\ Buses \intersect DOMAIN BitMap = {}
  /\ \A tok \in DOMAIN Scalar : Scalar[tok].sym \notin Buses
  /\ \A f \in Files : Buses \intersect ToSet(f) = {}

NoRange == [min |-> NoTime, max |-> NoTime, initial |-> FALSE]

Init ==
  /\ file \in Files
  /\ raw = <<>> /\ pushback = <<>> /\ mode = "idle"
  /\ walk = (CHOOSE w \in Walks(file) : TRUE) /\ carry = [value |-> <<>>, due |-> 0, read |-> <<>>]
  /\ now = 0 /\ bits = [g \in {} |-> <<>>] /\ pending = <<>> /\ out = <<>> /\ range = NoRange
  /\ done = <<>>

\* Mutant: the state of the bits outlives a walk.
BitsKept(w) ==
  [g \in Buses \intersect w.sids |->
     IF g \in DOMAIN bits THEN bits[g] ELSE [i \in 1 .. Width[g] |-> "x"]]

\* Only the buses that are asked for keep their bits.
NewBits(w) == [g \in Buses \intersect w.sids |-> [i \in 1 .. Width[g] |-> "x"]]

Begin(w) ==
  /\ mode = "idle"
  /\ walk' = w /\ raw' = file /\ pushback' = <<>> /\ mode' = "top"
  /\ now' = 0 /\ bits' = NewBits(w) /\ pending' = <<>> /\ out' = <<>> /\ range' = NoRange
  /\ UNCHANGED <<file, carry, done>>

-----------------------------------------------------------------------------
(* The tokens: given back ones first, the last given back before the others. *)

More == pushback # <<>> \/ raw # <<>>
Token == IF pushback # <<>> THEN Last(pushback) ELSE Head(raw)
RestBack == IF pushback # <<>> THEN Front(pushback) ELSE <<>>
RestRaw == IF pushback # <<>> THEN raw ELSE Tail(raw)

Pop == pushback' = RestBack /\ raw' = RestRaw

\* Mutant: the tokens go back in the order they came.
GiveBackInOrder(tokens) == pushback' = RestBack \o tokens /\ raw' = RestRaw

\* The tokens go back so that the first of them is the next to come.
GiveBack(tokens) == pushback' = RestBack \o Reverse(tokens) /\ raw' = RestRaw

\* A timestamp is an identifier only where one is declared with that name.
Structural(tok) ==
  tok \in DOMAIN Stamp /\ tok \notin DOMAIN Width /\ tok \notin DOMAIN BitMap

-----------------------------------------------------------------------------
(* What a value change and a timestamp do.                                  *)

IsBits(value) == \A i \in DOMAIN value : value[i] \in {"0", "1", "x", "z"}

\* A value that is too long is not cut down to something plausible; whatever is given
\* to a real number or an event stays as it is.
Clamp(sym, value) ==
  IF sym \notin Unsized /\ IsBits(value) /\ Len(value) > Width[sym]
  THEN [i \in 1 .. Width[sym] |-> "x"] ELSE value

BitOf(value) == IF IsBits(value) /\ Len(value) = 1 THEN value[1] ELSE "x"

\* The bits that sym drives, as pairs of a bus and an index.
Refs(sym) == IF sym \in DOMAIN BitMap THEN BitMap[sym] ELSE <<>>

\* Those of the selected buses change.
Drive(sym, value) ==
  [g \in DOMAIN bits |-> [i \in DOMAIN bits[g] |->
     IF <<g, i - 1>> \in ToSet(Refs(sym)) THEN BitOf(value) ELSE bits[g][i]]]

\* Mutant: every change of a bit is an event.
PutEvery(dict, sid, value) == Append(dict, [sid |-> sid, value |-> value])

\* A dictionary keeps the place of a key that is set again.
Put(dict, sid, value) ==
  IF \E i \in DOMAIN dict : dict[i].sid = sid
  THEN [i \in DOMAIN dict |-> IF dict[i].sid = sid THEN [sid |-> sid, value |-> value] ELSE dict[i]]
  ELSE Append(dict, [sid |-> sid, value |-> value])

\* Mutant: a signal that is a bit of a bus is that bit only.
StandaloneUnlessBit(sym) == sym \in DOMAIN Width \intersect walk.sids /\ Refs(sym) = <<>>

Standalone(sym) == sym \in DOMAIN Width \intersect walk.sids

\* The buses of the refs that have a value, one after the other.
PutAll(dict, refs, values) ==
  LET put[n \in 0 .. Len(refs)] ==
        IF n = 0 THEN dict
        ELSE IF refs[n][1] \in DOMAIN values
             THEN Put(put[n - 1], refs[n][1], values[refs[n][1]]) ELSE put[n - 1]
  IN  put[Len(refs)]

\* The value of a bus is its bits from the highest down.
PutBuses(sym) == PutAll(pending, Refs(sym), [g \in DOMAIN bits |-> Reverse(bits'[g])])

Change(sym, value) ==
  IF walk.kind = "scan"
  THEN /\ range' = [range EXCEPT !.initial = @ \/ range.min = NoTime]
       /\ UNCHANGED <<now, bits, pending, out>>
  ELSE /\ bits' = Drive(sym, value)
       /\ pending' = IF now < walk.t0 THEN pending
                     ELSE IF Standalone(sym) THEN Put(PutBuses(sym), sym, Clamp(sym, value))
                          ELSE PutBuses(sym)
       /\ UNCHANGED <<now, out, range>>

Flushed ==
  IF now < walk.t0 THEN out
  ELSE out \o [i \in DOMAIN pending |->
                 [at |-> now, sid |-> pending[i].sid, value |-> pending[i].value]]

\* Mutant: data before the first timestamp does not count.
FirstTimeLate(t) == t

FirstTime(t) == IF range.initial THEN 0 ELSE t

Later(t) == IF range.max = NoTime \/ t > range.max THEN t ELSE range.max

-----------------------------------------------------------------------------
(* The steps of the walk between two value changes.                         *)

AtTop(tok) == mode = "top" /\ More /\ Token = tok

Mark(tok) ==
  /\ AtTop(tok) /\ tok \in Wrappers \union {End}
  /\ Pop /\ UNCHANGED <<file, walk, done, mode, carry, effect>>

OpenSection(tok) ==
  /\ AtTop(tok) /\ tok \in Sections
  /\ Pop /\ mode' = "section"
  /\ UNCHANGED <<file, walk, done, carry, effect>>

\* The body of a section is read past the tokens that were given back.
SkipSection ==
  /\ mode = "section"
  /\ IF raw = <<>> THEN mode' = "top" /\ raw' = raw
     ELSE /\ raw' = Tail(raw)
          /\ mode' = IF Head(raw) = End THEN "top" ELSE "section"
  /\ UNCHANGED <<file, walk, done, pushback, carry, effect>>

Result(ok, events, times) == [walk |-> walk, ok |-> ok, out |-> events, range |-> times]

EndWalk(result) == mode' = "idle" /\ done' = Append(done, result)

SkipStamp(tok) ==
  /\ AtTop(tok) /\ tok \in DOMAIN Stamp /\ Stamp[tok] = Malformed
  /\ Pop /\ UNCHANGED <<file, walk, done, mode, carry, effect>>

StampTooLarge(tok) ==
  /\ AtTop(tok) /\ tok \in DOMAIN Stamp /\ Stamp[tok] = TooLarge
  /\ Pop /\ EndWalk(Result(FALSE, out, range))
  /\ UNCHANGED <<file, walk, carry, effect>>

ReplayStamp(tok) ==
  /\ AtTop(tok) /\ tok \in DOMAIN Stamp /\ Stamp[tok] \notin {Malformed, TooLarge}
  /\ walk.kind = "replay"
  /\ Pop
  /\ now' = Stamp[tok] /\ out' = Flushed
  /\ pending' = IF now < walk.t0 THEN pending ELSE <<>>
  /\ IF walk.t1 # NoTime /\ Stamp[tok] > walk.t1
     THEN EndWalk(Result(TRUE, Flushed, range)) ELSE UNCHANGED <<mode, done>>
  /\ UNCHANGED <<file, walk, carry, bits, range>>

ScanStamp(tok) ==
  /\ AtTop(tok) /\ tok \in DOMAIN Stamp /\ Stamp[tok] \notin {Malformed, TooLarge}
  /\ walk.kind = "scan"
  /\ Pop
  /\ range' = [range EXCEPT !.min = IF @ = NoTime THEN FirstTime(Stamp[tok]) ELSE @,
                            !.max = Later(Stamp[tok])]
  /\ UNCHANGED <<file, walk, done, mode, carry, now, bits, pending, out>>

ScalarChange(tok) ==
  /\ AtTop(tok) /\ tok \in DOMAIN Scalar
  /\ Pop /\ Change(Scalar[tok].sym, Scalar[tok].value)
  /\ UNCHANGED <<file, walk, done, mode, carry>>

BeginValue(tok) ==
  /\ AtTop(tok) /\ tok \in DOMAIN Vector \union DOMAIN Port
  /\ Pop /\ mode' = "value"
  /\ carry' = IF tok \in DOMAIN Vector THEN [value |-> Vector[tok], due |-> 0, read |-> <<>>]
              ELSE [value |-> Port[tok], due |-> 2, read |-> <<>>]
  /\ UNCHANGED <<file, walk, done, effect>>

\* Neither a timestamp nor a keyword nor a value change.
Junk(tok) ==
  /\ AtTop(tok)
  /\ tok \notin Wrappers \union Sections \union {End} \union DOMAIN Stamp \union DOMAIN Scalar
                \union DOMAIN Vector \union DOMAIN Port
  /\ Pop /\ UNCHANGED <<file, walk, done, mode, carry, effect>>

Finish ==
  /\ mode = "top" /\ ~More
  /\ LET times == IF range.min = NoTime /\ range.initial
                  THEN [range EXCEPT !.min = 0, !.max = 0] ELSE range
     IN  IF walk.kind = "replay" THEN EndWalk(Result(TRUE, Flushed, range))
         ELSE EndWalk(Result(TRUE, out, times))
  /\ UNCHANGED <<file, walk, raw, pushback, carry, effect>>

-----------------------------------------------------------------------------
(* Inside a vector, a real or a port value.                                 *)

TakeStrength(tok) ==
  /\ mode = "value" /\ carry.due > 0 /\ More /\ Token = tok /\ tok \in Strengths
  /\ Pop /\ carry' = [carry EXCEPT !.due = @ - 1, !.read = Append(@, tok)]
  /\ UNCHANGED <<file, walk, done, mode, effect>>

TakeIdentifier(tok) ==
  /\ mode = "value" /\ carry.due = 0 /\ More /\ Token = tok /\ ~Structural(tok)
  /\ Pop /\ mode' = "top" /\ Change(tok, carry.value)
  /\ UNCHANGED <<file, walk, done, carry>>

GiveUp ==
  /\ mode = "value" /\ mode' = "top"
  /\ IF More
     THEN /\ IF carry.due > 0 THEN Token \notin Strengths ELSE Structural(Token)
          /\ GiveBack(Append(carry.read, Token))
     ELSE pushback' = Reverse(carry.read) /\ raw' = raw
  /\ UNCHANGED <<file, walk, done, carry, effect>>

\* The caller drops the generator, or an exception goes through it.
Abandon ==
  /\ mode # "idle"
  /\ EndWalk(Result(FALSE, out, range))
  /\ UNCHANGED <<file, walk, raw, pushback, carry, effect>>

Next ==
  \/ Len(done) < MaxWalks(file) /\ \E w \in Walks(file) : Begin(w)
  \/ \E tok \in ToSet(file) :
       \/ Mark(tok) \/ OpenSection(tok) \/ SkipStamp(tok) \/ StampTooLarge(tok)
       \/ ReplayStamp(tok) \/ ScanStamp(tok) \/ ScalarChange(tok) \/ BeginValue(tok) \/ Junk(tok)
       \/ TakeStrength(tok) \/ TakeIdentifier(tok)
  \/ SkipSection \/ GiveUp \/ Finish \/ Abandon

Spec == Init /\ [][Next]_vars

-----------------------------------------------------------------------------
\* What is given back, and what is read but may still be given back, goes before
\* the rest of the file in the order of the file: a malformed value change never
\* reorders, drops or doubles the tokens after it.
InFileOrder ==
  mode \in {"top", "value"} =>
    IsSuffix((IF mode = "value" THEN carry.read ELSE <<>>) \o Reverse(pushback) \o raw, file)

\* The body of a section is taken from the file, past the tokens given back: that
\* skips the section and nothing else because there are none then.
SkipsItsOwnBody == mode = "section" => pushback = <<>>

\* The timestamps of the file go forward.
Forward ==
  LET stamps == {i \in DOMAIN file : file[i] \in DOMAIN Stamp}
  IN  /\ \A i \in stamps : Stamp[file[i]] \notin {Malformed, TooLarge}
      /\ \A i, j \in stamps : i < j => Stamp[file[i]] < Stamp[file[j]]

Whole(w) == w.t0 = 0 /\ w.t1 = NoTime /\ w.sids = DOMAIN Width

\* An event the walk asks for.
Wanted(w, e) ==
  e.sid \in w.sids /\ e.at >= w.t0 /\ (w.t1 # NoTime => e.at <= w.t1)

\* The members of a list at some of its places, in its order.
Only(events, places) ==
  LET at == Ascends(places) IN [p \in DOMAIN at |-> events[at[p]]]

Part(events, w) == Only(events, {i \in DOMAIN events : Wanted(w, events[i])})

\* A replay with bounds or for some signals only is the part of the whole replay
\* that was asked for, whatever ran over the parser before or was broken off.
ReplayIsPart ==
  \A f, r \in ToSet(done) :
    /\ f.ok /\ r.ok /\ f.walk.kind = "replay" /\ r.walk.kind = "replay"
    /\ Whole(f.walk) /\ (r.walk.t1 = NoTime \/ Forward)
    => r.out = Part(f.out, r.walk)

\* The events of a signal go forward.  Only at 0 it may have two: one of the data before
\* the first timestamp and one of the data after "#0".
GoForward(events) ==
  \A i, j \in DOMAIN events : i < j /\ events[i].sid = events[j].sid =>
    events[i].at < events[j].at \/ (events[i].at = 0 /\ events[j].at = 0)

\* A signal has one event at a time, and its events go forward when the file does:
\* what the readers take for granted of a list of changes.
OneEventAtATime == Forward => GoForward(out) /\ \A k \in DOMAIN done : GoForward(done[k].out)

\* The last event of the signal up to t, 0 when there is none.
IsLastOf(events, sid, t, k) ==
  LET there == {i \in DOMAIN events : events[i].sid = sid /\ events[i].at <= t}
  IN  k \in there \union {0} /\ \A i \in there : i <= k

LastOf(events, sid, t) == CHOOSE k \in 0 .. Len(events) : IsLastOf(events, sid, t, k)

\* A bit of a value of the signal; a real number has none.
BitIn(sid, bit, value) == IF IsBits(value) THEN value[Width[sid] - bit] ELSE "x"

\* The bit that the signal shows at t.
ShownBit(events, sid, bit, t) ==
  LET k == LastOf(events, sid, t)
  IN  IF k = 0 THEN "x" ELSE BitIn(sid, bit, events[k].value)

\* A real number or an event that shares its identifier with a bit has no bits.
Aliases == {sym \in DOMAIN Width \intersect DOMAIN BitMap : Width[sym] = 1 /\ sym \notin Unsized}

\* An identifier that is both a signal of its own and a bit of a bus shows the same
\* value in both at every time, also after a text that is too long for either.
AliasesAgree ==
  Forward => \A n \in DOMAIN done :
    LET r == done[n]
    IN  r.ok /\ r.walk.kind = "replay" /\ Whole(r.walk) =>
          \A sym \in Aliases : \A k \in DOMAIN BitMap[sym] :
            \A t \in {r.out[i].at : i \in DOMAIN r.out} :
              ShownBit(r.out, BitMap[sym][k][1], BitMap[sym][k][2], t) = ShownBit(r.out, sym, 0, t)

\* The range of the file covers every event of it.
RangeCovers ==
  \A s, r \in ToSet(done) :
    s.ok /\ r.ok /\ s.walk.kind = "scan" /\ r.walk.kind = "replay" =>
      \A e \in ToSet(r.out) : s.range.min <= e.at /\ e.at <= s.range.max

\* It does so where the times of the file go forward.
RangeCoversForward == Forward => RangeCovers
=============================================================================
