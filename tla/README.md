# WaveKit+ in TLA+

WaveKit+ loads the value changes of digital signals from a waveform file (VCD,
FST or FSDB), samples them on the edges of a clock, and searches the samples for
temporal patterns, declarative or written as coroutines.  This directory holds
a specification of it: what the scheduler of patterns, the interpreter of
declarative patterns, the parser of VCD files, the three readers, the search for
names, the waveform operations and the results do step by step, what they
promise, and the checks and proofs that connect the two.

Paths below are relative to `src/src/wavekit/` unless they start with `src/`.

## The system

| component | state | operations | module |
|---|---|---|---|
| Pattern runtime, `pattern/runtime.py` | epoch counter, channels with a (epoch, index) mark, scan axis, live candidates, completed candidates | `match`, `collect`, `_run`, `_advance_instance`, `channel_free`, `consume_channel`, `note_waveform`, the four awaitables of `PatternContext` | `PatternRuntime`, `MatchContract` |
| Declarative patterns, `pattern/dsl.py`, `steps.py`, `compiler.py` | a step list, and per candidate the steps still to run and the captures | nine builder calls, `compile_declarative_pattern`, `infer_declarative_axis`, `Pattern.match` | `DeclarativePattern`, `PatternMeaning` |
| Match results, `pattern/result.py`, the tail of `match` | columns, one row per candidate | building, filters by status, JSON | `MatchResults` |
| VCD event stream, `readers/vcd/vcd_parser.py` 583 to the end | per walk: stream, push-back stack, time, bit state, pending events | `iter_events`, `scan_time_range` | `VcdStream` |
| VCD header, `vcd_parser.py` 282-581 | scope stack, declared signals, groups of bits | `_parse_header` | `VcdHeader` |
| VCD reader, `readers/vcd/reader.py` | cache of value-change lists | `_ensure_cached`, `load_waveform`, the scope tree | `VcdReader`, `ScopeTrees` |
| FST reader, `readers/fst/reader.py` | mask and time limit of the native handle | `load_waveform`, the scope tree | `FstReader`, `ScopeTrees` |
| FSDB reader, `readers/fsdb/` | none between loads | `load_waveform`, four passes over the database, decoding | `FsdbReader`, `ScopeTrees` |
| Reader base, `readers/base.py` | none | what every load ends with; `get_matched_signals`, `load_matched_waveforms`, `eval` | `ReaderBase`, `Names` |
| Clock edges, `readers/edge_detect.py` | none | `select_clock_edges` | `SampleHold` |
| Resampling, `readers/value_change.py`, `.pyx` | two indices and three result arrays | `value_change_to_value_array` | `Resample`, `SampleHold` |
| Scopes and name patterns, `scope.py`, `signal.py`, `readers/pattern_parser.py` | the tree of scopes | matching from the top and within a scope | `ScopeMatch` |
| Waveform algebra, `waveform.py` | none (immutable arrays) | selection, windows, shifts, arithmetic, fields, signs, edges | `Waveforms`, `WaveformAlgebra`, `WaveformSession` |
| Serialisation, `serialize.py` | none | JSON forms of waveforms and results | `Serialize`, `MatchResults` |

How they interact.  A header is parsed once and becomes a list of signals and a
tree of scopes.  A pattern is matched against the tree, and every path it
finds is handed to `load_waveform` as a text.  A reader asks the event stream (or a
native library) for the changes of the signal and the clock, turns the clock's
changes into edges, the window's arguments into a part of these edges, and
hands both lists to the resampling loop.  The result is a `Waveform`: values, clock
numbers, times, and a mask of unknown samples that every operation has to carry
on.  A pattern looks at waveforms only through `ctx.value`, which reports each one
to the runtime (`note_waveform`); the first one reported becomes the scan axis if
none was given.  The interpreter of declarative patterns is one coroutine that
calls the same context methods as a user's coroutine does.  What comes out is
columns of starts, ends, verdicts and captures, filtered by status and written as
JSON.

### What is hard, component by component

**Pattern runtime.**  Nothing is parallel, and yet it is a scheduler: each cycle
starts a candidate, then advances every candidate in flight, oldest first, as
far as it can get in this cycle.  Candidates compete for channels, of which each
may be consumed once per cycle; the arbitration is one mark per channel, and a
`Channel` object survives its run, so a mark must be told from one of an
earlier, or a nested, run.  The active list is rebuilt while it is swept.  The
time limit is tested before a candidate's operation, its guard only while it is
blocked.  The length of the scan may be unknown until the first cycle has run.
Two limits guard against programs that do not stop (steps per candidate and
cycle) or pile up (`max_active`).
Correct means: no candidate lost or doubled; channels exclusive and granted to
the oldest; verdicts final, in time and for exactly the cycles asked for; every
run ends.

**Declarative patterns.**  The verdict of a candidate is spread over evaluation
of condition and guard, suspension, loops without a blocking step, a trigger
shortcut for the first wait, and captures that later steps and channel keys
read.  Correct means: the verdict, end and captures are what the step list says,
no matter when a candidate is suspended or what others do; requests and responses
pair up like a queue per key.

**VCD event stream.**  A look-ahead of one token, a push-back stack of several,
sections that are skipped on the raw stream, an identifier that may look like
a timestamp, may be a signal and a bit of several buses, changes before the
window that still drive bits, pending changes merged per time stamp.  Correct
means: a malformed change disturbs nothing after it; a part of a replay is the
part of the whole; aliases agree; one event of a signal at one time.

**VCD header.**  Scopes are opened and closed by hand, names may come with a
range or without, several variables share one identifier, and a bus may have been
declared bit by bit in any order, with gaps, doubles or other buses between.
Correct means: each variable is found under its own path, and a bus is put
together again only of bits that were all declared.

**The readers.**  Three of them, for three formats, make the same promise and
keep different things between loads: a cache that is filled while the scan runs
and edited afterwards (VCD), the mask and the limit of a native handle (FST), nothing
(FSDB, which joins the results of separate passes).  Windows by time and by cycle
rest on three searches that have to agree; cycles are numbered from the beginning of the
file; x and z around clock edges, and in the field of bits a path asks for, must
not count.  Correct means: a load depends on the file and its arguments only.

**Resampling.**  A loop compiled without bounds checks, with one index that never
goes back.  Correct means: inside its arrays, and the value held at each edge.

**Names.**  One pattern stands for many paths, under keys that later pair
signals with clocks; the search has a branch of its own for every kind of part,
once from the top and once within a scope.  Correct means: everything that
matches and nothing else, under its key; what is found can be loaded; what is
loaded together belongs together.

**Waveform algebra.**  A value lives in a machine word or in an object, depending
on a width that each operation computes beforehand, and the sign depends on the
array's type; an unknown sample has a value below its mask that nobody may see.
Correct means: results are those of the integers at their width, and the value
below the mask never shows.

**Results and JSON.**  The type of a column depends on all of its values, and JSON
holds no integers beyond 2^53.  Correct means: a row that is written is a row of
the run, with the values it had.

## The modules

| module | what it is |
|---|---|
| `PatternRuntime` | the scheduler, over every program |
| `MatchContract` | what the scheduler promises, without lists, marks and epochs |
| `PatternRuntimeProofs` | its types, exclusive channels, oldest first; the mapping to `MatchContract`, the proof that it is one, final verdicts |
| `PatternRuntimeTiming` | nobody lost, delays and verdicts in time, what stays suspended, complete reports |
| `DeclarativePattern` | the interpreter of step lists, composed with the scheduler |
| `PatternMeaning` | reference definitions: the meaning of a step list, the queue per key |
| `SampleHold` | edges, and the value held at a time |
| `Resample`, `ResampleProofs` | the resampling loop and its proofs |
| `VcdStream`, `VcdStreamProofs` | the event stream, and the proofs about its tokens and events |
| `VcdStreamReplay` | the proofs that compare two walks: a part of a replay, the range of a scan |
| `ReaderBase` | what the three readers share, and the promise of a load (`Promised`) |
| `VcdReader`, `FstReader`, `FsdbReader` | `load_waveform` of each |
| `Readers`, `ReadersProofs` | the three over one file, and the proofs about the shared cache |
| `VcdHeader` | `_parse_header`, section by section |
| `ScopeMatch` | patterns, keys, the search of a tree |
| `ScopeTrees` | the trees of the three readers, and the look-up of a path |
| `Names` | header, matching, matched loads and `eval` together |
| `Waveforms`, `WaveformAlgebra`, `Serialize` | the operations of a waveform, as functions |
| `MatchResults` | the columns of a result, filters, JSON |
| `WaveformSession` | chains of operations, beside a twin with other values below the mask |
| `WaveformProofs` | every operation keeps its waveform on a grid; windows agree; the run-length forms lose no value |
| `Ranks` | lists in the order of a key, for sorts, Boolean masks and parts of a list |
| `Lemmas` | induction, functions made step by step, and ordered lists, for all proofs |
| `MC*` | constants for TLC |

An operator called a *mutant* in its comment stands before the definition it
varies.  Nothing uses it: it is what the definition would be with a plausible
mistake in it, and with it in place TLC finds the property at hand violated.

### PatternRuntime

A candidate is named by the cycle index it starts in.  `pc` is the place the
scheduler is at: `scan` is the head of the `while` of `_run`, `sweep` the
`for` over the active list, `loop` the same-cycle loop of `_advance_instance`,
`resume` the coroutine between a `send` and its next yield, `closed` the time
between `_run` and the report.  Actions are the ways from one place to the
next:

| action | code |
|---|---|
| `NewRun` | `PatternRuntime.__init__`, the heads of `match`, `collect` and `_run` |
| `StartCandidate`, `EndSweep`, `CloseWindow` | `_run` |
| `TimeOut`, `BeginAdvance`, `StepLimitExceeded`, `FirstResume`, `Block`, `GuardFails`, `Unblock` | `_advance_instance` with `ready`, `commit` and `check_guard` of the operations |
| `Yield`, `Observe`, `TryConsume`, `NestedRun`, `ReturnOk`, `ReturnOther`, `ReturnNone`, `RequireFails`, `Raise` | what the coroutine may do with its context, return or raise |
| `FinishMatch`, `FinishCollect` | the tails of `match` and `collect` |

What a program is is left open: on each resume it may do any of these, and
conditions and guards hold or not as they please.  So a property of
`PatternRuntime` is one of every program over every waveform, a nested run of
another pattern included (`NestedRun` is what such a run does to a channel that
is visible outside: its own epoch in the mark).  `grants` and `refused` are
history: who consumed a channel and who was turned away in this cycle.

`MatchContract` admits one candidate per cycle, gives every live one exactly one
turn in order of age, lets it take channels nobody has and judges it once.
`PatternRuntimeProofs` maps the scheduler to it: `turn` is the element of the
active list at the sweep, `owner` the one who wrote a mark of this epoch and
cycle, `live` is read off the statuses.  Channels that a nested run shares are
not in the contract; see the findings.

### DeclarativePattern and PatternMeaning

`todo[c]` is the rest of the step list that candidate `c` still has to run, its
head the step it waits for; a loop puts its body in front of itself.  Each action
is an action of `PatternRuntime` with its choices made by the step list, the
waveforms (`signal`) and the captures, so `IsRuntime` says that the compiled
coroutine is one of the programs the other module speaks about.
An expression is a waveform, a number, a captured value or the comparison of the
two; a waveform handed over as such is reported to the runtime, one that a
callable reads by itself is not.

`PatternMeaning` says what a step list means without a scheduler: a recursive
function from a step, a cycle and the captures to a verdict, an end and the captures.
For `wait`, `consume` and `delay` it takes the first cycle in which the
condition holds or the guard fails.  `Queue` is the reference for transactions:
requests enter a queue, leave it when too old, and a response serves the oldest
of its id.

### VcdStream

A token is an opaque string; constants say which tokens are timestamps, scalar
changes, and so on, and which identifiers are signals (`Width`) or bits of buses
(`BitMap`), so the header is a parameter.  `mode` is where the walk is: at the
`top` of the loop, inside a `value` change (vector, real or port, with strengths
still due), or in a skipped `section`.  `Begin` starts a walk on the same parser,
`Abandon` is the caller dropping the generator or an exception through it, and
`done` collects the results of walks for the properties that compare two of them.
`Walks` and `MaxWalks` bound the walks tried over a file; the proofs bound neither.
A signal may have two events at time 0: data before the first timestamp is at 0, and is
flushed before the data of `#0` (`GoForward`).

### ReaderBase, the readers, and Resample

A value is a text of 0, 1 and x.  `ReaderBase` has the parts each reader repeats: the
tests of the arguments (`Exclusive`, `UsableClock`), the window (`BeginTime`,
`EndTime`, `CyclesInRange`), sampling (`Sampled`, with `Held` of `SampleHold`), the
field of bits and the sign.  `Promised` says what a load returns without any of
that: one sample for each edge in the window, of the characters the file gave last.

In `VcdReader`, `ScanEvent` is one turn of the loop of `_ensure_cached`, so that
`InterruptScan` (Ctrl-C, an error reading the file) can come between two; `torn`
remembers the signals it caught half-way, for the properties.  The rest of a load is
one step (`SampleSignal`, `RefuseClock`), because nothing else touches the cache in between.
In `FstReader` a load is two passes over one handle (`FstReadClock`,
`FstReadSignal`), and `FstInterrupt` may end it between them; the library is
external, and delivers its blocks beyond the limit or not as it likes.
`FsdbReader` is one step per load, since nothing of it outlives one; its four passes
are functions of the file.  `VcdPromise`, `FstPromise` and `FsdbPromise` are
`Promised` with the differences of each reader spelt out.

`Resample` is the loop of both `value_change.py` and `value_change.pyx`, step by step,
and is shown to compute `Held`: the readers use the definition, the loop implements it.

### VcdHeader, ScopeMatch, ScopeTrees and Names

`VcdHeader` reads a header section by section (`EnterScope`, `LeaveScope`,
`DeclareVar`, `EndDefinitions`, `OtherSection`, `BufferToken`), keeps the scope stack
and the declared variables, and makes the signals of them, buses put together
again (`MakeSignals`).  A text is a sequence of atoms; the form
of a reference (a name, a bit, a range) is data.  `ScopeMatch` has the search as
the code does it, with one operator for each branch, dictionaries that keep or
refuse a second entry, and trees as functions; `ScopeTrees` builds the trees
of the three formats and resolves a path.  `Names` asks: after the header is
parsed there is one call of `GetMatched`, `LoadMatched` or `Eval`, and its answer is
compared with `Matches`, which says what a pattern stands for as a set, scope by scope,
without keys that meet, branches or dictionaries.

### Waveforms, results and sessions

A waveform is a record of columns, width, sign, mask and kind of array; `Wrap` says
what a machine word does to a value, so that widths and overflow are as in the code
with words of `WordBits` instead of 64.  `WaveformSession` applies any operation to the
result of the last, and the same operation to a *twin*: the waveform that the same
file gives with another `xz_value`.  `history` remembers whether an operation is one
that looks below the mask by design (`"raw"`; so does the largest of a chunk of an object array, whose new array takes its kind from all its values) or may leave the width (`"wild"`: a
subtraction, a merge to a width of the caller's, a pad value, an operand that is signed
or has no width), for the properties.  `MatchResults` keeps rows beside columns: what `match()`
builds, selects and writes must be the rows of the run.

## What the runs show

Deadlock is not checked, as all of these systems stop: a run of a pattern, a
walk, a load and a session end, and the bounds on their number end the model.

| run | distinct states | question |
|---|---|---|
| `runtime_sweep` | 384 k | Over three cycles with a time limit of two, delays up to two and one channel: types; `NothingLost`; `VerdictInTime`; `DelayNeverLate`; `VerdictFinal`; `InFlightBounded`, with a `max_active` of two that the time limit keeps from being exceeded at the end of a cycle, though three are in flight during one; and with fairness `RunEnds`, although a program may yield ready operations for ever. |
| `runtime_channels` | 2.1 M | Two runs one after the other, or one inside the other, over a Channel of their own, one they share and a key, with room for one suspended candidate: `Exclusive`, `OldestWins`, and every step is one of `MatchContract` (`KeepsContract`). |
| `runtime_nested_shared` | violation | `ExclusiveEverywhere`, for Channels that a nested run shares: two different candidates consume one in one cycle. |
| `declarative_meaning` | 1.1 M | Ten step lists: every kind of step, three that fail, and a transaction (request, id captured, response through the id's channel); all waveforms over four cycles, all windows around a clock with a gap, time limit of three: `VerdictIsMeaning`, `PairsInOrder`, `ReportComplete`, `IsRuntime`. |
| `declarative_spins` | violation | `PatternEnds`, for a loop that awaits nothing. |
| `resample` | 32 k | Every list of up to three changes and of up to three clock changes over four times: `InBounds`, `SampledRight`, `AllSampled`. |
| `vcd_stream` | 699 k | Every sequence of up to four of ten tokens, and two walks over one parser, whole, bounded, filtered or a scan, the first possibly broken off, over tidy and untidy files, some with data before `#0`: `InFileOrder`, `SkipsItsOwnBody`, `ReplayIsPart`, `AliasesAgree`, `OneEventAtATime`, `RangeCoversForward`. |
| `readers` | 252 k | Two loads of each reader, either of them possibly broken off: clocks with x, without a first value and with an x on each side of an edge; windows by time, by cycle and mixed; fields, signs, masks, replacements of x: `VcdRight`, `FstRight`, `FsdbRight`, `OthersStayWhole`. |
| `vcd_interrupted` | violation | `CachedIsWhole`, with an exception through the scan. |
| `names` | 13 k | Headers around every choice of up to three bits of a bus and headers that reach each limit, patterns of every kind over the trees of three formats, matched loads and expressions: `EveryVarFound`, `NoPhantomBits`, `MatchExact`, `FoundLoads`, `LoadedTogether`. |
| `waveform` | 19 k | Two operations in a row, every operation of `Waveform` among them, on six waveforms, and results of up to three rows: `UnknownStaysUnknown`, `FitsWidth`, `ExactModuloWidth`, `BitsAreKept`, `SlicesAgree`, `EdgeIsShiftedCompare`, `RunsReconstruct`, `RowsStayTogether`. |
| `waveform_captures` | violation | `CapturesKeepPrecision`, for a captured word whose top bit is set. |

### Bounds, and why they are enough

* *Cycles.*  Two cycles are the least for which a mark can be stale, three for a
  time limit of two to be met, missed and cut off by the window, four for two
  requests and two responses of one id.  The clock skips a number, so that an
  index is never mistaken for a clock number.
* *Epochs* (`MaxEpoch`).  Two runtimes are enough for a mark of another run;
  all a mark can be is of this run or not.
* *Step limit, max_active, delays* are small so that they are reached; the code
  compares each with one counter.
* *Requests.*  Before, on, between and past the clock numbers, in either order.
* *Token files.*  Four tokens hold the longest malformed change: a port token and
  the three tokens it gives back.
* *Walks, loads.*  Two, as a later one sees of earlier ones nothing but what is in
  the bits, the stack, the cache or the handle.
* *Texts of a load.*  A text may be shorter than its signal, as a VCD file may leave out leading
  zeros; a database of NPI, which is external, stores it in full width, since the decoding counts
  characters from the front but shifts by the width.  A signal of three bits with machine words of two is decoded
  in two chunks, the last one short; fields touch its top, its bottom, all of it,
  and reach beyond it; one signal is stored from bit 2 up, one has no change, one
  is a real.
* *Headers.*  Three bits are the least with a gap and with a double beside a bus
  that is whole; one header for each limit (depth, variables, widths, bits, initial
  data).  The patterns use every mark, alone and after another part, from the top
  and within a scope.
* *Waveforms.*  Words of four bits, so that a product and a concatenation leave
  them; widths of one, below, at and above a word, signed and not, a mask or
  none, no samples, another grid.  Two operations, since an operation sees of the one
  before only the record it left, and the records of the first operation include
  every kind.
* *Resampling* is proved for all lists; the run shows that the cases of the proof occur.

### Fairness

`RunEnds` assumes weak fairness of the runtime's own loops, which is justified
because they are one thread that waits for nothing, and of `Suspend`: each time
it is resumed the program eventually yields, returns or fails.  The latter is
an assumption about programs; for the interpreter of declarative patterns it is
no assumption, its code is the library's.  `FairDSpec` therefore asks for weak
fairness of all steps only, and `declarative_spins` shows what is missing.

## Where code and documentation differ

* `runtime_nested_shared`: a Channel holds one mark.  A pattern run from inside
  a body over the same Channel overwrites it, and in the same cycle a second,
  different candidate of the outer run consumes the Channel
  (`pattern/runtime.py:397`, against `pattern/steps.py:19-20`).
* `declarative_spins`: the step limit counts resumes.  A `loop` whose body
  awaits nothing turns inside the coroutine for ever
  (`pattern/compiler.py:147`, against `pattern/runtime.py:492-493`).
* `vcd_interrupted`: the cache is filled while the file is scanned.  After an
  exception the lists are cut off but cached, and the next load returns wrong
  samples without an error (`readers/vcd/reader.py:153`).

* `waveform_captures`: what `ctx.value` returns of a wide signal is an `np.uint64`, and
  `np.array(vals, dtype=np.int64)` casts such scalars without a check, so the
  fallback for values that do not fit never comes: a captured word with its top bit set
  is negative in the result and in its JSON (`pattern/runtime.py:319`, against
  `src/README.md:210-212`).

The models have further differences in them, spelt out where a property would
otherwise fail.

*Files.*  `scan_time_range` keeps the first timestamp as the least
(`readers/vcd/vcd_parser.py:871`), so where timestamps go backwards there are
events before it; `RangeCoversForward` asks for times that go forward.  Two buses whose
scope and name joined by `__` are the same text get one identifier and the second
replaces the first (`vcd_parser.py:554`; `IdsDiffer`).  A signal declared with a range that
does not end at bit 0 is found by a pattern and refused by a load that asks for bits of it
(`readers/vcd/reader.py:361`), and so is a path whose text is declared twice with
different ranges (`:175`; `FoundLoads`).  The FST reader passes no x/z mask of its
clock, whose x counts as 0, and cuts the changes of a signal at the end of the
window, so that one that changes only later fails to load where the VCD reader
returns x (`readers/fst/reader.py:189`, `:157`; `FstPromise`).  A replacement of x
that is no bit fails in one reader and at the first x in the others.

*Names.*  Two matches with one key raise when they come from different scopes and
overwrite when they come from a module search or from a search within a scope
(`scope.py:153`, `:165`, `:390`, `:402`), although `readers/base.py:250-253` says
that they raise (`EveryKey`).  A module inside a module of the same name makes a search for it
start again without end (`scope.py:143-158`; `Nested`).  `$` finds a grandchild too in
an FSDB's tree and goes to any depth there.  Regular expressions give nested keys from the top
and flat ones within a scope, and are tried on the name of a signal with its range when its bare name
does not match (`scope.py:260`, `:379`).  Within a scope, and in the name of a signal, a `$` is a letter like
any other.  Names with dots in them are found by no pattern.

*Waveforms.*  `compress`, `unique_consecutive`, the filters, `take` by a waveform and
`scalar << wave` look at the values below the mask (`"raw"` in `history`).  A
subtraction wraps at the machine word and not at the width, where `src/README.md:220`
says width (`"wild"`).  Bitwise operations check signs although `src/README.md:224` says they
do not, and `~` on a signed waveform raises.  `slice` with `end_idx=-1` and
`include_end=True` is empty.  `merge` may raise or not depending on values below a mask;
its function is taken to return Python's integers, for one that returns machine words in an array of objects
(`waveform.py:1422-1425`) computes on in machine words.  `downsample` by the largest makes machine words of objects
when all of its values fit (`waveform.py:1036-1037`; `ListKind`).

## What is proved

`tlapm` checks every proof; the theorems hold for all values of the constants that
satisfy the assumptions beside their declarations: waveforms have at least one
cycle and an ascending clock; user channels and keys are different things;
limits are natural numbers; lists of changes ascend and are not empty; no token is
both a strength and the head of something else; reals, realtimes and events (`Unsized`), whose values are
not clamped, are declared signals; a timestamp that is accepted is a
natural number; a bit of a bus is a bit of a declared signal; what is loaded has a clock
number and a time for each value, in an array of the kind its width chooses.  For the theorems that compare walks (`KindAssumption`,
`WalkAssumption`, `ValueAssumption`, `BusAssumption`): what a token is between two changes
shows by its first character, the bounds of a walk are ticks, a well-formed change has a value,
each bit of a bus is driven by one identifier, and the name the parser makes up for a bus
(`__grp__...`) is not an identifier the file uses.  The last two are not enforced by the parser: the
two names that join to one (`vcd_parser.py:554`, below) are outside of these theorems.

* **Types and cursor** (`TypesCorrect`).  `TypeOK` is not inductive: that the
  sweep stays inside the active list (`Cursor`) and that a cycle being swept is one
  of the axis although its end may not be known yet (`Window`) go with it.
* **Exclusive channels, oldest first** (`ChannelsExclusive`,
  `OldestCandidateWins`).  The invariant adds `Order` (the kept candidates, the rest
  of the active list and the new one ascend: the sweep is by age), `Marks` (no mark
  is newer than the newest epoch, so none of this epoch exists before
  this run) and `Granted` (a mark of this epoch and cycle exists exactly when
  somebody was granted the channel, and that one is no younger than the sweep).
* **Final verdicts and the contract** (`VerdictsFinal`, `RuntimeKeepsContract`).  To
  the invariant above come `LiveLists` (the lists hold exactly the live candidates)
  and `Behind` (the kept ones are behind the sweep).  Then each action maps to one
  of `MatchContract` or to a stutter: `TimeOut` and the ends of a coroutine to
  `Judge`, `Unblock` and `TryConsume` to `Take` or to nothing, the last step of
  a sweep to `EndCycle` or `Abort`.
* **Nobody lost** (`NobodyIsLost`).  `Frame` (the scan stays between the two indices,
  and without an axis nobody asked for a window), `Started` (a cycle has a
  candidate exactly if the scan has come to it) and `CompletedOnce` (the completed
  list has no doubles and holds exactly those with a verdict) join the invariant;
  since lists ascend, what was kept and what is ahead of the sweep are different
  candidates, and each occurs once.
* **In time** (`DelaysAreOnTime`, `VerdictsInTime`, `InFlightIsBounded`).  Whoever the sweep
  has passed is suspended on an operation that is not over (`DelaysKept`) and
  within the limit in this cycle, whoever is ahead of it was in the one before (`Paced`): so
  an age can exceed the limit by one at most before it is looked at.  The same two bound the
  number in flight: those the sweep has kept are of different ages within the limit, so there are no
  more of them than the limit has cycles; and what was carried into a cycle had passed the test of
  `max_active` at the end of the one before (`CarriedBounded`), to which a sweep adds only the
  candidate of its own cycle (`CarriedNext`, with `LiveLists` for the two lists).  That the verdict lies in
  the window the caller named by clock numbers rests on `SearchSortedIs`: on an
  ascending clock, the number of clock numbers below a value is the first index not below it.
* **Complete reports** (`ReportsAreComplete`).  `SearchSortedIs` once more shows that the
  cycles between the two ends of the scan are those of the window (`AskedIsFramed`), and
  the invariant `ClosedOnce` that, when `_run` has closed the window, each of them has a
  verdict and a place of its own among the completed.  Both reports, the sorted one and
  the one in order of completion, list those places in some order, each once (`InOrder`
  in `Lemmas`), and that is all that completeness needs (`ReportedOnce`).
* **Resampling** (`ResampleInBounds`, `ResampleRight`, `ResampleComplete`).  The invariant
  says that the
  change the index is at, unless it is the first, is not later than any clock
  change still to come (`Passed`): this is why an index that never goes back is
  enough, and it rests on both lists ascending.  `SampledSoFar` counts: one sample for each
  sampling edge among the clock changes passed, at the place of the edge among the edges.
* **Sections** (`SectionsSkipOnlyThemselves`).  The push-back stack holds at most one
  token that is no strength, its first (`StrengthsOnTop`).  Hence whoever reads the
  head of a section or of a value change has taken the last one given back, and
  skipping on the raw stream skips the section.
* **Nothing out of order** (`NothingOutOfOrder`).  `Placed` gives each token its place in the
  file: the pushed-back ones, from the top of the stack down, and what a value change has read so
  far are the tokens of the file right before the ones not yet taken.  Giving tokens
  back and taking them shifts the place of the walk and never a token.
* **Events ascend** (`EventsAscend`).  The time of the walk is that of a timestamp already
  passed, or 0 (`NowReached`), and a walk never moves back in the file, so times
  that go forward in the file go forward in the walk.  What has been delivered is older than that time
  (`OutBefore`), and the pending changes have each key once (`Dict`), so what the next timestamp flushes
  is later than all of it and names no signal twice.
* **Aliases** (`AliasesShowTheSame`).  `Mirrored`: what a bus shows (its last pending
  change, or else its last event) is the state of its bits, and what an alias shows is
  the bit of that state it drives, in each bus.  A change that is too long, or is no bit
  at all, is an x in both.  It needs that a bus is never driven as a signal, which is
  the last part of `BusAssumption`.
* **A replay is a part of the whole one** (`ReplayIsWhatWasAskedFor`).  The two walks
  ran at different times, so an invariant of one must say where it is in terms of the file
  alone.  `Reached` is the reference: what comes up between two value changes in a replay of
  everything that also keeps the range of a scan.  There is one such state for each
  place in the file (`OnePerPlace`), however tokens were pushed back.  `Follows` says
  that the walk under way is the reference at its place with everything left out that
  was not asked for (`Match`, `Sub`): the same time, and of the bits, the pending changes
  and the events those of its signals and bounds.  A walk that ends early misses only
  events past its end, as the file goes forward (`MissesOnlyLater`), and so two
  walks that ended are parts of the same reference (`DoneRight`).
* **The range of a scan** (`ScanCoversReplays`).  By the same reference: its range
  encloses what it has delivered and the time of what is pending (`Covered`), and the data
  before the first timestamp is what `initial` remembers.
* **The shared cache** (`CacheStaysWhole`, `SampledIsWhole`, `WholeWithoutInterrupts`).  `Filled` is
  the loop of `_ensure_cached`: a list that is being filled holds the changes of its signal up
  to the one the scan has come to.  At the end of the scan that is the whole file, and
  the initial x is put in front once only, also when the same list is loaded
  again (`PaddedOnce`).  The third theorem is about the property that `vcd_interrupted` refutes:
  with `Interrupts` off it holds, so an exception through the scan is all that can break it.
* **Waveforms on their grid** (`EverySampleOnGrid`, `WindowsAgree`).  `OnGrid`, a clock number and
  a time for each value in an array of the kind its width chooses, is inductive by itself; every operation ends in the constructor
  (`NewColumns`), on the grid of its waveform (`SameColumns`), a selection from it
  (`PickColumns`) or the means of its chunks (`ChunkMeans`).  On an
  ascending column the two binary searches for the value of a sample find the sample
  (`Searched`), so all three windows cut at the same two indices.  It is assumed that what is
  loaded is on a grid, which is what the readers' `Sampled` makes.
* **No value is lost** (`NoValueIsLost`).  The array of a waveform in `OnGrid` has the kind that its
  width chooses already, so the constructor at the end of a selection leaves the values as
  they are (`Picks`).  `AscendsPlaces` lists the places kept in order: between two kept
  neighbours nothing is kept.  From a sample to the next end of a run (`compress`), or back to the
  last beginning of one (`unique_consecutive`), all neighbours are equal (`RunEnd`, `RunBegin`), and the
  last sample ends a run as the first begins one, so each sample has such a place.  The clock ascends,
  so the nearest kept clock number is the nearest kept place (`RunsOf`).

The library's induction theorems take an operator as a parameter and cannot be used here;
`NatSetInduction` states induction for a set instead and is proved from the well-foundedness of
the natural numbers.  `Iteration` and `IterationStays` use it for the functions that are
defined step by step (`FileLists`, `PutAll`, `Total`), so that what they compute is proved
as well.  Sorting and selecting by a Boolean mask are ranks
(`Ranks`), and so is the part of a replay that a walk asks for: the member with so many members up to it, instead of a library fold.

Only model-checked: everything about declarative patterns, names and results; of the readers `VcdRight`, `FstRight` and `FsdbRight`; of the waveforms all
but the windows and the run-length forms.  `UnknownStaysUnknown` is no property of all operands: an object column
divided by one with an unknown zero raises, so that what it says of quotients rests on the operands
the run gives them.  `EdgeIsShiftedCompare` compares masks as well, of which `OnGrid` says
nothing yet; `FitsWidth`, `ExactModuloWidth` and
`BitsAreKept` rest on laws of powers of two, of which the provers know nothing.
Out of the prover's reach: `RunEnds` (liveness), `VerdictIsMeaning`, `PairsInOrder`
and `MatchExact` (recursive reference definitions in modules that declare RECURSIVE operators).

## Not modelled, and why

* The content of a program's computations: `PatternRuntime` leaves conditions,
  guards and captures open, `DeclarativePattern` fixes them by small numbers.
* Reading of text: how a pattern is split at its dots, how the paths in an
  expression are found, and regular expressions, of which the words and groups are given.
* The value of an expression in `eval`: Python's evaluation, over the waveforms of `Waveforms`.
* Arrays in composite signals; the composites of an FSDB are in its tree.
* Fractions: true division, the mean of a chunk beyond being selected and written,
  numbers that are not finite.
* `close()` and the context managers; type errors in arguments; text forms.
* Libraries: `pylibfst` and Verdi's NPI are used as the code uses them; opening a
  database and the types the library describes are left out.
* `pattern/errors.py` and the package's `__init__` files: no behaviour.
* A name has one capture mode in the step lists tried.

## What could follow

1. `EdgeIsShiftedCompare` proved, with the shape of masks in `OnGrid`, and `RowsStayTogether`, by the
   operation; and the promise of a load (`VcdRight`) from `SampledIsWhole`.
2. `VcdHeader` as the source of the constants of `VcdStream` (its `Width` and `BitMap`).
3. That `DeclarativePattern` implements `PatternRuntime`, proved; its loop
   unfolding would have to be written without recursion first.
