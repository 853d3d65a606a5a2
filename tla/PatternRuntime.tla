--------------------------- MODULE PatternRuntime ---------------------------
(***************************************************************************)
(* The cycle-major scheduler of src/wavekit/pattern/runtime.py.            *)
(*                                                                         *)
(* Every scanned cycle starts one candidate (a PatternInstance around a    *)
(* coroutine) and then advances every candidate in flight, oldest first,   *)
(* as far as it can go within that cycle.  The coroutine is the user's     *)
(* program, so it is the environment here: on each resume it may yield any *)
(* operation, try to consume a channel, return anything, or raise.  What a *)
(* condition or a guard evaluates to is open too, so every program over    *)
(* every waveform is a behaviour of this module.                           *)
(*                                                                         *)
(* A candidate is named by the cycle it starts in: one is started per      *)
(* cycle, so its order number is its start index less the first one.       *)
(***************************************************************************)
EXTENDS Integers, Sequences, FiniteSets, TLC, Ranks

CONSTANTS
  NumCycles,        (* length of the waveforms, hence of the scan axis       *)
  Clock,            (* the clock numbers of the axis, ascending, gaps allowed *)
  UserChannels,     (* Channel objects: they outlive a run                   *)
  KeyChannels,      (* hashable keys: each run makes its own Channel         *)
  SharedChannels,   (* user channels that a program's nested run also uses   *)
  Timed,            (* whether timeout_cycles is given                       *)
  TimeoutCycles,    (* timeout_cycles, when it is                            *)
  MaxActive,        (* max_active                                            *)
  StepLimit,        (* _MAX_SAME_CYCLE_STEPS                                 *)
  MaxDelay,         (* bound: longest delay a program asks for               *)
  MaxEpoch,         (* bound: how many runtimes are ever created             *)
  Requests,         (* bound: start_cycle and end_cycle values tried         *)
  NoRequest         (* start_cycle or end_cycle left out                     *)

Cycles   == 0 .. NumCycles - 1
Channels == UserChannels \cup KeyChannels

ASSUME CyclesAssumption ==
  /\ NumCycles \in Nat \ {0}
  /\ Clock \in [Cycles -> Int]
  /\ \A i, j \in Cycles : i < j => Clock[i] < Clock[j]

ASSUME ChannelAssumption ==
  /\ UserChannels \cap KeyChannels = {}
  /\ SharedChannels \subseteq UserChannels

ASSUME LimitAssumption ==
  /\ Timed \in BOOLEAN
  /\ TimeoutCycles \in Nat
  /\ MaxActive \in Nat
  /\ StepLimit \in Nat
  /\ MaxDelay \in Nat
  /\ MaxEpoch \in Nat

ASSUME RequestAssumption ==
  /\ Requests \subseteq Int
  /\ NoRequest \notin Requests

VARIABLES
  pc,         (* where the scheduler is                                      *)
  epoch,      (* _epoch of the current run                                   *)
  nextEpoch,  (* PatternRuntime._next_epoch, shared by all runs              *)
  mark,       (* per channel: _consumed_epoch and _consumed_at               *)
  lo, hi,     (* start_cycle and end_cycle of the current run                *)
  refKnown,   (* ref_wf is not None                                          *)
  axisKnown,  (* self._axis is not None                                      *)
  start,      (* start_index                                                 *)
  stop,       (* end_index, NoStop while it is unknown                       *)
  now,        (* t                                                           *)
  active,     (* the candidates in flight, a sequence                        *)
  pos,        (* the position of the sweep in active                         *)
  still,      (* still_active                                                *)
  completed,  (* completed                                                   *)
  op,         (* per candidate: current_op                                   *)
  status,     (* per candidate: status, or why there is none                 *)
  endAt,      (* per candidate: end_index                                    *)
  stray,      (* candidates whose return value is neither ctx.OK nor None    *)
  steps,      (* steps of the candidate being advanced                       *)
  grants,     (* history: who consumed each channel in this cycle, in order  *)
  refused     (* history: who found each channel taken in this cycle         *)

runVars   == <<epoch, nextEpoch, lo, hi, start>>
axisVars  == <<refKnown, axisKnown, stop>>
listVars  == <<active, pos, still, completed>>
candVars  == <<op, status, endAt, stray>>
chanVars  == <<mark, grants, refused>>
vars == <<pc, runVars, axisVars, listVars, candVars, chanVars, now, steps>>

NoStop == -1
\* A consume names its channel by a callable, if it likes: the channel is
\* looked up anew on every cycle, so it is no part of the operation.
Operation(kind, from, n) == [kind |-> kind, from |-> from, n |-> n]
NoOp           == Operation("none", 0, 0)
Wait           == Operation("wait", 0, 0)
Consume        == Operation("consume", 0, 0)
Delay(from, n) == Operation("delay", from, n)

Ops == {NoOp, Wait, Consume} \cup {Delay(from, n) : from \in Cycles, n \in 0 .. MaxDelay}

NeverUsed == [epoch |-> -1, at |-> -1]

Reported == {"OK", "TIMEOUT", "REQUIRE_VIOLATED"}
Settled  == Reported \cup {"discarded"}
Statuses == Settled \cup {"none", "live"}
PcValues == {"idle", "scan", "sweep", "loop", "resume", "closed", "done", "failed"}

-----------------------------------------------------------------------------
(***************************************************************************)
(* The scan window.                                                        *)
(***************************************************************************)
Clamp(low, x, high) == IF x < low THEN low ELSE IF x > high THEN high ELSE x

\* Mutant: side='right'.
SearchSortedRight(v) == Cardinality({i \in Cycles : Clock[i] <= v})

\* np.searchsorted on the left side: how many clock numbers lie below v.
SearchSorted(v) == Cardinality({i \in Cycles : Clock[i] < v})

FirstIndex(from) ==
  IF from = NoRequest THEN 0 ELSE Clamp(0, SearchSorted(from), NumCycles)

StopIndex(from, to) ==
  IF to = NoRequest THEN NumCycles
                    ELSE Clamp(FirstIndex(from), SearchSorted(to), NumCycles)

(***************************************************************************)
(* A new PatternRuntime, with or without an axis, and the head of its      *)
(* match() or collect().  Its key channels are fresh; user channels keep   *)
(* the marks of earlier runs.                                              *)
(***************************************************************************)
NewRun(axisGiven, from, to) ==
  /\ pc \in {"idle", "done", "failed"}
  /\ nextEpoch < MaxEpoch
  /\ nextEpoch' = nextEpoch + 1 /\ epoch' = nextEpoch + 1
  /\ lo' = from /\ hi' = to
  /\ refKnown' = axisGiven /\ axisKnown' = axisGiven
  /\ start' = IF axisGiven THEN FirstIndex(from) ELSE 0
  /\ stop' = IF axisGiven THEN StopIndex(from, to) ELSE NoStop
  /\ now' = start'
  /\ pc' = IF axisGiven \/ (from = NoRequest /\ to = NoRequest)
             THEN "scan" ELSE "failed"
  /\ mark' = [ch \in Channels |-> IF ch \in KeyChannels THEN NeverUsed ELSE mark[ch]]
  /\ active' = <<>> /\ pos' = 1 /\ still' = <<>> /\ completed' = <<>>
  /\ op' = [c \in Cycles |-> NoOp]
  /\ status' = [c \in Cycles |-> "none"]
  /\ endAt' = [c \in Cycles |-> 0]
  /\ stray' = {} /\ steps' = 0
  /\ grants' = [ch \in Channels |-> <<>>] /\ refused' = [ch \in Channels |-> {}]

Init ==
  /\ pc = "idle" /\ epoch = 0 /\ nextEpoch = 0
  /\ lo = NoRequest /\ hi = NoRequest
  /\ refKnown = FALSE /\ axisKnown = FALSE
  /\ start = 0 /\ stop = NoStop /\ now = 0
  /\ mark = [ch \in Channels |-> NeverUsed]
  /\ active = <<>> /\ pos = 1 /\ still = <<>> /\ completed = <<>>
  /\ op = [c \in Cycles |-> NoOp]
  /\ status = [c \in Cycles |-> "none"]
  /\ endAt = [c \in Cycles |-> 0]
  /\ stray = {} /\ steps = 0
  /\ grants = [ch \in Channels |-> <<>>] /\ refused = [ch \in Channels |-> {}]

-----------------------------------------------------------------------------
(***************************************************************************)
(* One cycle: start a candidate, sweep the candidates in flight.           *)
(***************************************************************************)
\* Mutant: the new candidate goes to the front of the list.
EnlistFirst(c) == <<c>> \o active

Enlist(c) == Append(active, c)

StartCandidate ==
  /\ pc = "scan"
  /\ stop = NoStop \/ now < stop
  /\ active' = Enlist(now)
  /\ status' = [status EXCEPT ![now] = "live"]
  /\ still' = <<>> /\ pos' = 1 /\ pc' = "sweep"
  /\ grants' = [ch \in Channels |-> <<>>]
  /\ refused' = [ch \in Channels |-> {}]
  /\ UNCHANGED <<runVars, axisVars, completed, op, endAt, stray, mark, now, steps>>

\* The candidate the sweep is at.
Current == active[pos]

\* The candidate is over: it takes its verdict and leaves the active list.
Settle(verdict) ==
  /\ status' = [status EXCEPT ![Current] = verdict]
  /\ endAt' = [endAt EXCEPT ![Current] = now]
  /\ completed' = Append(completed, Current)
  /\ pos' = pos + 1
  /\ pc' = "sweep"
  /\ UNCHANGED <<active, still>>

\* Mutant: the cycle the candidate started in is not counted.
ExpiredLate(c) == Timed /\ now - c > TimeoutCycles

Expired(c) == Timed /\ now - c + 1 > TimeoutCycles

\* _advance_instance looks at the age of a candidate before anything else.
TimeOut ==
  /\ pc = "sweep"
  /\ pos <= Len(active)
  /\ Expired(Current)
  /\ Settle("TIMEOUT")
  /\ UNCHANGED <<runVars, axisVars, op, stray, chanVars, now, steps>>

BeginAdvance ==
  /\ pc = "sweep"
  /\ pos <= Len(active)
  /\ ~Expired(Current)
  /\ pc' = "loop"
  /\ steps' = 0
  /\ UNCHANGED <<runVars, axisVars, listVars, candVars, chanVars, now>>

TooMany == Len(still) > MaxActive

EndSweep ==
  /\ pc = "sweep"
  /\ pos > Len(active)
  /\ active' = still
  /\ IF TooMany \/ (~refKnown /\ ~axisKnown)
       THEN pc' = "failed" /\ UNCHANGED <<now, refKnown, stop>>
       ELSE /\ pc' = "scan" /\ now' = now + 1
            /\ refKnown' = TRUE
            /\ stop' = IF refKnown THEN stop ELSE NumCycles
  /\ UNCHANGED <<runVars, axisKnown, pos, still, completed, candVars, chanVars, steps>>

(***************************************************************************)
(* Advancing the current candidate: each turn of the loop first evaluates  *)
(* the operation it waits for, if any, and then resumes the coroutine.     *)
(***************************************************************************)
\* Mutant: the mark of an earlier run counts.
FreeAnyEpoch(ch) == mark[ch].at # now

\* channel_free
Free(ch) == mark[ch].epoch # epoch \/ mark[ch].at # now

\* Evaluating a condition may observe a waveform, which can fix the axis.
MayObserve == axisKnown' \in {axisKnown, TRUE} /\ UNCHANGED <<refKnown, stop>>

\* Mutant: every turn starts the count again.
CountTurnAfresh == steps' = 1

CountTurn == steps' = steps + 1

\* Mutant: off by one.
MayTurnOnceMore == pc = "loop" /\ steps <= StepLimit

MayTurn == pc = "loop" /\ steps < StepLimit

\* Mutant: the mark takes the candidate's start index for the current one.
TakeAtStart(ch) ==
  /\ mark' = [mark EXCEPT ![ch] = [epoch |-> epoch, at |-> Current]]
  /\ grants' = [grants EXCEPT ![ch] = Append(@, Current)]
  /\ UNCHANGED refused

\* consume_channel
Take(ch) ==
  /\ mark' = [mark EXCEPT ![ch] = [epoch |-> epoch, at |-> now]]
  /\ grants' = [grants EXCEPT ![ch] = Append(@, Current)]
  /\ UNCHANGED refused

Refuse(ch) ==
  /\ refused' = [refused EXCEPT ![ch] = @ \cup {Current}]
  /\ UNCHANGED <<mark, grants>>

\* Mutant: one cycle late.
DelayOverLate(o) == o.n = 0 \/ now > o.from + o.n

DelayOver(o) == o.n = 0 \/ now >= o.from + o.n

\* How ready() can turn out negative: the condition is false, the channel of
\* this cycle is taken, or the delay is not over.
NotReady(o) ==
  \/ o.kind = "wait" /\ UNCHANGED chanVars
  \/ o.kind = "consume" /\ UNCHANGED chanVars
  \/ o.kind = "consume" /\ \E ch \in Channels : ~Free(ch) /\ Refuse(ch)
  \/ o.kind = "delay" /\ ~DelayOver(o) /\ UNCHANGED chanVars

\* ready() is positive and commit() follows at once.
ReadyAndCommit(o) ==
  \/ o.kind = "wait" /\ UNCHANGED chanVars
  \/ o.kind = "consume" /\ \E ch \in Channels : Free(ch) /\ Take(ch)
  \/ o.kind = "delay" /\ DelayOver(o) /\ UNCHANGED chanVars

\* Mutant: only candidates that wait for a channel are kept.
KeepConsumers(c) == IF op[c].kind = "consume" THEN Append(still, c) ELSE still

Keep(c) == Append(still, c)

Block ==
  /\ MayTurn
  /\ NotReady(op[Current])
  /\ MayObserve
  /\ still' = Keep(Current)
  /\ pos' = pos + 1 /\ pc' = "sweep" /\ CountTurn
  /\ UNCHANGED <<runVars, active, completed, candVars, now>>

\* The guard is false on a cycle in which the operation stays blocked.
GuardFails ==
  /\ MayTurn
  /\ NotReady(op[Current])
  /\ MayObserve
  /\ Settle("REQUIRE_VIOLATED")
  /\ CountTurn
  /\ UNCHANGED <<runVars, op, stray, now>>

Unblock ==
  /\ MayTurn
  /\ ReadyAndCommit(op[Current])
  /\ MayObserve
  /\ op' = [op EXCEPT ![Current] = NoOp]
  /\ pc' = "resume" /\ CountTurn
  /\ UNCHANGED <<runVars, listVars, status, endAt, stray, now>>

FirstResume ==
  /\ MayTurn
  /\ op[Current] = NoOp
  /\ pc' = "resume" /\ CountTurn
  /\ UNCHANGED <<runVars, axisVars, listVars, candVars, chanVars, now>>

StepLimitExceeded ==
  /\ pc = "loop"
  /\ steps >= StepLimit
  /\ pc' = "failed"
  /\ UNCHANGED <<runVars, axisVars, listVars, candVars, chanVars, now, steps>>

(***************************************************************************)
(* What the coroutine does between a resume and its next yield.            *)
(***************************************************************************)
\* An operation remembers the cycle it was created in, not awaited in.
Yield(o) ==
  /\ pc = "resume"
  /\ o # NoOp
  /\ o.kind = "delay" => o.from \in Current .. now
  /\ op' = [op EXCEPT ![Current] = o]
  /\ pc' = "loop"
  /\ MayObserve
  /\ UNCHANGED <<runVars, listVars, status, endAt, stray, chanVars, now, steps>>

\* ctx.value, and all else that looks at a waveform: the first one observed
\* becomes the axis of a run that was given none.
Observe ==
  /\ pc = "resume"
  /\ axisKnown' = TRUE
  /\ UNCHANGED <<pc, runVars, refKnown, stop, listVars, candVars, chanVars, now, steps>>

\* ctx.try_consume with a true condition: taken or refused without suspending.
TryConsume(ch) ==
  /\ pc = "resume"
  /\ \/ Free(ch) /\ Take(ch)
     \/ ~Free(ch) /\ Refuse(ch)
  /\ MayObserve
  /\ UNCHANGED <<pc, runVars, listVars, candVars, now, steps>>

\* What a nested runtime can reach: user channels, as its keys are its own.
Foreign == SharedChannels

\* The program runs another pattern to completion from inside its body; that
\* runtime has an epoch of its own and consumes the same Channel object.
NestedRun(ch, at) ==
  /\ pc = "resume"
  /\ ch \in Foreign
  /\ nextEpoch < MaxEpoch
  /\ nextEpoch' = nextEpoch + 1
  /\ mark' = [mark EXCEPT ![ch] = [epoch |-> nextEpoch + 1, at |-> at]]
  /\ UNCHANGED <<pc, epoch, lo, hi, start, axisVars, listVars, candVars,
                 grants, refused, now, steps>>

ReturnValue(verdict, isStray) ==
  /\ pc = "resume"
  /\ Settle(verdict)
  /\ stray' = IF isStray THEN stray \cup {Current} ELSE stray
  /\ MayObserve
  /\ UNCHANGED <<runVars, op, chanVars, now, steps>>

ReturnOk    == ReturnValue("OK", FALSE)
ReturnOther == ReturnValue("OK", TRUE)
ReturnNone  == ReturnValue("discarded", FALSE)

\* ctx.require on a false condition.
RequireFails ==
  /\ pc = "resume"
  /\ Settle("REQUIRE_VIOLATED")
  /\ MayObserve
  /\ UNCHANGED <<runVars, op, stray, chanVars, now, steps>>

\* Any other exception ends the whole run: a misaligned waveform, a channel
\* key that is not hashable, an awaitable that is no RuntimeOp, a user error.
Raise ==
  /\ \/ pc = "resume"
     \/ MayTurn /\ op[Current] # NoOp
  /\ pc' = "failed"
  /\ MayObserve
  /\ UNCHANGED <<runVars, listVars, candVars, chanVars, now, steps>>

-----------------------------------------------------------------------------
(***************************************************************************)
(* The end of the scan, and what match() and collect() make of it.         *)
(***************************************************************************)
InSeq(c, s) == \E i \in 1 .. Len(s) : s[i] = c

LastIndex == (IF start > stop THEN start ELSE stop) - 1

\* Mutant: every candidate ever started is closed.
LeftoverAll(c) == status[c] # "none"

Leftover(c) == InSeq(c, active)

CloseWindow ==
  /\ pc = "scan"
  /\ stop # NoStop
  /\ now >= stop
  /\ status' = [c \in Cycles |-> IF Leftover(c) THEN "TIMEOUT" ELSE status[c]]
  /\ endAt' = [c \in Cycles |-> IF Leftover(c) THEN LastIndex ELSE endAt[c]]
  /\ completed' = completed \o active
  /\ pc' = "closed"
  /\ UNCHANGED <<runVars, axisVars, active, pos, still, op, stray, chanVars, now, steps>>

\* The positions in the completed list that a report keeps.
Undiscarded == {i \in 1 .. Len(completed) : status[completed[i]] # "discarded"}

Report(at) == [p \in 1 .. Cardinality(Undiscarded) |-> completed[at[p]]]

\* collect() returns the candidates in completion order, match() by start.
CollectReport == Report(Ascends(Undiscarded))
MatchReport   == Report(InOrderOf(Undiscarded, [i \in Undiscarded |-> Clock[completed[i]]]))

\* match() fails on a return value that is neither ctx.OK nor None.
FinishMatch ==
  /\ pc = "closed"
  /\ pc' = IF stray = {} THEN "done" ELSE "failed"
  /\ UNCHANGED <<runVars, axisVars, listVars, candVars, chanVars, now, steps>>

\* collect() fails on any verdict but OK.
FinishCollect ==
  /\ pc = "closed"
  /\ pc' = IF \E i \in 1 .. Len(completed) :
                status[completed[i]] \in {"TIMEOUT", "REQUIRE_VIOLATED"}
             THEN "failed" ELSE "done"
  /\ UNCHANGED <<runVars, axisVars, listVars, candVars, chanVars, now, steps>>

-----------------------------------------------------------------------------
Start == \E given \in BOOLEAN, from, to \in Requests \cup {NoRequest} :
           NewRun(given, from, to)

\* The loops of the runtime itself.
Sweep == StartCandidate \/ TimeOut \/ BeginAdvance \/ EndSweep
Turn  == Block \/ GuardFails \/ Unblock \/ FirstResume \/ StepLimitExceeded
Finish == CloseWindow \/ FinishMatch \/ FinishCollect

\* The coroutine gives control back.
Suspend == (\E o \in Ops : Yield(o)) \/ ReturnOk \/ ReturnOther \/ ReturnNone \/ RequireFails

\* The coroutine goes on without giving control back.
Work == Observe
          \/ (\E ch \in Channels : TryConsume(ch))
          \/ (\E ch \in Channels, at \in Cycles : NestedRun(ch, at))

Next == Start \/ Sweep \/ Turn \/ Finish \/ Suspend \/ Work \/ Raise

Spec == Init /\ [][Next]_vars

-----------------------------------------------------------------------------
(***************************************************************************)
(* Properties.                                                             *)
(***************************************************************************)
\* Every variable keeps its type, and every list holds candidates only.
TypeOK ==
  /\ pc \in PcValues
  /\ epoch \in Nat /\ nextEpoch \in Nat /\ epoch <= nextEpoch
  /\ mark \in [Channels -> [epoch : Int, at : Int]]
  /\ lo \in Requests \cup {NoRequest} /\ hi \in Requests \cup {NoRequest}
  /\ refKnown \in BOOLEAN /\ axisKnown \in BOOLEAN
  /\ start \in 0 .. NumCycles /\ stop \in {NoStop} \cup 0 .. NumCycles
  /\ now \in 0 .. NumCycles
  /\ active \in Seq(Cycles) /\ still \in Seq(Cycles) /\ completed \in Seq(Cycles)
  /\ pos \in Nat \ {0}
  /\ op \in [Cycles -> Ops]
  /\ status \in [Cycles -> Statuses]
  /\ endAt \in [Cycles -> Int]
  /\ stray \in SUBSET Cycles
  /\ steps \in 0 .. StepLimit
  /\ grants \in [Channels -> Seq(Cycles)]
  /\ refused \in [Channels -> SUBSET Cycles]

\* The channels whose marks no nested run of the program overwrites.
OwnChannels == Channels \ SharedChannels

\* "At most one pattern instance may consume per cycle" (Channel): whatever
\* programs do, and whatever marks earlier runs left on a reused Channel.
Exclusive == \A ch \in OwnChannels : Len(grants[ch]) <= 1

\* The same for every Channel object, the ones a nested run shares included: no two
\* instances consume it in a cycle.  (One and the same instance may consume it again
\* around its nested run, which the sentence above leaves open.)
ExclusiveEverywhere ==
  \A ch \in Channels : \A i, j \in 1 .. Len(grants[ch]) : grants[ch][i] = grants[ch][j]

\* "Oldest in-flight instance wins": a candidate is turned away from a channel
\* only because one at least as old consumed it in this very cycle and run,
\* never because of what an earlier run left in the marks.
OldestWins ==
  \A ch \in OwnChannels : \A c \in refused[ch] :
    \E i \in 1 .. Len(grants[ch]) : grants[ch][i] <= c

Occurrences(c, s) == Cardinality({i \in 1 .. Len(s) : s[i] = c})

Sweeping == pc \in {"sweep", "loop", "resume"}

InFlight == IF Sweeping THEN still \o SubSeq(active, pos, Len(active)) ELSE active

\* No candidate is lost or doubled while lists are rebuilt: each one started so
\* far is exactly once in flight, and then live, or exactly once completed.
NothingLost ==
  Sweeping \/ pc = "scan" =>
    \A c \in Cycles :
      /\ Occurrences(c, InFlight) = IF status[c] = "live" THEN 1 ELSE 0
      /\ Occurrences(c, completed) = IF status[c] \in Settled THEN 1 ELSE 0
      /\ status[c] # "none" <=> c >= start /\ (c < now \/ (Sweeping /\ c = now))

Live == {c \in Cycles : status[c] = "live"}

\* What is in flight is bounded at every step, in mid-sweep too, where the candidates
\* are spread over two lists: but for the one started in this cycle no more than
\* max_active; and when everyone was advanced, no more than a time limit has cycles, so
\* that a run with a time limit of at most max_active never fails for max_active.
InFlightBounded ==
  /\ Sweeping \/ pc = "scan" => Cardinality(Live \ {now}) <= MaxActive
  /\ Timed /\ pc = "sweep" /\ pos > Len(active) => Cardinality(Live) <= TimeoutCycles

\* The cycle is one the caller asked for: start_cycle inclusive, end_cycle not.
InWindow(c) == (lo = NoRequest \/ Clock[c] >= lo) /\ (hi = NoRequest \/ Clock[c] < hi)

\* What match() and collect() report holds every candidate of the window that
\* was not discarded, once, and nothing else; none of them is still in flight.
ReportComplete ==
  pc = "done" =>
    \A c \in Cycles :
      /\ InWindow(c) <=> status[c] \in Settled
      /\ \A report \in {MatchReport, CollectReport} :
           Occurrences(c, report) =
             IF InWindow(c) /\ status[c] # "discarded" THEN 1 ELSE 0

\* A verdict falls between the candidate's start and its time limit: TIMEOUT one
\* cycle past the limit or at the close of the window, any other within it.
VerdictInTime ==
  \A c \in Cycles : status[c] \in Settled =>
    /\ endAt[c] >= c
    /\ InWindow(endAt[c])
    /\ IF status[c] = "TIMEOUT"
         THEN \/ Timed /\ endAt[c] - c + 1 = TimeoutCycles + 1
              \/ pc \in {"closed", "done", "failed"} /\ endAt[c] = stop - 1
         ELSE Timed => endAt[c] - c + 1 <= TimeoutCycles

\* Between two cycles every candidate in flight is suspended on an operation
\* and no delay is overdue: each was advanced in every cycle since it started.
DelayNeverLate ==
  pc = "scan" =>
    \A i \in 1 .. Len(active) :
      LET o == op[active[i]] IN
        /\ o # NoOp
        /\ o.kind = "delay" => now - 1 < o.from + o.n

\* A verdict is final for the rest of the run.
VerdictFinal ==
  [][epoch' = epoch =>
       \A c \in Cycles : status[c] \in Settled =>
         status'[c] = status[c] /\ endAt'[c] = endAt[c]]_vars

(***************************************************************************)
(* The runtime is one thread, so its loops go on; that a coroutine gives   *)
(* control back is an assumption on the program.                           *)
(***************************************************************************)
FairSpec == Spec /\ WF_vars(Sweep \/ Turn \/ Finish) /\ WF_vars(Suspend)

\* Every run ends, even when a program goes on yielding operations that are
\* ready at once: the same-cycle step limit cuts it off.
RunEnds == (pc = "scan") ~> (pc \in {"done", "failed"})
=============================================================================
