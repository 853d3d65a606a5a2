------------------------- MODULE DeclarativePattern -------------------------
(***************************************************************************)
(* Declarative patterns: the step trees of src/wavekit/pattern/steps.py    *)
(* and dsl.py, as compiler.py turns them into a coroutine body, run by     *)
(* PatternRuntime.  What is open there is settled here: the coroutine is   *)
(* the interpreter of a step tree and conditions look at waveforms.        *)
(*                                                                         *)
(* The coroutine of a candidate is the sequence of steps it has yet to     *)
(* take; a tree node is replaced by its body as the interpreter enters it. *)
(***************************************************************************)
EXTENDS PatternRuntime

CONSTANTS
  Programs,   (* bound: the step lists tried                                 *)
  Waves(_),   (* bound: the waveforms tried with a step list                 *)
  Windows(_), (* bound: what is asked of it, <<axis given, start, end>>      *)
  Signals,    (* the waveforms a pattern looks at                            *)
  Values,     (* bound: the values a waveform has                            *)
  Names,      (* capture names                                               *)
  KeyOf       (* per value: the channel of that key                          *)

ASSUME InputAssumption ==
  /\ KeyOf \in [Values -> KeyChannels]
  /\ \A p \in Programs : /\ Waves(p) \subseteq [Signals -> [Cycles -> Values]]
                         /\ Windows(p) \subseteq BOOLEAN \X (Requests \cup {NoRequest}) \X (Requests \cup {NoRequest})

VARIABLES
  program,    (* Pattern._steps                                              *)
  signal,     (* the waveforms: per signal, its value at each cycle          *)
  todo,       (* per candidate: the steps its coroutine has yet to take      *)
  captures    (* per candidate and name: what was captured, a sequence       *)

inputs == <<program, signal>>
dvars  == <<vars, inputs, todo, captures>>

(***************************************************************************)
(* Steps, and what stands in them for a condition, an integer or a key: a  *)
(* waveform, or a callable over the index and the captures.                *)
(***************************************************************************)
Waveform(s)      == [is |-> "waveform", signal |-> s]
Number(n)        == [is |-> "number", n |-> n]
Captured(name)   == [is |-> "captured", name |-> name]
Matches(s, name) == [is |-> "matches", signal |-> s, name |-> name]
Static(ch)       == [is |-> "channel", ch |-> ch]

\* A condition that is left out: require=None, and the condition of a delay.
Always  == Number(1)
NoGuard == Always

WaitStep(cond, require)             == [kind |-> "wait", cond |-> cond, require |-> require]
ConsumeStep(cond, channel, require) ==
  [kind |-> "consume", cond |-> cond, channel |-> channel, require |-> require]
DelayStep(n, require)               ==
  [kind |-> "delay", cond |-> Always, n |-> n, require |-> require]
CaptureStep(name, source, mode)     ==
  [kind |-> "capture", name |-> name, source |-> source, mode |-> mode]
RequireStep(cond)                   == [kind |-> "require", cond |-> cond]
BranchStep(cond, yes, no)           == [kind |-> "branch", cond |-> cond, yes |-> yes, no |-> no]
RepeatStep(body, n)                 == [kind |-> "repeat", body |-> body, n |-> n]
LoopWhen(body, cond)                == [kind |-> "when", body |-> body, cond |-> cond]
LoopUntil(body, cond)               == [kind |-> "until", body |-> body, cond |-> cond]

\* Two nodes of the compiled body only: the trigger test ahead of the steps,
\* and the test at the foot of a do-while.
Trigger(cond)   == [kind |-> "trigger", cond |-> cond]
FootTest(loop)  == [kind |-> "foot", loop |-> loop]

\* What an expression amounts to at a cycle, given a candidate's captures.
ValueAt(e, at, caps) ==
  CASE e.is = "waveform" -> signal[e.signal][at]
    [] e.is = "number"   -> e.n
    [] e.is = "captured" -> caps[e.name][1]
    [] e.is = "matches"  -> IF signal[e.signal][at] = caps[e.name][1] THEN 1 ELSE 0

HoldsAt(e, at, caps) == ValueAt(e, at, caps) # 0

Value(e) == ValueAt(e, now, captures[Current])
Holds(e) == Value(e) # 0

\* Only a waveform passed as such is noted by the runtime.
Notes(e) == e.is = "waveform"

\* Mutant: only what was looked at last counts.
LooksAfresh(es) == axisKnown' = (\E e \in es : Notes(e))

\* Evaluating these expressions may establish the axis.
Looks(es) == axisKnown' = (axisKnown \/ \E e \in es : Notes(e))

ChannelOf(step) ==
  IF step.channel.is = "channel" THEN step.channel.ch ELSE KeyOf[Value(step.channel)]

(***************************************************************************)
(* infer_declarative_axis: whether a waveform occurs in a step list.       *)
(***************************************************************************)
RECURSIVE InfersAxis(_)
InfersAxis(steplist) ==
  \E i \in 1 .. Len(steplist) :
    LET s == steplist[i] IN
      CASE s.kind \in {"wait", "consume"} -> Notes(s.cond) \/ Notes(s.require)
        [] s.kind = "delay"               -> Notes(s.require)
        [] s.kind = "capture"             -> Notes(s.source)
        [] s.kind = "require"             -> Notes(s.cond)
        [] s.kind \in {"when", "until"}   -> Notes(s.cond) \/ InfersAxis(s.body)
        [] s.kind = "repeat"              -> InfersAxis(s.body)
        [] s.kind = "branch"              ->
             Notes(s.cond) \/ InfersAxis(s.yes) \/ InfersAxis(s.no)

-----------------------------------------------------------------------------
\* compile_declarative_pattern: a first wait without a guard is the trigger.
Body(p) ==
  IF p # <<>> /\ p[1].kind = "wait" /\ p[1].require = NoGuard
    THEN <<Trigger(p[1].cond)>> \o p ELSE p

NoCaptures == [n \in Names |-> <<>>]

DInit ==
  /\ Init
  /\ program \in Programs
  /\ signal \in Waves(program)
  /\ todo = [c \in Cycles |-> <<>>]
  /\ captures = [c \in Cycles |-> NoCaptures]

\* Pattern.match: the axis is given, or inferred when a window is asked for.
DStart(given, from, to) ==
  /\ NewRun(given \/ ((from # NoRequest \/ to # NoRequest) /\ InfersAxis(program)), from, to)
  /\ todo' = [c \in Cycles |-> <<>>]
  /\ captures' = [c \in Cycles |-> NoCaptures]
  /\ UNCHANGED inputs

DStartCandidate ==
  /\ StartCandidate
  /\ todo' = [todo EXCEPT ![now] = Body(program)]
  /\ UNCHANGED <<inputs, captures>>

\* Steps of the scheduler that no program has a say in.
DSweep == (TimeOut \/ BeginAdvance \/ EndSweep \/ CloseWindow \/ FinishMatch \/ FirstResume
             \/ StepLimitExceeded) /\ UNCHANGED <<inputs, todo, captures>>

(***************************************************************************)
(* Evaluating the operation a candidate is suspended on.                   *)
(***************************************************************************)
Step   == Head(todo[Current])
Steps  == Tail(todo[Current])

Blocking == {"wait", "consume", "delay"}

\* Mutant: the guard is a condition of success as well.
SucceedsUnderGuard(step) ==
  /\ Holds(step.cond)
  /\ step.kind = "consume" => Free(ChannelOf(step))
  /\ step.kind = "delay" => DelayOver(op[Current])
  /\ Holds(step.require)

Succeeds(step) ==
  /\ Holds(step.cond)
  /\ step.kind = "consume" => Free(ChannelOf(step))
  /\ step.kind = "delay" => DelayOver(op[Current])

TurnedAway(step) ==
  IF step.kind = "consume" /\ Holds(step.cond) THEN Refuse(ChannelOf(step))
                                               ELSE UNCHANGED chanVars

Suspended == pc = "loop" /\ op[Current] # NoOp

DBlock ==
  /\ Suspended /\ ~Succeeds(Step) /\ Holds(Step.require)
  /\ Block /\ TurnedAway(Step)
  /\ Looks({Step.cond, Step.require})
  /\ UNCHANGED <<inputs, todo, captures>>

DGuardFails ==
  /\ Suspended /\ ~Succeeds(Step) /\ ~Holds(Step.require)
  /\ GuardFails /\ TurnedAway(Step)
  /\ Looks({Step.cond, Step.require})
  /\ UNCHANGED <<inputs, todo, captures>>

DUnblock ==
  /\ Suspended /\ Succeeds(Step)
  /\ Unblock
  /\ IF Step.kind = "consume" THEN Take(ChannelOf(Step)) ELSE UNCHANGED chanVars
  /\ Looks({Step.cond})
  /\ todo' = [todo EXCEPT ![Current] = Steps]
  /\ UNCHANGED <<inputs, captures>>

(***************************************************************************)
(* run_steps, between a resume and the next await.                         *)
(***************************************************************************)
At(kind) == pc = "resume" /\ todo[Current] # <<>> /\ Step.kind = kind

GoOn(with) == todo' = [todo EXCEPT ![Current] = with]

\* The scheduler does not notice, except that an axis may become known.
Silent(es) ==
  /\ Looks(es)
  /\ UNCHANGED <<pc, runVars, refKnown, stop, listVars, candVars, chanVars, now, steps, inputs>>

OpOf(step) == IF step.kind = "wait" THEN Wait ELSE Consume

AwaitWait ==
  /\ At("wait") \/ At("consume")
  /\ Yield(OpOf(Step))
  /\ UNCHANGED <<axisVars, inputs, todo, captures>>

AwaitDelay ==
  /\ At("delay")
  /\ Value(Step.n) >= 0
  /\ Yield(Delay(now, Value(Step.n)))
  /\ UNCHANGED <<axisVars, inputs, todo, captures>>

DoTrigger ==
  /\ At("trigger") /\ Holds(Step.cond)
  /\ Silent({Step.cond}) /\ GoOn(Steps)
  /\ UNCHANGED captures

NotTriggered ==
  /\ At("trigger") /\ ~Holds(Step.cond)
  /\ ReturnNone /\ Looks({Step.cond})
  /\ UNCHANGED <<inputs, todo, captures>>

\* ctx.capture: overwrite, keep the first, or collect.
Recorded(old, mode, v) ==
  CASE mode = "last"  -> <<v>>
    [] mode = "first" -> IF old = <<>> THEN <<v>> ELSE old
    [] mode = "list"  -> Append(old, v)

DoCapture ==
  /\ At("capture")
  /\ captures' = [captures EXCEPT ![Current][Step.name] =
                    Recorded(@, Step.mode, Value(Step.source))]
  /\ Silent({Step.source}) /\ GoOn(Steps)

DoRequire ==
  /\ At("require") /\ Holds(Step.cond)
  /\ Silent({Step.cond}) /\ GoOn(Steps)
  /\ UNCHANGED captures

DRequireFails ==
  /\ At("require") /\ ~Holds(Step.cond)
  /\ RequireFails /\ Looks({Step.cond})
  /\ UNCHANGED <<inputs, todo, captures>>

DoBranch ==
  /\ At("branch")
  /\ GoOn((IF Holds(Step.cond) THEN Step.yes ELSE Step.no) \o Steps)
  /\ Silent({Step.cond})
  /\ UNCHANGED captures

Times(body, n) == [i \in 1 .. n * Len(body) |-> body[((i - 1) % Len(body)) + 1]]

\* The count is evaluated once, on entry.
DoRepeat ==
  /\ At("repeat")
  /\ Value(Step.n) >= 0
  /\ GoOn(Times(Step.body, Value(Step.n)) \o Steps)
  /\ Silent({})
  /\ UNCHANGED captures

Again == Step.body \o todo[Current]

DoWhen ==
  /\ At("when")
  /\ GoOn(IF Holds(Step.cond) THEN Again ELSE Steps)
  /\ Silent({Step.cond})
  /\ UNCHANGED captures

DoUntil ==
  /\ At("until")
  /\ GoOn(Step.body \o <<FootTest(Step)>> \o Steps)
  /\ Silent({})
  /\ UNCHANGED captures

DoFoot ==
  /\ At("foot")
  /\ GoOn(IF Holds(Step.loop.cond) THEN Steps ELSE <<Step.loop>> \o Steps)
  /\ Silent({Step.loop.cond})
  /\ UNCHANGED captures

\* A negative delay or repeat count is a PatternError.
DRaise ==
  /\ At("delay") \/ At("repeat")
  /\ Value(Step.n) < 0
  /\ Raise
  /\ UNCHANGED <<axisVars, inputs, todo, captures>>

DReturn ==
  /\ pc = "resume" /\ todo[Current] = <<>>
  /\ ReturnOk
  /\ UNCHANGED <<axisVars, inputs, todo, captures>>

-----------------------------------------------------------------------------
Interpret == DoTrigger \/ DoCapture \/ DoRequire \/ DoBranch \/ DoRepeat \/ DoWhen
               \/ DoUntil \/ DoFoot

Scan == DStartCandidate \/ DSweep \/ DBlock \/ DGuardFails \/ DUnblock \/ AwaitWait
          \/ AwaitDelay \/ NotTriggered \/ DRequireFails \/ DRaise \/ DReturn \/ Interpret

DNext ==
  \/ \E w \in Windows(program) : DStart(w[1], w[2], w[3])
  \/ Scan

DSpec == DInit /\ [][DNext]_dvars

\* All of this is the code of the library in one thread, so it goes on.
FairDSpec == DSpec /\ WF_dvars(Scan)

-----------------------------------------------------------------------------
(***************************************************************************)
(* Properties.                                                             *)
(***************************************************************************)
\* The compiled body of every step list is one of the programs PatternRuntime
\* allows, so what holds of all programs there holds of these patterns.
IsRuntime == Spec

\* Every run of a declarative pattern ends: the step limit is there to
\* "protect against a program that loops forever without yielding a blocking
\* op" (_advance_instance).
PatternEnds == (pc = "scan") ~> (pc \in {"done", "failed"})
=============================================================================
