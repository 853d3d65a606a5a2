------------------------ MODULE MCDeclarativePattern ------------------------
(* Declarative patterns on small waveforms. *)
EXTENDS PatternMeaning

TwoClock   == [i \in 0 .. 1 |-> 5 + 2 * i]
ThreeClock == [i \in 0 .. 2 |-> IF i = 2 THEN 8 ELSE 5 + i]
FourClock  == [i \in 0 .. 3 |-> IF i = 3 THEN 9 ELSE 5 + i]

CONSTANTS k0, k1, k2
KeyPerId  == [v \in Values |-> CASE v = 0 -> k0 [] v = 1 -> k1 [] OTHER -> k2]

A == Waveform("a")
B == Waveform("b")

\* One step list for every kind of step, alone and nested.
GuardedWait   == <<WaitStep(A, B), CaptureStep("x", B, "last"), RequireStep(A)>>
Triggered     == <<WaitStep(A, NoGuard), DelayStep(Number(1), B), CaptureStep("x", B, "first"),
                   CaptureStep("x", A, "first"), WaitStep(Matches("b", "x"), NoGuard)>>
DoWhile       == <<LoopUntil(<<WaitStep(A, NoGuard), CaptureStep("x", B, "list"),
                               DelayStep(Number(1), NoGuard)>>, B)>>
While         == <<LoopWhen(<<DelayStep(Number(1), NoGuard), CaptureStep("x", B, "list")>>, A),
                   RequireStep(B)>>
Counted       == <<RepeatStep(<<WaitStep(A, NoGuard), DelayStep(Number(1), NoGuard)>>, Number(2)),
                   RepeatStep(<<CaptureStep("x", B, "list")>>, B), DelayStep(B, A)>>
Branching     == <<BranchStep(A, <<DelayStep(Number(2), B)>>, <<CaptureStep("x", B, "last")>>),
                   WaitStep(B, NoGuard)>>
StepKinds == {GuardedWait, Triggered, DoWhile, While, Counted, Branching}

\* A request ("a"), its id, and the response ("b") of that id, through the id's channel.
Transaction == <<WaitStep(A, NoGuard), CaptureStep("x", A, "last"),
                 ConsumeStep(Matches("b", "x"), Captured("x"), NoGuard)>>

\* A loop whose body never blocks although it awaits: the step limit ends it.
\* Counts that are negative end the run, too.
ReadyLoop     == <<LoopWhen(<<DelayStep(Number(0), NoGuard)>>, A)>>
NegativeCount == <<WaitStep(A, NoGuard), RepeatStep(<<>>, Number(-1))>>
NegativeDelay == <<WaitStep(A, NoGuard), DelayStep(Number(-1), NoGuard)>>
Faulty == {ReadyLoop, NegativeCount, NegativeDelay}

StepLists == StepKinds \union Faulty \union {Transaction}

\* A while loop that only records.
RecordingLoop == {<<LoopWhen(<<CaptureStep("x", B, "last")>>, A)>>}

\* Levels for conditions, ids for transactions; every window for conditions.
MCWaves(p) == [Signals -> [Cycles -> IF p = Transaction THEN Values ELSE {0, 1}]]
AnyWindow(p) ==
  IF p = Transaction THEN {<<TRUE, NoRequest, NoRequest>>}
  ELSE BOOLEAN \X (Requests \cup {NoRequest}) \X (Requests \cup {NoRequest})
=============================================================================
