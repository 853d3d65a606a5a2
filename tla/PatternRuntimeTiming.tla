------------------------ MODULE PatternRuntimeTiming ------------------------
(***************************************************************************)
(* No candidate is lost, and each one is advanced, and judged, on time:    *)
(* for every program, every window and every limit.                        *)
(***************************************************************************)
EXTENDS PatternRuntimeProofs, Lemmas

USE DEF NoStop

-----------------------------------------------------------------------------
(***************************************************************************)
(* The steps, sorted by what else they do.                                 *)
(***************************************************************************)
LEMMA OpSteps ==
  ASSUME TypeInv, Next
  PROVE  \/ Start \/ op' = op
         \/ /\ pc \in {"loop", "resume"} /\ Stays
            /\ \E o : op' = [op EXCEPT ![Current] = o]
<1>1. CASE \E o \in Ops : Yield(o)
  BY <1>1 DEF Yield, Stays, Sweeping
<1>2. CASE Unblock
  BY <1>2 DEF Unblock, MayTurn, Stays, Sweeping
<1> QED
  BY <1>1, <1>2
  DEF Next, Sweep, Turn, Finish, Suspend, Work, StartCandidate, TimeOut, BeginAdvance,
      EndSweep, Block, GuardFails, FirstResume, StepLimitExceeded, CloseWindow, FinishMatch,
      FinishCollect, ReturnOk, ReturnOther, ReturnNone, ReturnValue, RequireFails, Observe,
      TryConsume, NestedRun, Raise, candVars

LEMMA AxisSteps ==
  ASSUME TypeInv, Next
  PROVE  /\ Start \/ UNCHANGED <<lo, hi, start>>
         /\ Start \/ EndSweep \/ stop' = stop
         /\ pc' = "closed" => CloseWindow \/ Start
  BY DEF Next, Sweep, Turn, Finish, Suspend, Work, StartCandidate, TimeOut, BeginAdvance,
         EndSweep, Block, GuardFails, Unblock, FirstResume, StepLimitExceeded, CloseWindow,
         FinishMatch, FinishCollect, Yield, ReturnOk, ReturnOther, ReturnNone, ReturnValue,
         RequireFails, Observe, TryConsume, NestedRun, Raise, Settle, MayObserve, MayTurn,
         runVars, axisVars

\* A candidate is judged by its age before it is advanced, or else by itself.
LEMMA SettleSteps ==
  ASSUME TypeInv, Next, Settles
  PROVE  \/ TimeOut
         \/ /\ pc \in {"loop", "resume"}
            /\ \E verdict \in Settled \ {"TIMEOUT"} : Settle(verdict)
<1>1. pos' = pos + 1 /\ pc' = "sweep" /\ pos \in Nat /\ now' = now /\ active' = active /\ still' = still
  BY DEF Settles, Settle, TypeInv, TypeOK
<1>2. ~Start /\ ~StartCandidate /\ ~EndSweep /\ ~Stays /\ ~Leaves
  <2>1. Sweeping
    BY DEF Settles, Sweeping
  <2> QED  BY <1>1, <2>1 DEF Start, NewRun, StartCandidate, EndSweep, Stays, listVars, Leaves, Sweeping
<1>3. ~Block
  <2>1. Len(Append(still, active[pos])) = Len(still) + 1 /\ Len(still) \in Nat
    BY ListTypes
  <2> QED  BY <1>1, <2>1 DEF Block, Keep, Current
<1>4. ~BeginAdvance /\ ~Unblock /\ ~FirstResume /\ ~StepLimitExceeded /\ ~Finish /\ ~Work /\ ~Raise
      /\ ~(\E o \in Ops : Yield(o))
  BY <1>1 DEF BeginAdvance, Unblock, FirstResume, StepLimitExceeded, Finish, CloseWindow,
              FinishMatch, FinishCollect, Work, Observe, TryConsume, NestedRun, Raise, Yield, listVars
<1> QED
  BY <1>2, <1>3, <1>4
  DEF Next, Sweep, Turn, Suspend, GuardFails, MayTurn, ReturnOk, ReturnOther, ReturnNone,
      ReturnValue, RequireFails, Settled, Reported

\* A candidate is advanced only after its age was looked at.
LEMMA TurnSteps ==
  ASSUME TypeInv, Next, pc' \in {"loop", "resume"}
  PROVE  /\ BeginAdvance \/ pc \in {"loop", "resume"}
         /\ UNCHANGED <<active, pos, now>>
  BY DEF Next, Sweep, Turn, Finish, Suspend, Work, Start, NewRun, StartCandidate, TimeOut,
         BeginAdvance, EndSweep, Block, GuardFails, Unblock, FirstResume, StepLimitExceeded,
         CloseWindow, FinishMatch, FinishCollect, Yield, ReturnOk, ReturnOther, ReturnNone,
         ReturnValue, RequireFails, Observe, TryConsume, NestedRun, Raise, Settle, MayTurn, listVars

\* Between the verdicts the records stand still.
LEMMA QuietSteps ==
  ASSUME TypeInv, Next, Block \/ Stays
  PROVE  /\ Sweeping /\ Sweeping' /\ pc' # "scan"
         /\ UNCHANGED <<status, endAt, completed, lo, hi, start, stop, now>>
<1>1. Sweeping /\ Sweeping' /\ pc' # "scan" /\ UNCHANGED <<completed, now>>
  BY DEF Block, MayTurn, Stays, Sweeping, listVars
<1>2. ~Start /\ ~StartCandidate /\ ~EndSweep /\ ~CloseWindow
  BY <1>1 DEF Start, NewRun, StartCandidate, EndSweep, CloseWindow, Sweeping
<1>3. ~Settles
  <2>1. ASSUME Settles PROVE FALSE
    <3>1. pos' = pos + 1 /\ still' = still /\ pos \in Nat
      BY <2>1 DEF Settles, Settle, TypeInv, TypeOK
    <3>2. Len(Append(still, active[pos])) = Len(still) + 1 /\ Len(still) \in Nat
      BY ListTypes
    <3> QED  BY <3>1, <3>2 DEF Block, Keep, Current, Stays, listVars
  <2> QED  BY <2>1
<1> QED  BY <1>1, <1>2, <1>3, StatusSteps, EndSteps, AxisSteps

LEMMA SettledOne ==
  ASSUME TypeInv, LiveLists, Next, Settles
  PROVE  /\ Sweeping /\ Sweeping' /\ pc' # "scan"
         /\ UNCHANGED <<lo, hi, start, stop, now>>
         /\ Current \in Cycles /\ status[Current] = "live"
         /\ \E verdict \in Settled : status' = [status EXCEPT ![Current] = verdict]
         /\ endAt' = [endAt EXCEPT ![Current] = now]
         /\ completed' = Append(completed, Current)
<1>1. /\ Sweeping /\ pc' = "sweep" /\ now' = now /\ pos \in 1 .. Len(active)
      /\ endAt' = [endAt EXCEPT ![Current] = now]
      /\ completed' = Append(completed, Current)
      /\ \E verdict \in Settled : status' = [status EXCEPT ![Current] = verdict]
      /\ pos' = pos + 1
  <2>1. Sweeping /\ now' = now /\ pos \in 1 .. Len(active)
    BY DEF Settles, Sweeping, TypeInv, TypeOK, Cursor
  <2> QED  BY <2>1 DEF Settles, Settle
<1>2. Current \in Cycles /\ status[Current] = "live"
  BY <1>1, ListTypes DEF LiveLists, InRest, Current
<1>3. ~Start /\ ~EndSweep
  BY <1>1, ListTypes DEF Start, NewRun, EndSweep, Sweeping
<1> QED  BY <1>1, <1>2, <1>3, AxisSteps DEF Sweeping

-----------------------------------------------------------------------------
(***************************************************************************)
(* Delays.  Whoever the sweep has passed waits for something, and for no   *)
(* delay that is over.                                                     *)
(***************************************************************************)
OnTime(c, t) == op[c] # NoOp /\ (op[c].kind = "delay" => t < op[c].from + op[c].n)

DelaysKept ==
  /\ pc = "scan"  => \A i \in 1 .. Len(active) : OnTime(active[i], now - 1)
  /\ Sweeping => \A i \in 1 .. Len(still) : OnTime(still[i], now)

LEMMA BlockedOnTime ==
  ASSUME TypeInv, Block
  PROVE  OnTime(Current, now)
<1>1. pc = "loop" /\ NotReady(op[Current])
  BY DEF Block, MayTurn
<1>2. op[Current] \in Ops
  BY <1>1, CurrentIsCandidate DEF TypeInv, TypeOK
<1>3. op[Current].kind \in {"wait", "consume", "delay"} /\ op[Current] # NoOp
  BY <1>1 DEF NotReady, NoOp, Operation
<1>4. ASSUME op[Current].kind = "delay" PROVE now < op[Current].from + op[Current].n
  <2>1. ~DelayOver(op[Current])
    BY <1>1, <1>4 DEF NotReady
  <2>2. op[Current].from \in Int /\ op[Current].n \in Int /\ now \in Int
    BY <1>2, <1>4, ListTypes, CyclesAreInts, LimitAssumption
    DEF Ops, NoOp, Wait, Consume, Delay, Operation
  <2> QED  BY <2>1, <2>2 DEF DelayOver
<1> QED  BY <1>3, <1>4 DEF OnTime

LEMMA DelaysNext == TypeInv /\ Order /\ DelaysKept /\ [Next]_vars => DelaysKept'
<1> SUFFICES ASSUME TypeInv, Order, DelaysKept, [Next]_vars PROVE DelaysKept'
  OBVIOUS
<1> USE DEF DelaysKept, OnTime
<1>1. CASE Start
  BY <1>1 DEF Start, NewRun, Sweeping
<1>2. CASE StartCandidate
  BY <1>2 DEF StartCandidate
<1>3. CASE EndSweep
  <2>1. /\ Sweeping /\ active' = still /\ op' = op
        /\ pc' = "failed" \/ (pc' = "scan" /\ now' = now + 1)
    BY <1>3 DEF EndSweep, Sweeping, candVars
  <2>2. pc' = "scan" => now' - 1 = now
    BY <2>1, ListTypes
  <2>3. \A i \in 1 .. Len(still) : OnTime(still[i], now)
    BY <2>1
  <2>4. ASSUME pc' = "scan", NEW i \in 1 .. Len(active') PROVE OnTime(active[i], now - 1)'
    BY <2>1, <2>2, <2>3, <2>4
  <2> QED  BY <2>1, <2>4 DEF Sweeping
<1>4. CASE Block
  <2>1. /\ Sweeping /\ pc' = "sweep" /\ still' = Append(still, Current) /\ now' = now /\ op' = op
    BY <1>4 DEF Block, MayTurn, Keep, candVars, Sweeping
  <2>2. /\ Len(still') = Len(still) + 1
        /\ \A i \in 1 .. Len(still) : still'[i] = still[i]
        /\ still'[Len(still) + 1] = Current
    BY <2>1, ListTypes
  <2>3. OnTime(Current, now)
    BY <1>4, BlockedOnTime
  <2> QED  BY <2>1, <2>2, <2>3, ListTypes
<1>5. CASE Leaves
  BY <1>5 DEF Leaves, Sweeping
<1>6. CASE Stays /\ op' = op
  BY <1>6 DEF Stays, listVars, Sweeping
<1>7. CASE Stays /\ pc \in {"loop", "resume"} /\ \E o : op' = [op EXCEPT ![Current] = o]
  <2>1. Sweeping /\ still' = still /\ now' = now /\ pc' # "scan"
    BY <1>7 DEF Stays, listVars, Sweeping
  <2>2. \A i \in 1 .. Len(still) : still[i] # Current
    <3>1. pos \in 1 .. Len(active)
      BY <1>7 DEF TypeInv, TypeOK, Cursor
    <3> QED  BY <2>1, <3>1, ListTypes DEF Order, Current
  <2>3. op \in [Cycles -> Ops] /\ \A i \in 1 .. Len(still) : still[i] \in Cycles
    BY ListTypes DEF TypeInv, TypeOK
  <2>4. \A i \in 1 .. Len(still) : op'[still[i]] = op[still[i]]
    BY <1>7, <2>2, <2>3
  <2> QED  BY <2>1, <2>4
<1>8. CASE Settles /\ op' = op
  BY <1>8 DEF Settles, Settle, Sweeping
<1>9. CASE UNCHANGED vars
  BY <1>9 DEF vars, listVars, candVars, Sweeping
<1>10. Settles => ~Stays /\ ~Start
  BY DEF Settles, Settle, Stays, listVars, Start, NewRun, TypeInv, TypeOK
<1>11. Stays => ~Start
  BY DEF Stays, Start, NewRun, Sweeping
<1> QED
  BY <1>1, <1>2, <1>3, <1>4, <1>5, <1>6, <1>7, <1>8, <1>9, <1>10, <1>11, StepShapes, OpSteps

\* Every candidate in flight is suspended between two cycles, and none sleeps past its
\* delay: _advance_instance was there for each of them in every cycle.
THEOREM DelaysAreOnTime == Spec => []DelayNeverLate
<1>1. Init => DelaysKept
  BY DEF Init, DelaysKept, Sweeping
<1>2. RInv /\ DelaysKept /\ [Next]_vars => DelaysKept'
  BY DelaysNext DEF RInv, IInv
<1>3. DelaysKept => DelayNeverLate
  BY DEF DelaysKept, OnTime, DelayNeverLate
<1> QED
  BY <1>1, <1>2, <1>3, RInvHolds, PTL DEF Spec

-----------------------------------------------------------------------------
(***************************************************************************)
(* The window.  The clock numbers ascend, so those below a number are the  *)
(* first ones, and indices between the two searches are what was asked.    *)
(***************************************************************************)
LEMMA SearchSortedIs ==
  ASSUME NEW v \in Int, NEW i \in Cycles
  PROVE  /\ SearchSorted(v) \in 0 .. NumCycles
         /\ Clock[i] < v <=> i < SearchSorted(v)
<1> DEFINE S == {j \in Cycles : Clock[j] < v}
<1>1. IsFiniteSet(Cycles) /\ Cardinality(Cycles) = NumCycles
  BY FS_Interval, CyclesAssumption DEF Cycles
<1>2. IsFiniteSet(S) /\ Cardinality(S) \in Nat /\ Cardinality(S) <= NumCycles
  BY <1>1, FS_Subset, FS_CardinalityType
<1>3. i \in Nat /\ i < NumCycles
  BY CyclesAssumption DEF Cycles
<1>4. ASSUME Clock[i] < v PROVE i < Cardinality(S)
  <2>1. 0 .. i \subseteq S
    BY <1>3, <1>4, CyclesAssumption DEF Cycles
  <2>2. Cardinality(0 .. i) = i + 1
    BY <1>3, FS_Interval
  <2> HIDE DEF S
  <2>3. Cardinality(0 .. i) <= Cardinality(S)
    BY <1>2, <2>1, FS_Subset
  <2> QED  BY <1>2, <1>3, <2>2, <2>3
<1>5. ASSUME ~(Clock[i] < v) PROVE ~(i < Cardinality(S))
  <2>1. S \subseteq 0 .. i - 1
    BY <1>3, <1>5, CyclesAssumption DEF Cycles
  <2>2. IsFiniteSet(0 .. i - 1) /\ Cardinality(0 .. i - 1) = i
    BY <1>3, FS_Interval
  <2> HIDE DEF S
  <2>3. Cardinality(S) <= Cardinality(0 .. i - 1)
    BY <2>1, <2>2, FS_Subset
  <2> QED  BY <1>2, <1>3, <2>2, <2>3
<1> QED  BY <1>2, <1>4, <1>5, CyclesAssumption DEF SearchSorted

LEMMA WindowIsAsked ==
  ASSUME NEW from \in Requests \cup {NoRequest}, NEW to \in Requests \cup {NoRequest},
         NEW i \in Cycles, FirstIndex(from) <= i, i < StopIndex(from, to)
  PROVE  (from = NoRequest \/ Clock[i] >= from) /\ (to = NoRequest \/ Clock[i] < to)
<1>1. Clock[i] \in Int /\ i \in Int /\ i < NumCycles
  BY CyclesAssumption DEF Cycles
<1>2. ASSUME from # NoRequest PROVE Clock[i] >= from
  <2>1. from \in Int
    BY <1>2, RequestAssumption
  <2>2. SearchSorted(from) <= i
    BY <1>1, <1>2, <2>1, SearchSortedIs, CyclesAssumption DEF FirstIndex, Clamp
  <2> QED  BY <1>1, <2>1, <2>2, SearchSortedIs
<1>3. ASSUME to # NoRequest PROVE Clock[i] < to
  <2>1. to \in Int
    BY <1>3, RequestAssumption
  <2>2. FirstIndex(from) \in 0 .. NumCycles /\ SearchSorted(to) \in 0 .. NumCycles
    BY <2>1, WindowIndices, SearchSortedIs
  <2>3. i < SearchSorted(to)
    BY <1>1, <1>3, <2>2, CyclesAssumption DEF StopIndex, Clamp
  <2> QED  BY <2>1, <2>3, SearchSortedIs
<1> QED  BY <1>2, <1>3

\* The scan stays between the two indices, and without an axis nobody asked for a window.
Frame ==
  pc \in {"scan", "closed"} \/ Sweeping =>
    /\ start = FirstIndex(lo) /\ start <= now
    /\ IF stop = NoStop THEN lo = NoRequest /\ hi = NoRequest ELSE stop = StopIndex(lo, hi)
    /\ Sweeping /\ stop # NoStop => now < stop
    /\ pc = "scan" /\ stop # NoStop => now <= stop

LEMMA FrameNext == TypeInv /\ Frame /\ [Next]_vars => Frame'
<1> SUFFICES ASSUME TypeInv, Frame, [Next]_vars PROVE Frame'
  OBVIOUS
<1> USE DEF Frame
<1>1. now \in 0 .. NumCycles /\ start \in 0 .. NumCycles /\ stop \in {NoStop} \cup 0 .. NumCycles
  BY DEF TypeInv, TypeOK
<1>2. FirstIndex(NoRequest) = 0 /\ StopIndex(NoRequest, NoRequest) = NumCycles
  BY DEF FirstIndex, StopIndex
<1>3. CASE Start
  <2>1. PICK given \in BOOLEAN, from \in Requests \cup {NoRequest}, to \in Requests \cup {NoRequest} :
          NewRun(given, from, to)
    BY <1>3 DEF Start
  <2>2. FirstIndex(from) \in 0 .. NumCycles /\ StopIndex(from, to) \in FirstIndex(from) .. NumCycles
    BY WindowIndices
  <2>3. /\ lo' = from /\ hi' = to /\ now' = start' /\ pc' \in {"scan", "failed"}
        /\ given => start' = FirstIndex(from) /\ stop' = StopIndex(from, to)
        /\ ~given => start' = 0 /\ stop' = NoStop
        /\ ~given /\ pc' = "scan" => from = NoRequest /\ to = NoRequest
    BY <2>1 DEF NewRun
  <2>4. SUFFICES ASSUME pc' = "scan" PROVE Frame'
    BY <2>3 DEF Sweeping
  <2>5. start' = FirstIndex(lo') /\ start' \in Nat /\ now' = start'
    BY <1>2, <2>2, <2>3, <2>4, CyclesAssumption
  <2>6. CASE given
    <3>1. stop' = StopIndex(lo', hi') /\ stop' = StopIndex(from, to) /\ start' = FirstIndex(from)
      BY <2>3, <2>6
    <3>2. stop' # NoStop /\ now' <= stop'
      BY <2>2, <2>5, <3>1, CyclesAssumption
    <3> QED  BY <2>4, <2>5, <3>1, <3>2 DEF Sweeping
  <2>7. CASE ~given
    BY <2>3, <2>4, <2>5, <2>7 DEF Sweeping
  <2> QED  BY <2>6, <2>7
<1>4. CASE StartCandidate
  BY <1>4 DEF StartCandidate, runVars, axisVars, Sweeping
<1>5. CASE EndSweep
  <2>1. /\ Sweeping /\ UNCHANGED <<lo, hi, start>>
        /\ \/ pc' = "failed"
           \/ pc' = "scan" /\ now' = now + 1 /\ stop' = IF refKnown THEN stop ELSE NumCycles
    BY <1>5 DEF EndSweep, Sweeping, runVars
  <2>2. now < NumCycles /\ (refKnown <=> stop # NoStop)
    BY <2>1, CyclesAssumption DEF TypeInv, Window, Cycles
  <2>3. ~Sweeping' /\ pc' # "closed"
    BY <2>1 DEF Sweeping
  <2>4. ASSUME pc' = "scan" PROVE Frame'
    <3>1. start' <= now' /\ now' <= NumCycles
      BY <1>1, <2>1, <2>2, <2>4, CyclesAssumption
    <3>2. CASE refKnown
      BY <1>1, <2>1, <2>2, <2>3, <2>4, <3>1, <3>2
    <3>3. CASE ~refKnown
      BY <1>1, <1>2, <2>1, <2>2, <2>3, <2>4, <3>1, <3>3, CyclesAssumption
    <3> QED  BY <3>2, <3>3
  <2> QED  BY <2>1, <2>3, <2>4
<1>6. CASE Next /\ (Block \/ Stays \/ Settles)
  <2>1. Sweeping /\ Sweeping' /\ now' = now /\ pc' \notin {"scan", "closed"}
    BY <1>6 DEF Block, MayTurn, Stays, Settles, Settle, Sweeping
  <2>2. ~Start /\ ~EndSweep
    BY <2>1 DEF Start, NewRun, EndSweep, Sweeping
  <2>3. UNCHANGED <<lo, hi, start, stop>>
    BY <1>6, <2>2, AxisSteps
  <2> QED  BY <2>1, <2>3
<1>7. CASE Next /\ Leaves
  <2>1. ~Sweeping' /\ pc' # "scan"
    BY <1>7 DEF Leaves, Sweeping
  <2>2. CASE CloseWindow
    BY <2>1, <2>2 DEF CloseWindow, runVars, axisVars
  <2>3. CASE pc' # "closed"
    BY <2>1, <2>3
  <2> QED  BY <1>3, <1>7, <2>2, <2>3, AxisSteps
<1>8. CASE UNCHANGED vars
  BY <1>8 DEF vars, runVars, axisVars, Sweeping
<1> QED  BY <1>3, <1>4, <1>5, <1>6, <1>7, <1>8, StepShapes

-----------------------------------------------------------------------------
(***************************************************************************)
(* Nobody is lost.  A candidate exists for each cycle scanned so far; with *)
(* the invariants at hand it is in the lists exactly while it is live, and *)
(* the completed ones are the settled ones, each once.                     *)
(***************************************************************************)
Started ==
  pc = "scan" \/ Sweeping =>
    \A c \in Cycles : status[c] # "none" <=> c >= start /\ (c < now \/ (Sweeping /\ c = now))

Distinct(s) == \A i, j \in 1 .. Len(s) : s[i] = s[j] => i = j

CompletedOnce ==
  pc = "scan" \/ Sweeping =>
    /\ Distinct(completed)
    /\ \A c \in Cycles : status[c] \in Settled <=> InSeq(c, completed)

LEMMA StartedNext == TypeInv /\ LiveLists /\ Frame /\ Started /\ [Next]_vars => Started'
<1> SUFFICES ASSUME TypeInv, LiveLists, Frame, Started, [Next]_vars PROVE Started'
  OBVIOUS
<1> USE DEF Started
<1>1. status \in [Cycles -> Statuses] /\ now \in Int /\ start \in Int /\ \A c \in Cycles : c \in Int
  BY ListTypes, CyclesAreInts DEF TypeInv, TypeOK
<1>2. CASE Start
  <2>1. ~Sweeping' /\ now' = start' /\ status' = [c \in Cycles |-> "none"]
    BY <1>2 DEF Start, NewRun, Sweeping
  <2>2. pc' = "scan" => start' \in Int
    BY <1>2, WindowIndices, CyclesAssumption DEF Start, NewRun
  <2> QED  BY <1>1, <2>1, <2>2
<1>3. CASE StartCandidate
  <2>1. /\ pc = "scan" /\ Sweeping' /\ UNCHANGED <<now, start>>
        /\ status' = [status EXCEPT ![now] = "live"] /\ start <= now
    BY <1>3 DEF StartCandidate, Sweeping, runVars, Frame
  <2> QED  BY <1>1, <2>1 DEF Sweeping
<1>4. CASE EndSweep
  <2>1. /\ Sweeping /\ status' = status /\ start' = start
        /\ pc' = "failed" \/ (pc' = "scan" /\ now' = now + 1)
    BY <1>4 DEF EndSweep, Sweeping, runVars, candVars
  <2> QED  BY <1>1, <2>1 DEF Sweeping
<1>5. CASE Next /\ (Block \/ Stays)
  BY <1>5, QuietSteps
<1>6. CASE Next /\ Settles
  <2>1. PICK v \in Settled : status' = [status EXCEPT ![Current] = v]
    BY <1>6, SettledOne
  <2>2. v # "none"
    BY DEF Settled, Reported
  <2> QED  BY <1>1, <1>6, <2>1, <2>2, SettledOne
<1>7. CASE Leaves
  BY <1>7 DEF Leaves, Sweeping
<1>8. CASE UNCHANGED vars
  BY <1>8 DEF vars, runVars, candVars, Sweeping
<1> QED  BY <1>2, <1>3, <1>4, <1>5, <1>6, <1>7, <1>8, StepShapes

LEMMA Appended ==
  ASSUME NEW S, NEW s \in Seq(S), NEW x \in S, Distinct(s), ~InSeq(x, s)
  PROVE  /\ Distinct(Append(s, x))
         /\ \A c : InSeq(c, Append(s, x)) <=> c = x \/ InSeq(c, s)
<1> DEFINE t == Append(s, x)
<1>1. /\ Len(t) = Len(s) + 1 /\ Len(s) \in Nat
      /\ \A i \in 1 .. Len(s) : t[i] = s[i]
      /\ t[Len(s) + 1] = x
  OBVIOUS
<1>2. \A i \in 1 .. Len(s) : s[i] # x
  BY DEF InSeq
<1> HIDE DEF t
<1>3. Distinct(t)
  BY <1>1, <1>2 DEF Distinct
<1>4. ASSUME NEW c PROVE InSeq(c, t) <=> c = x \/ InSeq(c, s)
  <2>1. \A i \in 1 .. Len(t) : i \in 1 .. Len(s) \/ i = Len(s) + 1
    BY <1>1
  <2>2. InSeq(c, t) => c = x \/ InSeq(c, s)
    BY <1>1, <2>1 DEF InSeq
  <2>3. InSeq(c, s) => InSeq(c, t)
    <3>1. \A i \in 1 .. Len(s) : i \in 1 .. Len(t)
      BY <1>1
    <3> QED  BY <1>1, <3>1 DEF InSeq
  <2>4. InSeq(x, t)
    <3>1. Len(s) + 1 \in 1 .. Len(t)
      BY <1>1
    <3> QED  BY <1>1, <3>1 DEF InSeq
  <2> QED  BY <2>2, <2>3, <2>4
<1> QED  BY <1>3, <1>4 DEF t

LEMMA CompletedNext ==
  TypeInv /\ LiveLists /\ CompletedOnce /\ [Next]_vars => CompletedOnce'
<1> SUFFICES ASSUME TypeInv, LiveLists, CompletedOnce, [Next]_vars PROVE CompletedOnce'
  OBVIOUS
<1> USE DEF CompletedOnce
<1>1. status \in [Cycles -> Statuses] /\ completed \in Seq(Cycles) /\ now \in Int
  BY ListTypes DEF TypeInv, TypeOK
<1>2. CASE Start
  <2>1. completed' = <<>> /\ status' = [c \in Cycles |-> "none"]
    BY <1>2 DEF Start, NewRun
  <2> QED  BY <2>1 DEF Settled, Reported, Distinct, InSeq
<1>3. CASE StartCandidate
  <2>1. /\ pc = "scan" /\ completed' = completed /\ status' = [status EXCEPT ![now] = "live"]
    BY <1>3 DEF StartCandidate
  <2>2. now \in Cycles => status[now] = "none"
    BY <2>1, ListTypes DEF LiveLists
  <2>3. \A c \in Cycles : status'[c] \in Settled <=> status[c] \in Settled
    BY <1>1, <2>1, <2>2 DEF Settled, Reported
  <2> QED  BY <2>1, <2>3
<1>4. CASE EndSweep
  BY <1>4 DEF EndSweep, Sweeping, candVars
<1>5. CASE Next /\ (Block \/ Stays)
  BY <1>5, QuietSteps
<1>6. CASE Next /\ Settles
  <2>1. /\ Sweeping /\ Current \in Cycles /\ status[Current] \notin Settled
        /\ completed' = Append(completed, Current)
    BY <1>6, SettledOne DEF Settled, Reported
  <2>2. PICK v \in Settled : status' = [status EXCEPT ![Current] = v]
    BY <1>6, SettledOne
  <2>3. Distinct(completed) /\ ~InSeq(Current, completed)
    BY <2>1
  <2>4. Distinct(completed)' /\ \A c : InSeq(c, completed') <=> c = Current \/ InSeq(c, completed)
    BY <1>1, <2>1, <2>3, Appended
  <2>5. \A c \in Cycles : status'[c] \in Settled <=> c = Current \/ status[c] \in Settled
    BY <1>1, <2>1, <2>2
  <2> QED  BY <2>1, <2>4, <2>5
<1>7. CASE Leaves
  BY <1>7 DEF Leaves, Sweeping
<1>8. CASE UNCHANGED vars
  BY <1>8 DEF vars, listVars, candVars, Sweeping
<1> QED  BY <1>2, <1>3, <1>4, <1>5, <1>6, <1>7, <1>8, StepShapes

TInv == RInv /\ Frame /\ Started /\ CompletedOnce

LEMMA TInvHolds == Spec => []TInv
<1>1. Init => Frame /\ Started /\ CompletedOnce
  BY DEF Init, Frame, Started, CompletedOnce, Sweeping
<1>2. TInv /\ [Next]_vars => Frame' /\ Started' /\ CompletedOnce'
  BY FrameNext, StartedNext, CompletedNext DEF TInv, RInv, IInv
<1> QED
  BY <1>1, <1>2, RInvHolds, PTL DEF Spec, TInv

LEMMA OccurrencesOfDistinct ==
  ASSUME NEW s, Len(s) \in Nat, Distinct(s), NEW c
  PROVE  Occurrences(c, s) = IF InSeq(c, s) THEN 1 ELSE 0
<1> DEFINE P == {i \in 1 .. Len(s) : s[i] = c}
<1>1. CASE InSeq(c, s)
  <2>1. PICK i \in 1 .. Len(s) : s[i] = c
    BY <1>1 DEF InSeq
  <2>2. P = {i}
    BY <2>1 DEF Distinct
  <2> QED  BY <1>1, <2>2, FS_Singleton DEF Occurrences
<1>2. CASE ~InSeq(c, s)
  <2>1. P = {}
    BY <1>2 DEF InSeq
  <2> QED  BY <1>2, <2>1, FS_EmptySet DEF Occurrences
<1> QED  BY <1>1, <1>2

\* What the sweep has kept and what is ahead of it are different candidates.
LEMMA InFlightIs ==
  ASSUME TypeInv, Order, pc = "scan" \/ Sweeping
  PROVE  /\ Len(InFlight) \in Nat /\ Distinct(InFlight)
         /\ \A c \in Cycles : InSeq(c, InFlight) <=>
              IF Sweeping THEN InSeq(c, still) \/ InRest(c) ELSE InSeq(c, active)
<1>1. CASE ~Sweeping
  <2>1. InFlight = active /\ Ascending(active)
    BY <1>1 DEF InFlight, Order
  <2> QED  BY <1>1, <2>1, ListTypes DEF Distinct, Ascending
<1>2. CASE Sweeping
  <2> DEFINE rest == SubSeq(active, pos, Len(active))
             n == Len(still)
  <2>1. pos <= Len(active) + 1
    BY <1>2 DEF TypeInv, Cursor
  <2>2. /\ rest \in Seq(Cycles) /\ Len(rest) = Len(active) - pos + 1
        /\ \A i \in 1 .. Len(rest) : rest[i] = active[pos + i - 1]
    BY <2>1, ListTypes
  <2> HIDE DEF rest
  <2>3. /\ InFlight = still \o rest
    BY <1>2 DEF InFlight, rest
  <2>4. /\ Len(InFlight) = n + Len(rest) /\ n \in Nat /\ Len(rest) \in Nat
        /\ \A i \in 1 .. n : InFlight[i] = still[i]
        /\ \A i \in 1 .. Len(rest) : InFlight[n + i] = rest[i]
    BY <2>2, <2>3, ListTypes
  <2>5. \A i \in n + 1 .. n + Len(rest) :
          /\ i - n \in 1 .. Len(rest) /\ pos + (i - n) - 1 \in pos .. Len(active)
          /\ InFlight[i] = active[pos + (i - n) - 1]
    <3>1. ASSUME NEW i \in n + 1 .. n + Len(rest)
          PROVE  i - n \in 1 .. Len(rest) /\ pos + (i - n) - 1 \in pos .. Len(active) /\ n + (i - n) = i
      BY <2>2, <2>4, ListTypes
    <3> QED  BY <2>2, <2>4, <3>1
  <2>6. Distinct(InFlight)
    <3>1. SUFFICES ASSUME NEW i \in 1 .. Len(InFlight), NEW j \in 1 .. Len(InFlight), i < j
                   PROVE  InFlight[i] # InFlight[j]
      BY <2>4 DEF Distinct
    <3>2. CASE j <= n
      BY <1>2, <2>4, <3>1, <3>2, ListTypes DEF Order, Ascending
    <3>3. CASE i <= n /\ j > n
      BY <1>2, <2>4, <2>5, <3>1, <3>3, ListTypes DEF Order
    <3>4. CASE i > n
      <4>1. pos + (i - n) - 1 < pos + (j - n) - 1 /\ i \in n + 1 .. n + Len(rest) /\ j \in n + 1 .. n + Len(rest)
        BY <2>4, <3>1, <3>4, ListTypes
      <4>2. pos + (i - n) - 1 \in 1 .. Len(active) /\ pos + (j - n) - 1 \in 1 .. Len(active)
        BY <2>5, <4>1, ListTypes
      <4>3. active[pos + (i - n) - 1] < active[pos + (j - n) - 1]
        BY <1>2, <4>1, <4>2 DEF Order, Ascending
      <4>4. active[pos + (i - n) - 1] \in Int /\ active[pos + (j - n) - 1] \in Int
        BY <4>2, ListTypes
      <4> QED  BY <2>5, <4>1, <4>3, <4>4
    <3> QED  BY <2>4, <3>2, <3>3, <3>4
  <2>7. ASSUME NEW c \in Cycles PROVE InSeq(c, InFlight) <=> InSeq(c, still) \/ InRest(c)
    <3>1. ASSUME NEW i \in 1 .. Len(InFlight), InFlight[i] = c PROVE InSeq(c, still) \/ InRest(c)
      <4>1. CASE i <= n
        BY <2>4, <3>1, <4>1 DEF InSeq
      <4>2. CASE i > n
        BY <2>4, <2>5, <3>1, <4>2 DEF InRest
      <4> QED  BY <2>4, <4>1, <4>2
    <3>2. ASSUME NEW i \in 1 .. n, still[i] = c PROVE InSeq(c, InFlight)
      BY <2>4, <3>2 DEF InSeq
    <3>3. ASSUME NEW j \in pos .. Len(active), active[j] = c PROVE InSeq(c, InFlight)
      <4>1. n + (j - pos + 1) \in n + 1 .. n + Len(rest) /\ pos + ((n + (j - pos + 1)) - n) - 1 = j
        <5>1. j \in Int /\ pos \in Int /\ pos <= j /\ j <= Len(active) /\ n \in Int /\ Len(active) \in Int
          BY <2>4, ListTypes
        <5> HIDE DEF n
        <5> QED  BY <2>2, <5>1
      <4> DEFINE k == n + (j - pos + 1)
      <4>2. InFlight[k] = active[pos + (k - n) - 1]
        BY <2>5, <4>1
      <4>3. k \in 1 .. Len(InFlight) /\ InFlight[k] = c
        BY <2>4, <3>3, <4>1, <4>2
      <4> QED  BY <4>3 DEF InSeq
    <3> QED  BY <3>1, <3>2, <3>3 DEF InSeq, InRest
  <2> QED  BY <1>2, <2>4, <2>6, <2>7
<1> QED  BY <1>1, <1>2

\* No candidate is lost or doubled while _run rebuilds its lists: each one started so
\* far is once in flight, and then live, or once among the completed.
THEOREM NobodyIsLost == Spec => []NothingLost
<1>1. TInv => NothingLost
  <2> SUFFICES ASSUME TInv, pc = "scan" \/ Sweeping, NEW c \in Cycles
               PROVE  /\ Occurrences(c, InFlight) = IF status[c] = "live" THEN 1 ELSE 0
                      /\ Occurrences(c, completed) = IF status[c] \in Settled THEN 1 ELSE 0
                      /\ status[c] # "none" <=> c >= start /\ (c < now \/ (Sweeping /\ c = now))
    BY DEF NothingLost
  <2>1. TypeInv /\ Order /\ LiveLists /\ Started /\ CompletedOnce
    BY DEF TInv, RInv, IInv
  <2>2. InSeq(c, InFlight) <=> status[c] = "live"
    BY <2>1, InFlightIs DEF LiveLists, Sweeping
  <2>3. Occurrences(c, InFlight) = IF status[c] = "live" THEN 1 ELSE 0
    BY <2>1, <2>2, InFlightIs, OccurrencesOfDistinct
  <2>4. Len(completed) \in Nat /\ Distinct(completed) /\ (InSeq(c, completed) <=> status[c] \in Settled)
    BY <2>1 DEF CompletedOnce, TypeInv, TypeOK
  <2>5. Occurrences(c, completed) = IF status[c] \in Settled THEN 1 ELSE 0
    BY <2>4, OccurrencesOfDistinct
  <2> QED  BY <2>1, <2>3, <2>5 DEF Started
<1> QED
  BY <1>1, TInvHolds, PTL

-----------------------------------------------------------------------------
(***************************************************************************)
(* Verdicts in time.  Whoever the sweep has not reached yet was within the *)
(* limit in the cycle before, and whoever it has passed still is.          *)
(***************************************************************************)
Fresh(c, t) == Timed => t - c + 1 <= TimeoutCycles

Paced ==
  /\ pc = "scan" => \A i \in 1 .. Len(active) : Fresh(active[i], now - 1)
  /\ Sweeping => /\ \A i \in pos .. Len(active) : Fresh(active[i], now - 1)
                 /\ \A i \in 1 .. Len(still) : Fresh(still[i], now)
  /\ pc \in {"loop", "resume"} => Fresh(Current, now)

LEMMA PacedNext == TypeInv /\ Paced /\ [Next]_vars => Paced'
<1> SUFFICES ASSUME TypeInv, Paced, [Next]_vars PROVE Paced'
  OBVIOUS
<1> USE DEF Paced, Fresh
<1>1. now \in Int /\ TimeoutCycles \in Int /\ pos \in Int /\ Len(active) \in Int
  BY ListTypes, LimitAssumption
<1>2. pc' \in {"loop", "resume"} => Fresh(Current, now)'
  <2> SUFFICES ASSUME pc' \in {"loop", "resume"} PROVE Fresh(Current, now)'
    OBVIOUS
  <2>1. CASE UNCHANGED vars
    BY <2>1 DEF vars, listVars, Current
  <2>2. CASE Next /\ pc \in {"loop", "resume"}
    BY <2>2, TurnSteps DEF Current
  <2>3. CASE Next /\ BeginAdvance
    <3>1. ~Expired(Current) /\ Current \in Int /\ UNCHANGED <<active, pos, now>>
      BY <2>3, ListTypes DEF BeginAdvance, Current, listVars
    <3> QED  BY <1>1, <3>1 DEF Expired, Current
  <2> QED  BY <2>1, <2>2, <2>3, TurnSteps
<1>3. CASE Start
  BY <1>2, <1>3 DEF Start, NewRun, Sweeping
<1>4. CASE StartCandidate
  <2>1. /\ pc = "scan" /\ pc' = "sweep" /\ active' = Append(active, now) /\ still' = <<>>
        /\ pos' = 1 /\ now' = now
    BY <1>4 DEF StartCandidate, Enlist
  <2>2. /\ Len(active') = Len(active) + 1
        /\ \A i \in 1 .. Len(active) : active'[i] = active[i]
        /\ active'[Len(active) + 1] = now
    BY <2>1, ListTypes
  <2>3. Fresh(now, now - 1)
    BY <1>1, LimitAssumption
  <2>4. \A i \in 1 .. Len(active') : Fresh(active[i], now - 1)'
    BY <1>1, <2>1, <2>2, <2>3
  <2> QED  BY <2>1, <2>4
<1>5. CASE EndSweep
  <2>1. /\ Sweeping /\ active' = still /\ pc' \in {"failed", "scan"}
        /\ pc' = "scan" => now' - 1 = now
    BY <1>1, <1>5 DEF EndSweep, Sweeping
  <2> QED  BY <2>1 DEF Sweeping
<1>6. CASE Block
  <2>1. /\ Sweeping /\ pc = "loop" /\ pc' = "sweep" /\ still' = Append(still, Current)
        /\ now' = now /\ active' = active /\ pos' = pos + 1
    BY <1>6 DEF Block, MayTurn, Keep, Sweeping
  <2>2. /\ Len(still') = Len(still) + 1
        /\ \A i \in 1 .. Len(still) : still'[i] = still[i]
        /\ still'[Len(still) + 1] = Current
    BY <2>1, ListTypes
  <2>3. Fresh(Current, now)
    BY <2>1
  <2> QED  BY <1>1, <2>1, <2>2, <2>3, ListTypes
<1>7. CASE Next /\ Settles
  <2>1. /\ Sweeping /\ pc' = "sweep" /\ now' = now /\ active' = active /\ still' = still
        /\ pos' = pos + 1
    BY <1>7 DEF Settles, Settle, Sweeping
  <2> QED  BY <1>1, <2>1
<1>8. CASE Stays
  BY <1>2, <1>8 DEF Stays, listVars, Sweeping
<1>9. CASE Leaves
  BY <1>9 DEF Leaves, Sweeping
<1>10. CASE UNCHANGED vars
  BY <1>2, <1>10 DEF vars, listVars, Sweeping
<1> QED  BY <1>3, <1>4, <1>5, <1>6, <1>7, <1>8, <1>9, <1>10, StepShapes

-----------------------------------------------------------------------------
(***************************************************************************)
(* How many are in flight.  A sweep only takes candidates away, and those  *)
(* it leaves are in a list that was counted; with a time limit they are    *)
(* all of the last few cycles.                                             *)
(***************************************************************************)
CarriedBounded == Sweeping \/ pc = "scan" => Cardinality(Live \ {now}) <= MaxActive

LEMMA FewerAreBounded ==
  ASSUME NEW S, NEW R, NEW n \in Nat, IsFiniteSet(S), R \subseteq S, Cardinality(S) <= n
  PROVE  Cardinality(R) <= n
<1>1. Cardinality(S) \in Nat /\ Cardinality(R) \in Nat /\ Cardinality(R) <= Cardinality(S)
  BY FS_Subset, FS_CardinalityType
<1> HIDE DEF IsFiniteSet
<1> QED  BY <1>1

\* A list holds no more candidates than it is long.
LEMMA ListedAreBounded ==
  ASSUME NEW s, NEW T, Len(s) \in Nat, T \subseteq {s[i] : i \in 1 .. Len(s)}
  PROVE  IsFiniteSet(T) /\ Cardinality(T) <= Len(s)
<1> DEFINE R == {s[i] : i \in 1 .. Len(s)}
           f == [i \in 1 .. Len(s) |-> s[i]]
<1>1. IsFiniteSet(1 .. Len(s)) /\ Cardinality(1 .. Len(s)) = Len(s)
  <2>1. ASSUME NEW n \in Nat PROVE IsFiniteSet(1 .. n) /\ Cardinality(1 .. n) = n
    <3>1. IsFiniteSet(1 .. n) /\ Cardinality(1 .. n) = IF 1 > n THEN 0 ELSE n - 1 + 1
      BY FS_Interval
    <3> QED  BY <3>1
  <2> QED  BY <2>1
<1>2. f \in Surjection(1 .. Len(s), R)
  BY DEF Surjection
<1>3. IsFiniteSet(R) /\ Cardinality(R) <= Len(s)
  <2> HIDE DEF R, f
  <2> QED  BY <1>1, <1>2, FS_Surjection
<1> HIDE DEF R
<1>4. T \subseteq R
  BY DEF R
<1>5. IsFiniteSet(T)
  BY <1>3, <1>4, FS_Subset
<1> QED  BY <1>3, <1>4, <1>5, FewerAreBounded

\* When the sweep is over, the list of those kept is all there is.
LEMMA KeptAreLive ==
  ASSUME TypeInv, LiveLists, pc = "sweep", pos > Len(active)
  PROVE  Live \subseteq {still[i] : i \in 1 .. Len(still)}
<1>1. \A c : ~InRest(c)
  BY ListTypes DEF InRest
<1> QED  BY <1>1 DEF Live, LiveLists, InSeq, Sweeping

LEMMA LiveIsFinite == TypeInv => IsFiniteSet(Live) /\ IsFiniteSet(Live \ {now})
<1>1. IsFiniteSet(Cycles)
  BY FS_Interval, CyclesAssumption DEF Cycles
<1> QED  BY <1>1, FS_Subset DEF Live

LEMMA CarriedNext == TypeInv /\ LiveLists /\ CarriedBounded /\ [Next]_vars => CarriedBounded'
<1> SUFFICES ASSUME TypeInv, LiveLists, CarriedBounded, [Next]_vars PROVE CarriedBounded'
  OBVIOUS
<1>1. MaxActive \in Nat /\ IsFiniteSet(Live) /\ IsFiniteSet(Live \ {now})
  BY LimitAssumption, LiveIsFinite
<1>2. ASSUME Sweeping \/ pc = "scan", (Live \ {now})' \subseteq Live \ {now}
      PROVE  CarriedBounded'
  BY <1>1, <1>2, FewerAreBounded DEF CarriedBounded
<1>3. CASE Start
  <2>1. Live' = {}
    BY <1>3 DEF Start, NewRun, Live
  <2>2. (Live \ {now})' = {} /\ Cardinality({}) = 0
    BY <2>1, FS_EmptySet
  <2> QED  BY <1>1, <2>2 DEF CarriedBounded
<1>4. CASE StartCandidate
  <2>1. pc = "scan" /\ now' = now /\ status' = [status EXCEPT ![now] = "live"]
    BY <1>4 DEF StartCandidate
  <2>2. (Live \ {now})' \subseteq Live \ {now}
    BY <2>1 DEF TypeInv, TypeOK, Live
  <2> QED  BY <1>2, <2>1, <2>2
<1>5. CASE EndSweep
  <2>1. /\ pc = "sweep" /\ pos > Len(active) /\ status' = status /\ pc' \in {"failed", "scan"}
        /\ pc' = "scan" => ~TooMany
    BY <1>5 DEF EndSweep, candVars
  <2>2. SUFFICES ASSUME pc' = "scan" PROVE Cardinality((Live \ {now})') <= MaxActive
    BY <2>1 DEF CarriedBounded, Sweeping
  <2>3. Len(still) \in Nat /\ Len(still) <= MaxActive
    BY <1>1, <2>1, <2>2, ListTypes DEF TooMany
  <2>4. (Live \ {now})' \subseteq {still[i] : i \in 1 .. Len(still)}
    BY <2>1, KeptAreLive DEF Live
  <2> DEFINE T == (Live \ {now})'
  <2>5. IsFiniteSet(T) /\ Cardinality(T) <= Len(still) /\ Cardinality(T) \in Nat
    <3>1. T \subseteq {still[i] : i \in 1 .. Len(still)}
      BY <2>4
    <3> HIDE DEF T
    <3> QED  BY <2>3, <3>1, ListedAreBounded, FS_CardinalityType
  <2> HIDE DEF T
  <2>6. Cardinality(T) <= MaxActive
    BY <1>1, <2>3, <2>5
  <2> QED  BY <2>6 DEF T
<1>6. CASE Next /\ (Block \/ Stays)
  BY <1>2, <1>6, QuietSteps DEF Live
<1>7. CASE Next /\ Settles
  <2>1. /\ Sweeping /\ now' = now /\ Current \in Cycles
        /\ \E verdict \in Settled : status' = [status EXCEPT ![Current] = verdict]
    BY <1>7, SettledOne
  <2>2. (Live \ {now})' \subseteq Live \ {now}
    BY <2>1 DEF TypeInv, TypeOK, Live, Settled, Reported
  <2> QED  BY <1>2, <2>1, <2>2
<1>8. CASE Leaves
  BY <1>8 DEF Leaves, CarriedBounded, Sweeping
<1>9. CASE UNCHANGED vars
  BY <1>2, <1>9 DEF vars, candVars, Live, CarriedBounded, Sweeping
<1> QED  BY <1>3, <1>4, <1>5, <1>6, <1>7, <1>8, <1>9, StepShapes

\* Whoever is still in flight when everyone was advanced started in one of the last
\* TimeoutCycles cycles.
LEMMA FreshAreFew ==
  ASSUME TypeInv, Order, LiveLists, Paced, Timed, pc = "sweep", pos > Len(active)
  PROVE  Cardinality(Live) <= TimeoutCycles
<1>1. now \in Int /\ TimeoutCycles \in Nat
  BY ListTypes, LimitAssumption
<1> DEFINE last == now - TimeoutCycles + 1
<1>2. \A i \in 1 .. Len(still) : still[i] \in last .. now
  BY <1>1, ListTypes DEF Paced, Fresh, Order, Sweeping
<1>3. Live \subseteq last .. now
  BY <1>2, KeptAreLive
<1>4. last \in Int
  BY <1>1
<1>5. IsFiniteSet(last .. now)
      /\ Cardinality(last .. now) = IF last > now THEN 0 ELSE now - last + 1
  <2> HIDE DEF last
  <2> QED  BY <1>1, <1>4, FS_Interval
<1>6. Cardinality(last .. now) <= TimeoutCycles
  BY <1>1, <1>5
<1> HIDE DEF last
<1> QED  BY <1>1, <1>3, <1>5, <1>6, FewerAreBounded

\* max_active bounds what is in flight at every step of a sweep (_run counts the
\* candidates when a sweep is over, the next one only adds its own and takes others
\* away), and so does a time limit when everyone was advanced.
THEOREM InFlightIsBounded == Spec => []InFlightBounded
<1>1. Init => CarriedBounded /\ Paced
  BY DEF Init, CarriedBounded, Paced, Sweeping
<1>2. TInv /\ CarriedBounded /\ Paced /\ [Next]_vars => CarriedBounded' /\ Paced'
  BY CarriedNext, PacedNext DEF TInv, RInv, IInv
<1>3. TInv /\ CarriedBounded /\ Paced => InFlightBounded
  BY FreshAreFew DEF TInv, RInv, IInv, CarriedBounded, InFlightBounded
<1> QED
  BY <1>1, <1>2, <1>3, TInvHolds, PTL DEF Spec

\* A cycle between the two ends of the scan lies in the window that was asked for.
LEMMA InFrame ==
  ASSUME TypeInv, Frame, pc = "scan" \/ Sweeping, NEW i \in Cycles, start <= i, stop # NoStop => i < stop
  PROVE  InWindow(i)
<1>1. lo \in Requests \cup {NoRequest} /\ hi \in Requests \cup {NoRequest}
  BY DEF TypeInv, TypeOK
<1>2. CASE stop = NoStop
  BY <1>2 DEF Frame, InWindow
<1>3. CASE stop # NoStop
  <2>1. FirstIndex(lo) <= i /\ i < StopIndex(lo, hi)
    BY <1>3 DEF Frame
  <2> QED  BY <1>1, <2>1, WindowIsAsked DEF InWindow
<1> QED  BY <1>2, <1>3

\* One candidate's share of VerdictInTime.
Judged(c) ==
  status[c] \in Settled =>
    /\ endAt[c] >= c
    /\ InWindow(endAt[c])
    /\ IF status[c] = "TIMEOUT"
         THEN \/ Timed /\ endAt[c] - c + 1 = TimeoutCycles + 1
              \/ pc \in {"closed", "done", "failed"} /\ endAt[c] = stop - 1
         ELSE Timed => endAt[c] - c + 1 <= TimeoutCycles

LEMMA JudgedKept ==
  ASSUME NEW c \in Cycles, Judged(c), status'[c] = status[c], endAt'[c] = endAt[c],
         UNCHANGED <<lo, hi>>,
         pc \in {"closed", "done", "failed"} => pc' \in {"closed", "done", "failed"} /\ stop' = stop
  PROVE  Judged(c)'
BY DEF Judged, InWindow

LEMMA JudgedNow ==
  ASSUME TInv, Paced, Next, Settles, NEW c \in Cycles, c = Current
  PROVE  Judged(c)'
<1>1. TypeInv /\ LiveLists /\ Frame /\ Started
  BY DEF TInv, RInv, IInv
<1>2. /\ Sweeping /\ UNCHANGED <<lo, hi, start, stop, now>> /\ status[c] = "live"
      /\ endAt' = [endAt EXCEPT ![Current] = now]
  BY <1>1, SettledOne
<1>3. now \in Cycles /\ now \in Int /\ c \in Int /\ start \in Int /\ pos \in 1 .. Len(active)
  BY <1>1, <1>2, ListTypes, CyclesAreInts, CyclesAssumption
  DEF TypeInv, TypeOK, Window, Cursor, Settles
<1>4. endAt'[c] = now
  BY <1>1, <1>2 DEF TypeInv, TypeOK
<1>5. start <= c /\ c <= now
  BY <1>1, <1>2, <1>3 DEF Started
<1>6. InWindow(endAt[c])'
  <2>1. InWindow(now)
    BY <1>1, <1>2, <1>3, InFrame DEF Frame
  <2> QED  BY <1>2, <1>4, <2>1 DEF InWindow
<1>7. CASE TimeOut
  <2>1. status' = [status EXCEPT ![Current] = "TIMEOUT"] /\ Expired(c)
    BY <1>7 DEF TimeOut, Settle
  <2>2. Fresh(c, now - 1)
    BY <1>2, <1>3 DEF Paced, Current
  <2>3. Timed /\ now - c + 1 = TimeoutCycles + 1
    BY <1>3, <2>1, <2>2, LimitAssumption DEF Expired, Fresh
  <2>4. status'[c] = "TIMEOUT"
    BY <1>1, <2>1 DEF TypeInv, TypeOK
  <2> QED  BY <1>3, <1>4, <1>5, <1>6, <2>3, <2>4 DEF Judged
<1>8. CASE pc \in {"loop", "resume"} /\ \E verdict \in Settled \ {"TIMEOUT"} : Settle(verdict)
  <2>1. status'[c] # "TIMEOUT"
    BY <1>1, <1>8 DEF Settle, TypeInv, TypeOK
  <2>2. Fresh(c, now)
    BY <1>8 DEF Paced
  <2> QED  BY <1>3, <1>4, <1>5, <1>6, <2>1, <2>2 DEF Judged, Fresh
<1> QED  BY <1>1, <1>7, <1>8, SettleSteps

LEMMA JudgedAtClose ==
  ASSUME TInv, CloseWindow, NEW c \in Cycles, Leftover(c)
  PROVE  Judged(c)'
<1>1. TypeInv /\ LiveLists /\ Frame /\ Started
  BY DEF TInv, RInv, IInv
<1>2. /\ pc = "scan" /\ pc' = "closed" /\ stop # NoStop /\ now >= stop
      /\ UNCHANGED <<lo, hi, start, stop, now>>
      /\ status'[c] = "TIMEOUT" /\ endAt'[c] = LastIndex
  BY DEF CloseWindow, runVars, axisVars
<1>3. c \in Int /\ start \in Nat /\ now \in Int /\ stop \in 0 .. NumCycles
  BY <1>1, <1>2, ListTypes, CyclesAreInts, CyclesAssumption DEF TypeInv, TypeOK
<1>4. now = stop
  BY <1>1, <1>2, <1>3, CyclesAssumption DEF Frame
<1>5. start <= c /\ c < now
  <2>1. status[c] = "live" /\ ~Sweeping
    BY <1>1, <1>2 DEF LiveLists, Leftover, Sweeping
  <2> QED  BY <1>1, <1>2, <2>1 DEF Started
<1>6. LastIndex = stop - 1 /\ stop - 1 \in Cycles /\ c <= stop - 1 /\ start <= stop - 1 /\ stop - 1 < stop
  BY <1>3, <1>4, <1>5, CyclesAssumption DEF LastIndex, Cycles
<1>7. InWindow(stop - 1)
  BY <1>1, <1>2, <1>6, InFrame
<1> QED  BY <1>2, <1>6, <1>7 DEF Judged, InWindow

LEMMA JudgedNext ==
  TInv /\ Paced /\ VerdictInTime /\ [Next]_vars => VerdictInTime'
<1> SUFFICES ASSUME TInv, Paced, VerdictInTime, [Next]_vars, NEW c \in Cycles PROVE Judged(c)'
  BY DEF VerdictInTime, Judged
<1>1. TypeInv /\ LiveLists /\ Judged(c)
  BY DEF TInv, RInv, IInv, VerdictInTime, Judged
<1>2. status \in [Cycles -> Statuses] /\ endAt \in [Cycles -> Int]
  BY <1>1 DEF TypeInv, TypeOK
<1>3. CASE Start
  BY <1>3 DEF Start, NewRun, Judged, Settled, Reported
<1>4. CASE StartCandidate
  <2>1. pc = "scan" /\ UNCHANGED <<lo, hi, endAt>> /\ status' = [status EXCEPT ![now] = "live"]
    BY <1>4 DEF StartCandidate, runVars
  <2>2. CASE c = now
    BY <1>2, <2>1, <2>2 DEF Judged, Settled, Reported
  <2>3. CASE c # now
    BY <1>1, <1>2, <2>1, <2>3, JudgedKept
  <2> QED  BY <2>2, <2>3
<1>5. CASE EndSweep
  <2>1. pc = "sweep" /\ UNCHANGED <<lo, hi, endAt, status>>
    BY <1>5 DEF EndSweep, runVars, candVars
  <2> QED  BY <1>1, <2>1, JudgedKept
<1>6. CASE Next /\ (Block \/ Stays)
  BY <1>1, <1>6, QuietSteps, JudgedKept DEF Sweeping
<1>7. CASE Next /\ Settles
  <2>1. CASE c = Current
    BY <1>7, <2>1, JudgedNow
  <2>2. CASE c # Current
    <3>1. status'[c] = status[c] /\ endAt'[c] = endAt[c]
      BY <1>1, <1>2, <1>7, <2>2, SettledOne
    <3> QED  BY <1>1, <1>7, <3>1, SettledOne, JudgedKept DEF Sweeping
  <2> QED  BY <2>1, <2>2
<1>8. CASE CloseWindow
  <2>1. CASE Leftover(c)
    BY <1>8, <2>1, JudgedAtClose
  <2>2. CASE ~Leftover(c)
    <3>1. /\ pc = "scan" /\ UNCHANGED <<lo, hi>>
          /\ status'[c] = status[c] /\ endAt'[c] = endAt[c]
      BY <1>8, <2>2 DEF CloseWindow, runVars
    <3> QED  BY <1>1, <3>1, JudgedKept
  <2> QED  BY <2>1, <2>2
<1>9. CASE Next /\ Leaves /\ ~Start /\ ~CloseWindow
  <2>1. pc' \in {"closed", "done", "failed"}
    BY <1>9, <1>1 DEF Next, Sweep, Turn, Finish, Suspend, Work, Leaves, StartCandidate, TimeOut,
        BeginAdvance, EndSweep, Block, GuardFails, Unblock, FirstResume, StepLimitExceeded,
        FinishMatch, FinishCollect, Yield, ReturnOk, ReturnOther, ReturnNone, ReturnValue,
        RequireFails, Observe, TryConsume, NestedRun, Raise, Settle
  <2>2. ~StartCandidate /\ ~Settles
    BY <1>9 DEF Leaves, StartCandidate, Settles, Settle
  <2>3. UNCHANGED <<status, endAt>>
    BY <1>1, <1>9, <2>2, StatusSteps, EndSteps
  <2>4. UNCHANGED <<lo, hi>> /\ (pc \in {"closed", "done", "failed"} => stop' = stop)
    BY <1>1, <1>9, AxisSteps DEF EndSweep
  <2> QED  BY <1>1, <2>1, <2>3, <2>4, JudgedKept
<1>10. CASE UNCHANGED vars
  BY <1>1, <1>10, JudgedKept DEF vars, candVars, runVars, axisVars
<1> QED
  BY <1>1, <1>3, <1>4, <1>5, <1>6, <1>7, <1>8, <1>9, <1>10, StepShapes

\* A verdict falls inside the window and within the time limit, and TIMEOUT one cycle
\* past it or at the close: _advance_instance looks at the age of every candidate in
\* every cycle, before anything else, so no candidate grows older unseen.
THEOREM VerdictsInTime == Spec => []VerdictInTime
<1>1. Init => Paced /\ VerdictInTime
  BY DEF Init, Paced, Sweeping, VerdictInTime, Settled, Reported
<1>2. TInv /\ Paced /\ [Next]_vars => Paced'
  BY PacedNext DEF TInv, RInv, IInv
<1> QED
  BY <1>1, <1>2, JudgedNext, TInvHolds, PTL DEF Spec

-----------------------------------------------------------------------------
(***************************************************************************)
(* The reports.  When the scan is over the completed candidates are those  *)
(* of the window, each once, and sorting them only changes their places.   *)
(***************************************************************************)
\* The two searches cut the axis at the window: what lies in it lies between them.
LEMMA AskedIsFramed ==
  ASSUME TypeInv, Frame, pc = "scan" \/ Sweeping, stop # NoStop, NEW i \in Cycles, InWindow(i)
  PROVE  start <= i /\ i < stop
<1>1. lo \in Requests \cup {NoRequest} /\ hi \in Requests \cup {NoRequest}
  BY DEF TypeInv, TypeOK
<1>2. start = FirstIndex(lo) /\ stop = StopIndex(lo, hi)
  BY DEF Frame
<1>3. Clock[i] \in Int /\ i \in Int /\ 0 <= i /\ i < NumCycles
  BY CyclesAssumption DEF Cycles
<1>4. start <= i
  <2>1. CASE lo = NoRequest
    BY <1>2, <1>3, <2>1 DEF FirstIndex
  <2>2. CASE lo # NoRequest
    <3>1. lo \in Int /\ Clock[i] >= lo
      BY <1>1, <2>2, RequestAssumption DEF InWindow
    <3>2. SearchSorted(lo) \in 0 .. NumCycles /\ ~(i < SearchSorted(lo))
      BY <1>3, <3>1, SearchSortedIs
    <3> QED  BY <1>2, <1>3, <2>2, <3>2, CyclesAssumption DEF FirstIndex, Clamp
  <2> QED  BY <2>1, <2>2
<1>5. i < stop
  <2>1. CASE hi = NoRequest
    BY <1>2, <1>3, <2>1 DEF StopIndex
  <2>2. CASE hi # NoRequest
    <3>1. hi \in Int /\ Clock[i] < hi
      BY <1>1, <2>2, RequestAssumption DEF InWindow
    <3>2. SearchSorted(hi) \in 0 .. NumCycles /\ i < SearchSorted(hi)
      BY <1>3, <3>1, SearchSortedIs
    <3>3. FirstIndex(lo) \in 0 .. NumCycles
      BY <1>1, WindowIndices
    <3> QED  BY <1>2, <1>3, <2>2, <3>2, <3>3, CyclesAssumption DEF StopIndex, Clamp
  <2> QED  BY <2>1, <2>2
<1> QED  BY <1>4, <1>5

ClosedOnce ==
  pc \in {"closed", "done"} =>
    /\ Distinct(completed)
    /\ \A c \in Cycles : /\ InSeq(c, completed) <=> InWindow(c)
                         /\ status[c] \in Settled <=> InWindow(c)

LEMMA ClosingKeeps ==
  ASSUME TInv, CloseWindow
  PROVE  ClosedOnce'
<1>1. TypeInv /\ Order /\ LiveLists /\ Frame /\ Started /\ CompletedOnce
  BY DEF TInv, RInv, IInv
<1>2. /\ pc = "scan" /\ ~Sweeping /\ stop # NoStop /\ now >= stop
      /\ status' = [c \in Cycles |-> IF Leftover(c) THEN "TIMEOUT" ELSE status[c]]
      /\ completed' = completed \o active
      /\ UNCHANGED <<lo, hi>>
  BY DEF CloseWindow, Sweeping, runVars
<1>3. /\ completed \in Seq(Cycles) /\ active \in Seq(Cycles) /\ status \in [Cycles -> Statuses]
      /\ start \in Int /\ now \in Int /\ stop \in Int
  BY <1>1, <1>2, ListTypes DEF TypeInv, TypeOK
<1>4. now = stop
  BY <1>1, <1>2, <1>3 DEF Frame
<1>5. \A c \in Cycles : status[c] # "none" <=> InWindow(c)
  <2> SUFFICES ASSUME NEW c \in Cycles PROVE status[c] # "none" <=> InWindow(c)
    OBVIOUS
  <2>1. status[c] # "none" <=> c >= start /\ c < now
    BY <1>1, <1>2 DEF Started
  <2>2. c \in Int
    BY CyclesAreInts
  <2>3. start <= c /\ c < stop => InWindow(c)
    BY <1>1, <1>2, InFrame
  <2>4. InWindow(c) => start <= c /\ c < stop
    BY <1>1, <1>2, AskedIsFramed
  <2> QED  BY <1>3, <1>4, <2>1, <2>2, <2>3, <2>4
<1>6. \A c \in Cycles : /\ InSeq(c, active) <=> status[c] = "live"
                        /\ InSeq(c, completed) <=> status[c] \in Settled
  BY <1>1, <1>2 DEF LiveLists, CompletedOnce
<1> DEFINE n == Len(completed)
           m == Len(active)
<1>7. /\ n \in Nat /\ m \in Nat /\ Len(completed') = n + m
      /\ \A i \in 1 .. n : completed'[i] = completed[i]
      /\ \A i \in 1 .. m : completed'[n + i] = active[i]
  BY <1>2, <1>3
<1> DEFINE L == Len(completed')
<1>8. /\ \A i \in 1 .. n : completed[i] \in Cycles
      /\ \A i \in 1 .. m : active[i] \in Cycles /\ active[i] \in Int
  BY <1>1, <1>3, ListTypes
<1>9. \A i \in 1 .. n, j \in 1 .. m : completed[i] # active[j]
  <2> SUFFICES ASSUME NEW i \in 1 .. n, NEW j \in 1 .. m, completed[i] = active[j] PROVE FALSE
    OBVIOUS
  <2>1. InSeq(active[j], completed) /\ InSeq(active[j], active) /\ active[j] \in Cycles
    BY <1>8 DEF InSeq
  <2>2. status[active[j]] = "live" /\ status[active[j]] \in Settled
    BY <1>6, <2>1
  <2> QED  BY <2>2 DEF Settled, Reported
<1>10. Distinct(completed) /\ Distinct(active)
  BY <1>1, <1>2, <1>8 DEF CompletedOnce, Order, Ascending, Distinct
<1>11. \A i \in 1 .. L : i \in 1 .. n \/ (i - n \in 1 .. m /\ n + (i - n) = i)
  <2> HIDE DEF n, m
  <2> QED  BY <1>7
<1>12. Distinct(completed)'
  <2> SUFFICES ASSUME NEW i \in 1 .. L, NEW j \in 1 .. L, completed'[i] = completed'[j] PROVE i = j
    BY DEF Distinct
  <2>1. i \in Int /\ j \in Int
    OBVIOUS
  <2>2. CASE i \in 1 .. n /\ j \in 1 .. n
    BY <1>7, <1>10, <2>2 DEF Distinct
  <2>3. CASE i \in 1 .. n /\ j - n \in 1 .. m /\ n + (j - n) = j
    <3> DEFINE k == j - n
    <3>1. k \in 1 .. m /\ n + k = j
      BY <2>3
    <3> HIDE DEF k, n
    <3>2. completed'[j] = active[k] /\ completed'[i] = completed[i]
      BY <1>7, <2>3, <3>1
    <3> QED  BY <1>9, <2>3, <3>1, <3>2
  <2>4. CASE j \in 1 .. n /\ i - n \in 1 .. m /\ n + (i - n) = i
    <3> DEFINE k == i - n
    <3>1. k \in 1 .. m /\ n + k = i
      BY <2>4
    <3> HIDE DEF k, n
    <3>2. completed'[i] = active[k] /\ completed'[j] = completed[j]
      BY <1>7, <2>4, <3>1
    <3> QED  BY <1>9, <2>4, <3>1, <3>2
  <2>5. CASE j - n \in 1 .. m /\ i - n \in 1 .. m /\ n + (i - n) = i /\ n + (j - n) = j
    <3>1. active[i - n] = active[j - n]
      BY <1>7, <2>5
    <3>2. i - n = j - n
      BY <1>10, <2>5, <3>1 DEF Distinct
    <3> HIDE DEF n
    <3> QED  BY <1>7, <2>1, <3>2
  <2> QED  BY <1>11, <2>2, <2>3, <2>4, <2>5
<1>13. ASSUME NEW c \in Cycles
       PROVE  InSeq(c, completed') <=> InSeq(c, completed) \/ InSeq(c, active)
  <2>1. ASSUME NEW i \in 1 .. L, completed'[i] = c PROVE InSeq(c, completed) \/ InSeq(c, active)
    BY <1>7, <1>11, <2>1 DEF InSeq
  <2>2. ASSUME NEW i \in 1 .. n, completed[i] = c PROVE InSeq(c, completed')
    <3>1. i \in 1 .. L
      <4> HIDE DEF n, m
      <4> QED  BY <1>7
    <3> QED  BY <1>7, <2>2, <3>1 DEF InSeq
  <2>3. ASSUME NEW i \in 1 .. m, active[i] = c PROVE InSeq(c, completed')
    <3>1. n + i \in 1 .. L
      <4> HIDE DEF n, m
      <4> QED  BY <1>7
    <3> QED  BY <1>7, <2>3, <3>1 DEF InSeq
  <2> QED  BY <2>1, <2>2, <2>3 DEF InSeq
<1>14. ASSUME NEW c \in Cycles
       PROVE  /\ InSeq(c, completed') <=> InWindow(c)
              /\ status'[c] \in Settled <=> InWindow(c)
  <2>1. status[c] # "none" <=> status[c] = "live" \/ status[c] \in Settled
    BY <1>3 DEF Statuses, Settled, Reported
  <2>2. status'[c] \in Settled <=> status[c] = "live" \/ status[c] \in Settled
    <3>1. status'[c] = IF InSeq(c, active) THEN "TIMEOUT" ELSE status[c]
      BY <1>2 DEF Leftover
    <3>2. InSeq(c, active) <=> status[c] = "live"
      BY <1>6
    <3> QED  BY <3>1, <3>2 DEF Settled, Reported
  <2> QED  BY <1>5, <1>6, <1>13, <2>1, <2>2
<1>15. \A c \in Cycles : InWindow(c)' <=> InWindow(c)
  BY <1>2 DEF InWindow
<1> QED  BY <1>12, <1>14, <1>15 DEF ClosedOnce

LEMMA ClosedNext == TInv /\ ClosedOnce /\ [Next]_vars => ClosedOnce'
<1> SUFFICES ASSUME TInv, ClosedOnce, [Next]_vars, pc' \in {"closed", "done"} PROVE ClosedOnce'
  BY DEF ClosedOnce
<1>1. TypeInv
  BY DEF TInv, RInv, IInv
<1>2. CASE UNCHANGED vars
  BY <1>2 DEF vars, runVars, listVars, candVars, ClosedOnce, InWindow
<1>3. CASE FinishMatch \/ FinishCollect
  BY <1>3 DEF FinishMatch, FinishCollect, runVars, listVars, candVars, ClosedOnce, InWindow
<1>4. CASE CloseWindow
  BY <1>4, ClosingKeeps
<1>5. CASE Next /\ ~CloseWindow /\ ~FinishMatch /\ ~FinishCollect
  <2>1. CASE Work
    BY <2>1, <1>1 DEF Work, Observe, TryConsume, NestedRun
  <2> QED
    BY <1>5, <2>1 DEF Next, Sweep, Turn, Finish, Suspend, Start, NewRun, StartCandidate, TimeOut,
        BeginAdvance, EndSweep, Block, GuardFails, Unblock, FirstResume, StepLimitExceeded,
        Yield, ReturnOk, ReturnOther, ReturnNone, ReturnValue, RequireFails, Raise, Settle
<1> QED  BY <1>2, <1>3, <1>4, <1>5

\* A list of the kept positions, in any order that has each once, reports each
\* completed candidate that was not discarded once.
LEMMA ReportedOnce ==
  ASSUME TypeInv, Distinct(completed), NEW at,
         \A p \in 1 .. Cardinality(Undiscarded) : at[p] \in Undiscarded,
         \A p, q \in 1 .. Cardinality(Undiscarded) : at[p] = at[q] => p = q,
         \A i \in Undiscarded : \E p \in 1 .. Cardinality(Undiscarded) : at[p] = i,
         NEW c \in Cycles
  PROVE  Occurrences(c, Report(at)) =
           IF InSeq(c, completed) /\ status[c] # "discarded" THEN 1 ELSE 0
<1>1. completed \in Seq(Cycles) /\ Len(completed) \in Nat
  BY DEF TypeInv, TypeOK
<1>2. IsFiniteSet(1 .. Len(completed)) /\ Undiscarded \subseteq 1 .. Len(completed)
  BY <1>1, FS_Interval DEF Undiscarded
<1>3. Cardinality(Undiscarded) \in Nat
  BY <1>2, FS_Subset, FS_CardinalityType
<1> DEFINE r == Report(at)
           n == Cardinality(Undiscarded)
<1>4. Len(r) = n /\ \A p \in 1 .. n : r[p] = completed[at[p]] /\ at[p] \in 1 .. Len(completed)
  <2>1. r = [p \in 1 .. n |-> completed[at[p]]]
    BY DEF Report
  <2>2. \A p \in 1 .. n : at[p] \in Undiscarded
    OBVIOUS
  <2> HIDE DEF r, n
  <2>3. Len(r) = n /\ \A p \in 1 .. n : r[p] = completed[at[p]]
    <3>1. n \in Nat
      BY <1>3 DEF n
    <3> QED  BY <2>1, <3>1
  <2> QED  BY <1>2, <2>2, <2>3
<1>5. Distinct(r)
  <2> HIDE DEF r
  <2> QED  BY <1>4 DEF Distinct
<1>6. InSeq(c, r) <=> InSeq(c, completed) /\ status[c] # "discarded"
  <2> HIDE DEF r
  <2>1. ASSUME NEW p \in 1 .. n, r[p] = c PROVE InSeq(c, completed) /\ status[c] # "discarded"
    BY <1>4, <2>1 DEF InSeq, Undiscarded
  <2>2. ASSUME NEW i \in 1 .. Len(completed), completed[i] = c, status[c] # "discarded" PROVE InSeq(c, r)
    <3>1. PICK p \in 1 .. n : at[p] = i
      BY <2>2 DEF Undiscarded
    <3> QED  BY <1>4, <2>2, <3>1 DEF InSeq
  <2> QED  BY <1>4, <2>1, <2>2 DEF InSeq
<1> HIDE DEF r
<1>7. Occurrences(c, r) = IF InSeq(c, r) THEN 1 ELSE 0
  BY <1>3, <1>4, <1>5, OccurrencesOfDistinct
<1> QED  BY <1>6, <1>7 DEF r

\* What match() and collect() report is complete: every candidate of the window the
\* caller asked for is over when _run returns, and each one that did not discard
\* itself is reported once, whatever order it completed in.
THEOREM ReportsAreComplete == Spec => []ReportComplete
<1>1. Init => ClosedOnce
  BY DEF Init, ClosedOnce
<1>2. TypeInv /\ ClosedOnce => ReportComplete
  <2> SUFFICES ASSUME TypeInv, ClosedOnce, pc = "done", NEW c \in Cycles
               PROVE  /\ InWindow(c) <=> status[c] \in Settled
                      /\ \A report \in {MatchReport, CollectReport} :
                           Occurrences(c, report) =
                             IF InWindow(c) /\ status[c] # "discarded" THEN 1 ELSE 0
    BY DEF ReportComplete
  <2>1. /\ Distinct(completed) /\ (InSeq(c, completed) <=> InWindow(c))
        /\ status[c] \in Settled <=> InWindow(c)
    BY DEF ClosedOnce
  <2>2. completed \in Seq(Cycles) /\ Len(completed) \in Nat
    BY DEF TypeInv, TypeOK
  <2>3. IsFiniteSet(Undiscarded) /\ \A i \in Undiscarded : i \in 1 .. Len(completed) /\ completed[i] \in Cycles
    <3>1. Undiscarded \subseteq 1 .. Len(completed) /\ IsFiniteSet(1 .. Len(completed))
      BY <2>2, FS_Interval DEF Undiscarded
    <3>2. IsFiniteSet(Undiscarded)
      BY <3>1, FS_Subset
    <3> QED  BY <2>2, <3>1, <3>2
  <2> DEFINE byStart == [i \in Undiscarded |-> Clock[completed[i]]]
  <2>4. Occurrences(c, CollectReport) = IF InWindow(c) /\ status[c] # "discarded" THEN 1 ELSE 0
    <3> DEFINE at == Ascends(Undiscarded)
    <3>1. /\ \A p \in 1 .. Cardinality(Undiscarded) : at[p] \in Undiscarded
          /\ \A p, q \in 1 .. Cardinality(Undiscarded) : at[p] = at[q] => p = q
          /\ \A i \in Undiscarded : \E p \in 1 .. Cardinality(Undiscarded) : at[p] = i
      <4>1. Undiscarded \subseteq Int
        BY <2>3
      <4> QED  BY <2>3, <4>1, AscendsInOrder
    <3> HIDE DEF at
    <3>2. Occurrences(c, Report(at)) = IF InSeq(c, completed) /\ status[c] # "discarded" THEN 1 ELSE 0
      BY <2>1, <3>1, ReportedOnce
    <3> QED  BY <2>1, <3>2 DEF CollectReport, at
  <2>5. Occurrences(c, MatchReport) = IF InWindow(c) /\ status[c] # "discarded" THEN 1 ELSE 0
    <3>1. \A d, e \in Cycles : Clock[d] \in Int /\ (Clock[d] = Clock[e] => d = e)
      <4> SUFFICES ASSUME NEW d \in Cycles, NEW e \in Cycles
                   PROVE  Clock[d] \in Int /\ (Clock[d] = Clock[e] => d = e)
        OBVIOUS
      <4>1. d \in Int /\ e \in Int /\ Clock[d] \in Int /\ Clock[e] \in Int
        BY CyclesAreInts, CyclesAssumption
      <4>2. (d < e => Clock[d] < Clock[e]) /\ (e < d => Clock[e] < Clock[d])
        BY CyclesAssumption
      <4> QED  BY <4>1, <4>2
    <3>2. byStart \in [Undiscarded -> Int] /\ \A i, j \in Undiscarded : byStart[i] = byStart[j] => i = j
      BY <2>1, <2>3, <3>1 DEF Distinct
    <3> HIDE DEF byStart
    <3>3. Occurrences(c, Report(InOrderOf(Undiscarded, byStart))) =
            IF InWindow(c) /\ status[c] # "discarded" THEN 1 ELSE 0
      <4> DEFINE at == InOrderOf(Undiscarded, byStart)
      <4>1. /\ \A p \in 1 .. Cardinality(Undiscarded) : at[p] \in Undiscarded
            /\ \A p, q \in 1 .. Cardinality(Undiscarded) : at[p] = at[q] => p = q
            /\ \A i \in Undiscarded : \E p \in 1 .. Cardinality(Undiscarded) : at[p] = i
        BY <2>3, <3>2, InOrder
      <4> HIDE DEF at
      <4>2. Occurrences(c, Report(at)) = IF InSeq(c, completed) /\ status[c] # "discarded" THEN 1 ELSE 0
        BY <2>1, <4>1, ReportedOnce
      <4> QED  BY <2>1, <4>2 DEF at
    <3> QED  BY <3>3 DEF MatchReport, byStart
  <2> QED  BY <2>1, <2>4, <2>5
<1>3. TInv => TypeInv
  BY DEF TInv, RInv, IInv
<1> QED
  BY <1>1, <1>2, <1>3, ClosedNext, TInvHolds, PTL DEF Spec
=============================================================================
