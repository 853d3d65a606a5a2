------------------------ MODULE PatternRuntimeProofs ------------------------
(***************************************************************************)
(* Theorems about PatternRuntime, for every length of the waveforms, every *)
(* set of channels, every limit and every program: its types, who consumes *)
(* from a channel, and that it implements MatchContract.                   *)
(***************************************************************************)
EXTENDS PatternRuntime, FiniteSetTheorems, TLAPS

USE DEF NoStop

-----------------------------------------------------------------------------
(***************************************************************************)
(* Types.                                                                  *)
(***************************************************************************)
\* The sweep stays within the active list, and at a candidate while one is
\* being advanced.
Cursor ==
  /\ Sweeping => pos <= Len(active) + 1
  /\ pc \in {"loop", "resume"} => pos <= Len(active)

\* The end of the scan is unknown only in the first cycle of a run without an
\* axis; a cycle that is being swept is a cycle of the axis.
Window ==
  /\ refKnown <=> stop # NoStop
  /\ stop = NoStop => now = 0
  /\ Sweeping => now \in Cycles

TypeInv == TypeOK /\ Cursor /\ Window

\* searchsorted followed by the clamps yields indices in order.
LEMMA WindowIndices ==
  ASSUME NEW from \in Requests \cup {NoRequest}, NEW to \in Requests \cup {NoRequest}
  PROVE  /\ FirstIndex(from) \in 0 .. NumCycles
         /\ StopIndex(from, to) \in FirstIndex(from) .. NumCycles
<1>1. ASSUME NEW v PROVE SearchSorted(v) \in Nat
  <2>1. IsFiniteSet(Cycles)
    BY FS_Interval, CyclesAssumption DEF Cycles
  <2>2. IsFiniteSet({i \in Cycles : Clock[i] < v})
    BY <2>1, FS_Subset
  <2> QED  BY <2>2, FS_CardinalityType DEF SearchSorted
<1>2. FirstIndex(from) \in 0 .. NumCycles
  BY <1>1, CyclesAssumption DEF FirstIndex, Clamp
<1>3. StopIndex(from, to) \in FirstIndex(from) .. NumCycles
  BY <1>1, <1>2, CyclesAssumption DEF StopIndex, Clamp
<1> QED  BY <1>2, <1>3

LEMMA CyclesAreInts ==
  /\ \A c \in Cycles : c \in Int
  /\ \A s \in Seq(Cycles) : Len(s) \in Nat /\ \A i \in 1 .. Len(s) : s[i] \in Cycles /\ s[i] \in Int
<1>1. \A c \in Cycles : c \in Int
  BY CyclesAssumption DEF Cycles
<1>2. \A s \in Seq(Cycles) : Len(s) \in Nat /\ \A i \in 1 .. Len(s) : s[i] \in Cycles
  OBVIOUS
<1> QED  BY <1>1, <1>2

LEMMA OpTypes == NoOp \in Ops
  BY DEF Ops

LEMMA TypeInvInit == Init => TypeInv
<1> SUFFICES ASSUME Init PROVE TypeInv
  OBVIOUS
<1>1. TypeOK
  BY OpTypes, CyclesAssumption, LimitAssumption
  DEF Init, TypeOK, NeverUsed, PcValues, Statuses, Cycles
<1>2. Cursor /\ Window
  BY DEF Init, Cursor, Window, Sweeping
<1> QED  BY <1>1, <1>2 DEF TypeInv

LEMMA CurrentIsCandidate ==
  ASSUME TypeInv, pc \in {"loop", "resume"} \/ (pc = "sweep" /\ pos <= Len(active))
  PROVE  Current \in Cycles /\ now \in Cycles
  BY DEF TypeInv, TypeOK, Cursor, Window, Sweeping, Current

\* Taking a verdict keeps the types.
LEMMA SettleTypes ==
  ASSUME TypeInv, NEW verdict \in Settled, Settle(verdict),
         pc \in {"loop", "resume"} \/ (pc = "sweep" /\ pos <= Len(active)),
         now' = now, stop' = stop, refKnown' = refKnown
  PROVE  /\ status' \in [Cycles -> Statuses] /\ endAt' \in [Cycles -> Int]
         /\ completed' \in Seq(Cycles) /\ active' \in Seq(Cycles) /\ still' \in Seq(Cycles)
         /\ pos' \in Nat \ {0} /\ pc' \in PcValues
         /\ Cursor' /\ Window'
<1>1. Current \in Cycles /\ now \in Cycles
  BY CurrentIsCandidate
<1>2. now \in Int
  BY <1>1, CyclesAssumption DEF Cycles
<1>3. status' \in [Cycles -> Statuses] /\ endAt' \in [Cycles -> Int]
  BY <1>1, <1>2 DEF Settle, TypeInv, TypeOK, Statuses
<1>4. completed' \in Seq(Cycles)
  BY <1>1 DEF Settle, TypeInv, TypeOK
<1>5. pos' \in Nat \ {0} /\ pc' \in PcValues /\ active' \in Seq(Cycles) /\ still' \in Seq(Cycles)
  BY DEF Settle, TypeInv, TypeOK, PcValues
<1>6. Cursor' /\ Window'
  BY <1>1 DEF Settle, TypeInv, TypeOK, Cursor, Window, Sweeping
<1> QED  BY <1>3, <1>4, <1>5, <1>6

LEMMA ChannelTypes ==
  ASSUME TypeInv, pc \in {"loop", "resume"}, NEW ch \in Channels,
         Take(ch) \/ Refuse(ch)
  PROVE  /\ mark' \in [Channels -> [epoch : Int, at : Int]]
         /\ grants' \in [Channels -> Seq(Cycles)]
         /\ refused' \in [Channels -> SUBSET Cycles]
<1>1. Current \in Cycles /\ now \in Cycles
  BY CurrentIsCandidate
<1>2. now \in Int /\ epoch \in Int
  BY <1>1, CyclesAssumption DEF Cycles, TypeInv, TypeOK
<1>3. CASE Take(ch)
  BY <1>1, <1>2, <1>3 DEF Take, TypeInv, TypeOK
<1>4. CASE Refuse(ch)
  BY <1>1, <1>4 DEF Refuse, TypeInv, TypeOK
<1> QED  BY <1>3, <1>4

LEMMA EvaluationTypes ==
  ASSUME TypeInv, pc = "loop", NotReady(op[Current]) \/ ReadyAndCommit(op[Current])
  PROVE  /\ mark' \in [Channels -> [epoch : Int, at : Int]]
         /\ grants' \in [Channels -> Seq(Cycles)]
         /\ refused' \in [Channels -> SUBSET Cycles]
<1>1. CASE UNCHANGED chanVars
  BY <1>1 DEF chanVars, TypeInv, TypeOK
<1>2. CASE \E ch \in Channels : Take(ch) \/ Refuse(ch)
  BY <1>2, ChannelTypes
<1> QED  BY <1>1, <1>2 DEF NotReady, ReadyAndCommit

LEMMA TypeInvNext == TypeInv /\ [Next]_vars => TypeInv'
<1> SUFFICES ASSUME TypeInv, [Next]_vars PROVE TypeInv'
  OBVIOUS
<1> USE DEF runVars, axisVars, listVars, candVars, chanVars
<1>1. ASSUME NEW given \in BOOLEAN, NEW from \in Requests \cup {NoRequest},
             NEW to \in Requests \cup {NoRequest}, NewRun(given, from, to)
      PROVE  TypeInv'
  <2>1. start' \in 0 .. NumCycles /\ now' \in 0 .. NumCycles
        /\ stop' \in {NoStop} \cup 0 .. NumCycles
    BY <1>1, WindowIndices, CyclesAssumption DEF NewRun
  <2>2. mark' \in [Channels -> [epoch : Int, at : Int]]
    BY <1>1 DEF NewRun, TypeInv, TypeOK, NeverUsed
  <2>3. /\ op' \in [Cycles -> Ops] /\ status' \in [Cycles -> Statuses]
        /\ endAt' \in [Cycles -> Int] /\ stray' \in SUBSET Cycles
        /\ grants' \in [Channels -> Seq(Cycles)] /\ refused' \in [Channels -> SUBSET Cycles]
        /\ steps' \in 0 .. StepLimit
    BY <1>1, OpTypes, LimitAssumption DEF NewRun, Statuses
  <2>4. TypeOK'
    BY <1>1, <2>1, <2>2, <2>3 DEF NewRun, TypeInv, TypeOK, PcValues
  <2>5. Cursor' /\ Window'
    BY <1>1, <2>1, WindowIndices DEF NewRun, Cursor, Window, Sweeping
  <2> QED  BY <2>4, <2>5 DEF TypeInv
<1>2. CASE StartCandidate
  <2>1. now \in Cycles
    BY <1>2, CyclesAssumption DEF StartCandidate, TypeInv, TypeOK, Window, Cycles
  <2>2. TypeOK'
    BY <1>2, <2>1 DEF StartCandidate, Enlist, TypeInv, TypeOK, PcValues, Statuses
  <2>3. Cursor' /\ Window'
    BY <1>2, <2>1, <2>2 DEF StartCandidate, Enlist, TypeInv, TypeOK, Cursor, Window, Sweeping
  <2> QED  BY <2>2, <2>3 DEF TypeInv
<1>3. CASE TimeOut
  BY <1>3, SettleTypes DEF TimeOut, TypeInv, TypeOK, Settled, Reported
<1>4. CASE BeginAdvance
  BY <1>4, LimitAssumption
  DEF BeginAdvance, TypeInv, TypeOK, PcValues, Cursor, Window, Sweeping
<1>5. CASE EndSweep
  <2>1. now \in Cycles
    BY <1>5 DEF EndSweep, TypeInv, Window, Sweeping
  <2>2. CASE TooMany \/ (~refKnown /\ ~axisKnown)
    BY <1>5, <2>2 DEF EndSweep, TypeInv, TypeOK, PcValues, Cursor, Window, Sweeping
  <2>3. CASE ~(TooMany \/ (~refKnown /\ ~axisKnown))
    <3>1. /\ now' \in 1 .. NumCycles /\ stop' \in 0 .. NumCycles /\ refKnown' = TRUE
          /\ pc' = "scan"
      BY <1>5, <2>1, <2>3, CyclesAssumption DEF EndSweep, TypeInv, TypeOK, Window, Cycles
    <3> QED
      BY <1>5, <3>1 DEF EndSweep, TypeInv, TypeOK, PcValues, Cursor, Window, Sweeping
  <2> QED  BY <2>2, <2>3
<1>6. CASE Block
  <2>1. Current \in Cycles /\ now \in Cycles
    BY <1>6, CurrentIsCandidate DEF Block, MayTurn
  <2>2. /\ mark' \in [Channels -> [epoch : Int, at : Int]]
        /\ grants' \in [Channels -> Seq(Cycles)]
        /\ refused' \in [Channels -> SUBSET Cycles]
    BY <1>6, EvaluationTypes DEF Block, MayTurn
  <2>4. steps' \in 0 .. StepLimit /\ axisKnown' \in BOOLEAN
    <3>1. steps' = steps + 1 /\ steps < StepLimit /\ axisKnown' \in {axisKnown, TRUE}
      BY <1>6 DEF Block, MayTurn, MayObserve, CountTurn
    <3>2. axisKnown' \in BOOLEAN
      BY <3>1, Zenon DEF TypeInv, TypeOK
    <3>3. steps' \in 0 .. StepLimit
      BY <3>1, LimitAssumption DEF TypeInv, TypeOK
    <3> QED  BY <3>2, <3>3
  <2>5. TypeOK'
    BY <1>6, <2>1, <2>2, <2>4 DEF Block, MayObserve, Keep, TypeInv, TypeOK, PcValues
  <2>3. Cursor' /\ Window'
    BY <1>6 DEF Block, MayTurn, MayObserve, TypeInv, TypeOK, Cursor, Window, Sweeping
  <2> QED  BY <2>3, <2>5 DEF TypeInv
<1>7. CASE GuardFails
  <2>1. /\ mark' \in [Channels -> [epoch : Int, at : Int]]
        /\ grants' \in [Channels -> Seq(Cycles)]
        /\ refused' \in [Channels -> SUBSET Cycles]
    BY <1>7, EvaluationTypes DEF GuardFails, MayTurn
  <2>2. steps' \in 0 .. StepLimit /\ axisKnown' \in BOOLEAN
    <3>1. steps' = steps + 1 /\ steps < StepLimit /\ axisKnown' \in {axisKnown, TRUE}
      BY <1>7 DEF GuardFails, MayTurn, MayObserve, CountTurn
    <3>2. axisKnown' \in BOOLEAN
      BY <3>1, Zenon DEF TypeInv, TypeOK
    <3>3. steps' \in 0 .. StepLimit
      BY <3>1, LimitAssumption DEF TypeInv, TypeOK
    <3> QED  BY <3>2, <3>3
  <2> QED
    BY <1>7, <2>1, <2>2, SettleTypes
    DEF GuardFails, MayTurn, MayObserve, TypeInv, TypeOK, Settled, Reported
<1>8. CASE Unblock
  <2>1. Current \in Cycles
    BY <1>8, CurrentIsCandidate DEF Unblock, MayTurn
  <2>2. /\ mark' \in [Channels -> [epoch : Int, at : Int]]
        /\ grants' \in [Channels -> Seq(Cycles)]
        /\ refused' \in [Channels -> SUBSET Cycles]
    BY <1>8, EvaluationTypes DEF Unblock, MayTurn
  <2>4. steps' \in 0 .. StepLimit /\ axisKnown' \in BOOLEAN
    <3>1. steps' = steps + 1 /\ steps < StepLimit /\ axisKnown' \in {axisKnown, TRUE}
      BY <1>8 DEF Unblock, MayTurn, MayObserve, CountTurn
    <3>2. axisKnown' \in BOOLEAN
      BY <3>1, Zenon DEF TypeInv, TypeOK
    <3>3. steps' \in 0 .. StepLimit
      BY <3>1, LimitAssumption DEF TypeInv, TypeOK
    <3> QED  BY <3>2, <3>3
  <2>5. TypeOK'
    BY <1>8, <2>1, <2>2, <2>4, OpTypes DEF Unblock, MayObserve, TypeInv, TypeOK, PcValues
  <2>3. Cursor' /\ Window'
    BY <1>8 DEF Unblock, MayTurn, MayObserve, TypeInv, TypeOK, Cursor, Window, Sweeping
  <2> QED  BY <2>3, <2>5 DEF TypeInv
<1>9. CASE FirstResume
  BY <1>9, LimitAssumption
  DEF FirstResume, MayTurn, CountTurn, TypeInv, TypeOK, PcValues, Cursor, Window, Sweeping
<1>10. CASE StepLimitExceeded
  BY <1>10 DEF StepLimitExceeded, TypeInv, TypeOK, PcValues, Cursor, Window, Sweeping
<1>11. CASE CloseWindow
  <2>1. LastIndex \in Int
    BY CyclesAssumption DEF LastIndex, TypeInv, TypeOK
  <2>2. TypeOK'
    BY <1>11, <2>1 DEF CloseWindow, TypeInv, TypeOK, PcValues, Statuses, Settled, Reported
  <2>3. Cursor' /\ Window'
    BY <1>11 DEF CloseWindow, TypeInv, Cursor, Window, Sweeping
  <2> QED  BY <2>2, <2>3 DEF TypeInv
<1>12. CASE FinishMatch \/ FinishCollect
  <2>1. pc' \in {"done", "failed"} /\ UNCHANGED <<runVars, axisVars, listVars, candVars, chanVars, now, steps>>
    BY <1>12 DEF FinishMatch, FinishCollect
  <2> QED
    BY <2>1 DEF TypeInv, TypeOK, PcValues, Cursor, Window, Sweeping
<1>13. ASSUME NEW o \in Ops, Yield(o) PROVE TypeInv'
  <2>1. Current \in Cycles
    BY <1>13, CurrentIsCandidate DEF Yield
  <2> QED
    BY <1>13, <2>1 DEF Yield, MayObserve, TypeInv, TypeOK, PcValues, Cursor, Window, Sweeping
<1>14. ASSUME NEW verdict \in Settled, NEW isStray \in BOOLEAN, ReturnValue(verdict, isStray)
       PROVE  TypeInv'
  <2>1. Current \in Cycles
    BY <1>14, CurrentIsCandidate DEF ReturnValue
  <2> QED
    BY <1>14, <2>1, SettleTypes DEF ReturnValue, MayObserve, TypeInv, TypeOK
<1>15. CASE RequireFails
  BY <1>15, SettleTypes DEF RequireFails, MayObserve, TypeInv, TypeOK, Settled, Reported
<1>16. ASSUME NEW ch \in Channels, TryConsume(ch) PROVE TypeInv'
  BY <1>16, ChannelTypes
  DEF TryConsume, MayObserve, TypeInv, TypeOK, Cursor, Window, Sweeping
<1>17. ASSUME NEW ch \in Channels, NEW at \in Cycles, NestedRun(ch, at) PROVE TypeInv'
  <2>1. mark' \in [Channels -> [epoch : Int, at : Int]] /\ nextEpoch' \in Nat /\ epoch' <= nextEpoch'
    BY <1>17, CyclesAssumption DEF NestedRun, TypeInv, TypeOK, Cycles
  <2> QED
    BY <1>17, <2>1 DEF NestedRun, TypeInv, TypeOK, Cursor, Window, Sweeping
<1>18. CASE Raise
  BY <1>18 DEF Raise, MayTurn, MayObserve, TypeInv, TypeOK, PcValues, Cursor, Window, Sweeping
<1>19. CASE UNCHANGED vars
  BY <1>19 DEF vars, TypeInv, TypeOK, Cursor, Window, Sweeping
<1>20. CASE Observe
  BY <1>20 DEF Observe, TypeInv, TypeOK, Cursor, Window, Sweeping
<1> QED
  BY <1>1, <1>2, <1>3, <1>4, <1>5, <1>6, <1>7, <1>8, <1>9, <1>10, <1>11, <1>12, <1>13,
     <1>14, <1>15, <1>16, <1>17, <1>18, <1>19, <1>20
  DEF Next, Start, Sweep, Turn, Finish, Suspend, Work, ReturnOk, ReturnOther, ReturnNone,
      Settled, Reported

\* Every variable keeps its type for every program, window and limit.
THEOREM TypesCorrect == Spec => []TypeOK
<1>1. TypeInv => TypeOK
  BY DEF TypeInv
<1> QED
  BY <1>1, TypeInvInit, TypeInvNext, PTL DEF Spec

-----------------------------------------------------------------------------
(***************************************************************************)
(* Arbitration.  The lists stay in starting order, so whoever is advanced  *)
(* later in a cycle is younger; and in the cycle being swept a channel is  *)
(* marked taken exactly when this run granted it.                          *)
(***************************************************************************)
Ascending(s) == \A i, j \in 1 .. Len(s) : i < j => s[i] < s[j]

Order ==
  /\ pc = "scan" => /\ Ascending(active)
                    /\ \A i \in 1 .. Len(active) : active[i] < now
  /\ Sweeping => /\ Ascending(active)
                 /\ \A i \in 1 .. Len(active) : active[i] <= now
                 /\ Ascending(still)
                 /\ \A i \in 1 .. Len(still) : still[i] <= now
                 /\ \A i \in 1 .. Len(still), j \in pos .. Len(active) : still[i] < active[j]

MarkOf(ch) ==
  /\ mark[ch].epoch <= nextEpoch
  /\ mark[ch].epoch = epoch =>
       /\ pc = "scan" => mark[ch].at < now
       /\ Sweeping => mark[ch].at <= now

GrantOf(ch) ==
  /\ Len(grants[ch]) <= 1
  /\ Sweeping => (Free(ch) <=> grants[ch] = <<>>)
  /\ Sweeping => \A i \in 1 .. Len(grants[ch]), j \in pos .. Len(active) :
                   grants[ch][i] <= active[j]
  /\ \A c \in refused[ch] : \E i \in 1 .. Len(grants[ch]) : grants[ch][i] <= c

Marks   == \A ch \in Channels : MarkOf(ch)
Granted == \A ch \in OwnChannels : GrantOf(ch)

IInv == TypeInv /\ Order /\ Marks /\ Granted

\* Every step of Next, sorted by what it does to the lists and to the sweep.
Leaves == pc' \notin {"scan", "sweep", "loop", "resume"}
Stays  == Sweeping /\ Sweeping' /\ UNCHANGED <<listVars, now>>
Settles ==
  /\ pc \in {"loop", "resume"} \/ (pc = "sweep" /\ pos <= Len(active))
  /\ \E verdict \in Settled : Settle(verdict)
  /\ UNCHANGED now

LEMMA StepShapes ==
  ASSUME TypeInv, Next
  PROVE  Start \/ StartCandidate \/ EndSweep \/ Block \/ Leaves \/ Stays \/ Settles
<1>1. CASE TimeOut
  BY <1>1 DEF TimeOut, Settles, Settled, Reported
<1>2. CASE BeginAdvance
  BY <1>2 DEF BeginAdvance, Stays, Sweeping
<1>3. CASE GuardFails
  BY <1>3 DEF GuardFails, MayTurn, Settles, Settled, Reported
<1>4. CASE Unblock
  BY <1>4 DEF Unblock, MayTurn, Stays, Sweeping
<1>5. CASE FirstResume
  BY <1>5 DEF FirstResume, MayTurn, Stays, Sweeping
<1>6. CASE StepLimitExceeded \/ Raise
  BY <1>6 DEF StepLimitExceeded, Raise, Leaves
<1>7. CASE Finish
  BY <1>7 DEF Finish, CloseWindow, FinishMatch, FinishCollect, Leaves
<1>8. CASE Suspend
  BY <1>8 DEF Suspend, Yield, ReturnOk, ReturnOther, ReturnNone, ReturnValue, RequireFails,
              Stays, Settles, Settled, Reported, Sweeping
<1>9. CASE Work
  BY <1>9 DEF Work, Observe, TryConsume, NestedRun, Stays, Sweeping
<1> QED
  BY <1>1, <1>2, <1>3, <1>4, <1>5, <1>6, <1>7, <1>8, <1>9 DEF Next, Sweep, Turn

LEMMA OrderNext == TypeInv /\ Order /\ [Next]_vars => Order'
<1> SUFFICES ASSUME TypeInv, Order, [Next]_vars PROVE Order'
  OBVIOUS
<1> USE DEF Order, Ascending
<1>1. CASE Start
  BY <1>1 DEF Start, NewRun, Sweeping
<1>2. CASE StartCandidate
  <2>1. /\ active' = Append(active, now) /\ pc' = "sweep" /\ still' = <<>> /\ now' = now
        /\ pc = "scan"
    BY <1>2 DEF StartCandidate, Enlist
  <2>2. active \in Seq(Cycles) /\ now \in Int /\ \A i \in 1 .. Len(active) : active[i] \in Int
    <3>1. active \in Seq(Cycles) /\ now \in 0 .. NumCycles
      BY DEF TypeInv, TypeOK
    <3> QED  BY <3>1, CyclesAreInts, CyclesAssumption
  <2>3. /\ Len(active') = Len(active) + 1
        /\ \A i \in 1 .. Len(active) : active'[i] = active[i]
        /\ active'[Len(active) + 1] = now
    BY <2>1, <2>2
  <2> QED
    BY <2>1, <2>2, <2>3 DEF Sweeping
<1>3. CASE EndSweep
  <2>1. /\ pc = "sweep" /\ active' = still
        /\ pc' = "failed" \/ (pc' = "scan" /\ now' = now + 1)
    BY <1>3 DEF EndSweep
  <2>2. /\ now \in Int /\ still \in Seq(Cycles)
        /\ \A i \in 1 .. Len(still) : still[i] \in Int
    <3>1. still \in Seq(Cycles) /\ now \in 0 .. NumCycles
      BY DEF TypeInv, TypeOK
    <3> QED  BY <3>1, CyclesAreInts, CyclesAssumption
  <2> QED  BY <2>1, <2>2 DEF Sweeping
<1>4. CASE Block
  <2>1. /\ pc = "loop" /\ pc' = "sweep" /\ still' = Append(still, active[pos]) /\ pos' = pos + 1
        /\ active' = active /\ now' = now
    BY <1>4 DEF Block, MayTurn, Keep, Current
  <2>2. /\ pos \in 1 .. Len(active) /\ active \in Seq(Cycles) /\ still \in Seq(Cycles)
        /\ \A i \in 1 .. Len(active) : active[i] \in Int
        /\ \A i \in 1 .. Len(still) : still[i] \in Int
    <3>1. /\ active \in Seq(Cycles) /\ still \in Seq(Cycles)
          /\ pos \in Nat \ {0} /\ pos <= Len(active)
      BY <2>1 DEF TypeInv, TypeOK, Cursor
    <3> QED  BY <3>1, CyclesAreInts
  <2>3. /\ Len(still') = Len(still) + 1
        /\ \A i \in 1 .. Len(still) : still'[i] = still[i]
        /\ still'[Len(still) + 1] = active[pos]
    BY <2>1, <2>2
  <2> QED
    BY <2>1, <2>2, <2>3 DEF Sweeping
<1>5. CASE Leaves
  BY <1>5 DEF Leaves, Sweeping
<1>6. CASE Stays
  BY <1>6 DEF Stays, listVars, Sweeping
<1>7. CASE Settles
  BY <1>7 DEF Settles, Settle, Sweeping, TypeInv, TypeOK
<1>8. CASE UNCHANGED vars
  BY <1>8 DEF vars, listVars, Sweeping
<1> QED
  BY <1>1, <1>2, <1>3, <1>4, <1>5, <1>6, <1>7, <1>8, StepShapes

\* Every step of Next, sorted by what it does to the channels.
EpochsKept == UNCHANGED <<epoch, nextEpoch>>
Takes(ch)   == Free(ch) /\ Take(ch) /\ Stays
Refuses(ch) == ~Free(ch) /\ Refuse(ch) /\ (Stays \/ Settles \/ Block)

LEMMA EvaluationShapes ==
  ASSUME TypeInv, pc = "loop"
  PROVE  /\ NotReady(op[Current]) =>
              UNCHANGED chanVars \/ \E ch \in Channels : ~Free(ch) /\ Refuse(ch)
         /\ ReadyAndCommit(op[Current]) =>
              UNCHANGED chanVars \/ \E ch \in Channels : Free(ch) /\ Take(ch)
  BY DEF NotReady, ReadyAndCommit

LEMMA ChannelShapes ==
  ASSUME TypeInv, Next
  PROVE  \/ Start \/ StartCandidate
         \/ UNCHANGED chanVars /\ EpochsKept
         \/ pc \in {"loop", "resume"} /\ EpochsKept
              /\ \E ch \in Channels : Takes(ch) \/ Refuses(ch)
         \/ \E ch \in Channels, at \in Cycles : NestedRun(ch, at)
<1> USE DEF EpochsKept, runVars
<1>1. CASE TimeOut \/ BeginAdvance \/ EndSweep \/ FirstResume \/ StepLimitExceeded \/ Raise \/ Observe
  BY <1>1 DEF TimeOut, BeginAdvance, EndSweep, FirstResume, StepLimitExceeded, Raise, Observe
<1>2. CASE Finish
  BY <1>2 DEF Finish, CloseWindow, FinishMatch, FinishCollect
<1>3. CASE Suspend
  BY <1>3 DEF Suspend, Yield, ReturnOk, ReturnOther, ReturnNone, ReturnValue, RequireFails
<1>4. CASE Block
  BY <1>4, EvaluationShapes DEF Block, MayTurn, Refuses
<1>5. CASE GuardFails
  <2>1. Settles
    BY <1>5 DEF GuardFails, MayTurn, Settles, Settled, Reported
  <2> QED
    BY <1>5, <2>1, EvaluationShapes DEF GuardFails, MayTurn, Refuses
<1>6. CASE Unblock
  <2>1. Stays
    BY <1>6 DEF Unblock, MayTurn, Stays, Sweeping
  <2> QED
    BY <1>6, <2>1, EvaluationShapes DEF Unblock, MayTurn, Takes
<1>7. CASE \E ch \in Channels : TryConsume(ch)
  <2>1. Stays
    BY <1>7 DEF TryConsume, Stays, Sweeping
  <2> QED
    BY <1>7, <2>1 DEF TryConsume, Takes, Refuses
<1> QED
  BY <1>1, <1>2, <1>3, <1>4, <1>5, <1>6, <1>7 DEF Next, Sweep, Turn, Work

LEMMA MarksNext == TypeInv /\ Marks /\ [Next]_vars => Marks'
<1> SUFFICES ASSUME TypeInv, Marks, [Next]_vars, NEW ch \in Channels
             PROVE  MarkOf(ch)'
  BY DEF Marks
<1> USE DEF MarkOf
<1>1. MarkOf(ch)
  BY DEF Marks
<1>2. /\ mark \in [Channels -> [epoch : Int, at : Int]] /\ mark[ch].epoch \in Int
      /\ mark[ch].at \in Int /\ now \in Int /\ epoch \in Nat /\ nextEpoch \in Nat
      /\ epoch <= nextEpoch
  BY CyclesAssumption DEF TypeInv, TypeOK
<1>3. CASE Start
  BY <1>1, <1>2, <1>3 DEF Start, NewRun, NeverUsed, Sweeping
<1>4. CASE StartCandidate
  BY <1>1, <1>2, <1>4 DEF StartCandidate, runVars, Sweeping
<1>5. CASE UNCHANGED chanVars /\ EpochsKept /\ EndSweep
  BY <1>1, <1>2, <1>5 DEF EpochsKept, chanVars, EndSweep, Sweeping
<1>6. CASE UNCHANGED chanVars /\ EpochsKept /\ (Block \/ Leaves \/ Stays \/ Settles)
  BY <1>1, <1>2, <1>6
  DEF EpochsKept, chanVars, Block, MayTurn, Leaves, Stays, Settles, Settle, Sweeping
<1>7. ASSUME EpochsKept, NEW d \in Channels, Takes(d) \/ Refuses(d)
      PROVE  MarkOf(ch)'
  <2>1. CASE Takes(d)
    <3>1. mark'[ch] = IF ch = d THEN [epoch |-> epoch, at |-> now] ELSE mark[ch]
      BY <1>2, <2>1 DEF Takes, Take
    <3>2. Sweeping /\ Sweeping' /\ now' = now
      BY <2>1 DEF Takes, Stays
    <3> QED
      BY <1>1, <1>2, <1>7, <3>1, <3>2 DEF EpochsKept, Sweeping
  <2>2. CASE Refuses(d)
    BY <1>1, <1>2, <1>7, <2>2
    DEF EpochsKept, Refuses, Refuse, Block, MayTurn, Stays, Settles, Settle, Sweeping
  <2> QED  BY <1>7, <2>1, <2>2
<1>8. ASSUME NEW d \in Channels, NEW at \in Cycles, NestedRun(d, at)
      PROVE  MarkOf(ch)'
  <2>1. mark'[ch] = IF ch = d THEN [epoch |-> nextEpoch + 1, at |-> at] ELSE mark[ch]
    BY <1>2, <1>8 DEF NestedRun
  <2> QED
    BY <1>1, <1>2, <1>8, <2>1 DEF NestedRun, Sweeping
<1>9. CASE UNCHANGED vars
  BY <1>1, <1>9 DEF vars, runVars, chanVars, Sweeping
<1> QED
  BY <1>3, <1>4, <1>5, <1>6, <1>7, <1>8, <1>9, ChannelShapes, StepShapes

LEMMA GrantedNext == IInv /\ [Next]_vars => Granted'
<1> SUFFICES ASSUME IInv, [Next]_vars, NEW ch \in OwnChannels
             PROVE  GrantOf(ch)'
  BY DEF Granted
<1> USE DEF GrantOf
<1>1. GrantOf(ch) /\ TypeInv /\ ch \in Channels
  BY DEF IInv, Granted, OwnChannels
<1>2. /\ grants[ch] \in Seq(Cycles) /\ active \in Seq(Cycles) /\ pos \in Nat \ {0}
      /\ refused[ch] \in SUBSET Cycles /\ now \in Int
      /\ \A i \in 1 .. Len(active) : active[i] \in Int
  <2>1. /\ grants[ch] \in Seq(Cycles) /\ active \in Seq(Cycles) /\ pos \in Nat \ {0}
        /\ refused[ch] \in SUBSET Cycles /\ now \in 0 .. NumCycles
    BY <1>1 DEF TypeInv, TypeOK
  <2> QED  BY <2>1, CyclesAreInts, CyclesAssumption
<1>3. CASE Start
  BY <1>1, <1>3 DEF Start, NewRun, Sweeping
<1>4. CASE StartCandidate
  <2>1. /\ pc = "scan" /\ grants'[ch] = <<>> /\ refused'[ch] = {}
        /\ mark' = mark /\ epoch' = epoch /\ now' = now
    BY <1>1, <1>4 DEF StartCandidate, runVars
  <2>2. mark[ch].epoch = epoch => mark[ch].at < now /\ mark[ch].at \in Int
    BY <1>1, <2>1 DEF IInv, Marks, MarkOf, TypeInv, TypeOK
  <2>3. Free(ch)'
    BY <1>2, <2>1, <2>2 DEF Free
  <2> QED  BY <2>1, <2>3
<1>5. CASE UNCHANGED chanVars /\ (EndSweep \/ Leaves)
  BY <1>1, <1>5 DEF EndSweep, Leaves, chanVars, Sweeping
<1>6. CASE UNCHANGED chanVars /\ EpochsKept /\ (Block \/ Stays \/ Settles)
  <2>1. Sweeping /\ now' = now /\ active' = active /\ pos' \in {pos, pos + 1}
    BY <1>6 DEF Block, MayTurn, Stays, Settles, Settle, Sweeping, listVars
  <2>2. mark' = mark /\ grants' = grants /\ refused' = refused /\ epoch' = epoch
    BY <1>6 DEF chanVars, EpochsKept
  <2>3. Free(ch)' <=> Free(ch)
    BY <2>1, <2>2 DEF Free
  <2>4. \A j \in pos' .. Len(active') : j \in pos .. Len(active)
    BY <1>2, <2>1
  <2> QED  BY <1>1, <2>1, <2>2, <2>3, <2>4
<1>7. ASSUME pc \in {"loop", "resume"}, EpochsKept, NEW d \in Channels, Takes(d)
      PROVE  GrantOf(ch)'
  <2>1. Sweeping /\ now' = now /\ active' = active /\ pos' = pos /\ epoch' = epoch
    BY <1>7 DEF Takes, Stays, listVars, EpochsKept
  <2>2. CASE ch # d
    <3>1. mark'[ch] = mark[ch] /\ grants'[ch] = grants[ch] /\ refused' = refused
      BY <1>7, <2>2 DEF Takes, Take
    <3> QED  BY <1>1, <1>2, <2>1, <3>1 DEF Free
  <2>3. CASE ch = d
    <3>1. mark'[ch] = [epoch |-> epoch, at |-> now] /\ refused' = refused
          /\ grants'[ch] = Append(grants[ch], Current)
      BY <1>1, <1>7, <2>3 DEF Takes, Take, TypeInv, TypeOK
    <3>2. grants[ch] = <<>>
      BY <1>1, <1>7, <2>1, <2>3 DEF Takes
    <3>3. grants'[ch] = <<Current>> /\ ~Free(ch)'
      BY <2>1, <3>1, <3>2 DEF Free
    <3>4. refused[ch] = {}
      BY <1>1, <3>2
    <3>5. pos <= Len(active)
      BY <1>1, <1>7 DEF TypeInv, Cursor
    <3>6. \A j \in pos .. Len(active) : Current <= active[j]
      BY <1>2, <2>1, <3>5 DEF IInv, Order, Ascending, Current
    <3> QED  BY <2>1, <3>1, <3>3, <3>4, <3>6
  <2> QED  BY <2>2, <2>3
<1>8. ASSUME pc \in {"loop", "resume"}, EpochsKept, NEW d \in Channels, Refuses(d)
      PROVE  GrantOf(ch)'
  <2>1. Sweeping /\ now' = now /\ active' = active /\ pos' \in {pos, pos + 1} /\ epoch' = epoch
    BY <1>8 DEF Refuses, Block, MayTurn, Stays, Settles, Settle, Sweeping, listVars, EpochsKept
  <2>2. mark' = mark /\ grants' = grants
        /\ refused'[ch] = IF ch = d THEN refused[ch] \cup {Current} ELSE refused[ch]
    BY <1>1, <1>8 DEF Refuses, Refuse, TypeInv, TypeOK
  <2>3. pos <= Len(active)
    BY <1>1, <1>8 DEF TypeInv, Cursor
  <2>4. ch = d => \E i \in 1 .. Len(grants[ch]) : grants[ch][i] <= Current
    <3> SUFFICES ASSUME ch = d PROVE \E i \in 1 .. Len(grants[ch]) : grants[ch][i] <= Current
      OBVIOUS
    <3>1. grants[ch] # <<>>
      BY <1>1, <1>8, <2>1 DEF Refuses
    <3>2. 1 \in 1 .. Len(grants[ch])
      BY <1>2, <3>1
    <3> QED  BY <1>1, <1>2, <2>1, <2>3, <3>2 DEF Current
  <2> QED  BY <1>1, <1>2, <2>1, <2>2, <2>4 DEF Free
<1>9. ASSUME NEW d \in Channels, NEW at \in Cycles, NestedRun(d, at)
      PROVE  GrantOf(ch)'
  <2>1. ch # d
    BY <1>9 DEF NestedRun, Foreign, OwnChannels
  <2> QED
    BY <1>1, <1>9, <2>1 DEF NestedRun, Free, Sweeping, listVars
<1>10. CASE UNCHANGED vars
  BY <1>1, <1>10 DEF vars, runVars, listVars, chanVars, Sweeping, Free
<1> QED
  BY <1>1, <1>3, <1>4, <1>5, <1>6, <1>7, <1>8, <1>9, <1>10, ChannelShapes, StepShapes

LEMMA IInvHolds == Spec => []IInv
<1>1. Init => IInv
  BY TypeInvInit
  DEF Init, IInv, Order, Ascending, Marks, MarkOf, Granted, GrantOf, OwnChannels,
      NeverUsed, Sweeping
<1>2. IInv /\ [Next]_vars => IInv'
  BY TypeInvNext, OrderNext, MarksNext, GrantedNext DEF IInv
<1> QED  BY <1>1, <1>2, PTL DEF Spec

\* At most one candidate consumes a channel in a cycle of a run: a channel that
\* was granted is marked taken until the cycle is over (Channel, steps.py).
THEOREM ChannelsExclusive == Spec => []Exclusive
<1>1. IInv => Exclusive
  BY DEF IInv, Granted, GrantOf, Exclusive
<1> QED  BY <1>1, IInvHolds, PTL

\* The oldest candidate in flight wins a channel, and what an earlier run left
\* in a reused Channel turns nobody away (Channel, steps.py).
THEOREM OldestCandidateWins == Spec => []OldestWins
<1>1. IInv => OldestWins
  BY DEF IInv, Granted, GrantOf, OldestWins
<1> QED  BY <1>1, IInvHolds, PTL

-----------------------------------------------------------------------------
(***************************************************************************)
(* PatternRuntime implements MatchContract: the lists are the candidates   *)
(* in flight, the position of the sweep says whose turn it is, and a mark  *)
(* of this run and cycle says who owns a channel.                          *)
(***************************************************************************)
phaseBar == IF Sweeping THEN "cycle" ELSE IF pc = "scan" THEN "between" ELSE "over"

turnBar ==
  CASE pc \in {"loop", "resume"}   -> active[pos]
    [] pc = "sweep" /\ pos > 1     -> active[pos - 1]
    [] OTHER                       -> -1

liveBar == {c \in Cycles : status[c] = "live"}

verdictBar == [c \in Cycles |-> IF status[c] \in Settled THEN status[c] ELSE "none"]

ownerBar == [ch \in OwnChannels |->
               IF Sweeping /\ ~Free(ch) THEN grants[ch][1] ELSE -1]

Contract == INSTANCE MatchContract WITH
  Channels <- OwnChannels,
  phase <- phaseBar, now <- now, turn <- turnBar,
  live <- liveBar, verdict <- verdictBar, owner <- ownerBar

\* Every behaviour of the runtime is one the contract allows.
KeepsContract == Contract!Spec

-----------------------------------------------------------------------------
(***************************************************************************)
(* The lists hold exactly the live candidates, and those kept for the next *)
(* cycle are behind the sweep.                                             *)
(***************************************************************************)
InRest(c) == \E j \in pos .. Len(active) : active[j] = c

LiveLists ==
  /\ pc = "scan" => \A c \in Cycles : /\ status[c] = "live" <=> InSeq(c, active)
                                      /\ c >= now => status[c] = "none"
  /\ Sweeping => \A c \in Cycles : /\ status[c] = "live" <=> InSeq(c, still) \/ InRest(c)
                                   /\ c > now => status[c] = "none"

Behind ==
  Sweeping => \A i \in 1 .. Len(still) : pos > 1 /\ still[i] <= active[pos - 1]

LEMMA ListTypes ==
  ASSUME TypeInv
  PROVE  /\ Len(active) \in Nat /\ Len(still) \in Nat /\ now \in Int /\ pos \in Nat \ {0}
         /\ \A i \in 1 .. Len(active) : active[i] \in Cycles /\ active[i] \in Int
         /\ \A i \in 1 .. Len(still) : still[i] \in Cycles /\ still[i] \in Int
         /\ active \in Seq(Cycles) /\ still \in Seq(Cycles)
<1>1. /\ active \in Seq(Cycles) /\ still \in Seq(Cycles) /\ now \in 0 .. NumCycles
      /\ pos \in Nat \ {0}
  BY DEF TypeInv, TypeOK
<1> QED  BY <1>1, CyclesAreInts, CyclesAssumption

LEMMA BehindNext == TypeInv /\ Order /\ Behind /\ [Next]_vars => Behind'
<1> SUFFICES ASSUME TypeInv, Order, Behind, [Next]_vars PROVE Behind'
  OBVIOUS
<1> USE DEF Behind
<1>1. CASE Start
  BY <1>1 DEF Start, NewRun, Sweeping
<1>2. CASE StartCandidate
  BY <1>2 DEF StartCandidate
<1>3. CASE EndSweep \/ Leaves
  BY <1>3 DEF EndSweep, Leaves, Sweeping
<1>4. CASE Block
  <2>1. /\ pc = "loop" /\ still' = Append(still, active[pos]) /\ pos' = pos + 1
        /\ active' = active
    BY <1>4 DEF Block, MayTurn, Keep, Current
  <2>2. pos \in 1 .. Len(active)
    BY <2>1 DEF TypeInv, TypeOK, Cursor
  <2>3. /\ Len(still') = Len(still) + 1
        /\ \A i \in 1 .. Len(still) : still'[i] = still[i]
        /\ still'[Len(still) + 1] = active[pos]
    BY <2>1, <2>2, ListTypes
  <2> QED  BY <2>1, <2>2, <2>3, ListTypes DEF Order, Sweeping
<1>5. CASE Stays
  BY <1>5 DEF Stays, listVars
<1>6. CASE Settles
  <2>1. /\ Sweeping /\ pos \in 1 .. Len(active)
        /\ still' = still /\ active' = active /\ pos' = pos + 1
    BY <1>6 DEF Settles, Settle, TypeInv, TypeOK, Cursor, Sweeping
  <2> QED  BY <2>1, ListTypes DEF Order
<1>7. CASE UNCHANGED vars
  BY <1>7 DEF vars, listVars, Sweeping
<1> QED  BY <1>1, <1>2, <1>3, <1>4, <1>5, <1>6, <1>7, StepShapes

\* Statuses change only when a candidate starts, is judged or is closed out.
LEMMA StatusSteps ==
  ASSUME TypeInv, Next
  PROVE  Start \/ StartCandidate \/ Settles \/ CloseWindow \/ status' = status
  BY DEF Next, Sweep, Turn, Finish, Suspend, Work, Settles, Settled, Reported, MayTurn,
         TimeOut, BeginAdvance, EndSweep, Block, GuardFails, Unblock, FirstResume,
         StepLimitExceeded, FinishMatch, FinishCollect, Yield, ReturnOk, ReturnOther,
         ReturnNone, ReturnValue, RequireFails, Observe, TryConsume, NestedRun, Raise, candVars

LEMMA LiveListsNext == TypeInv /\ Order /\ LiveLists /\ [Next]_vars => LiveLists'
<1> SUFFICES ASSUME TypeInv, Order, LiveLists, [Next]_vars PROVE LiveLists'
  OBVIOUS
<1> USE DEF LiveLists, InSeq, InRest
<1>1. CASE Start
  BY <1>1 DEF Start, NewRun, Sweeping
<1>2. CASE StartCandidate
  <2>1. /\ pc = "scan" /\ pc' = "sweep" /\ active' = Append(active, now) /\ still' = <<>>
        /\ pos' = 1 /\ now' = now /\ status' = [status EXCEPT ![now] = "live"]
    BY <1>2 DEF StartCandidate, Enlist
  <2>2. /\ Len(active') = Len(active) + 1
        /\ \A i \in 1 .. Len(active) : active'[i] = active[i]
        /\ active'[Len(active) + 1] = now
    BY <2>1, ListTypes
  <2>3. \A c \in Cycles : status'[c] = IF c = now THEN "live" ELSE status[c]
    BY <2>1 DEF TypeInv, TypeOK
  <2>4. \A c \in Cycles : InSeq(c, still)' \/ InRest(c)' <=> c = now \/ InSeq(c, active)
    BY <2>1, <2>2, ListTypes
  <2> QED  BY <2>1, <2>3, <2>4, ListTypes, CyclesAreInts DEF Sweeping
<1>3. CASE EndSweep
  <2>1. /\ pc = "sweep" /\ pos > Len(active) /\ active' = still /\ status' = status
        /\ pc' = "failed" \/ (pc' = "scan" /\ now' = now + 1)
    BY <1>3 DEF EndSweep, candVars
  <2>2. \A c \in Cycles : ~InRest(c)
    BY <2>1, ListTypes
  <2> QED  BY <2>1, <2>2, ListTypes, CyclesAreInts DEF Sweeping
<1>4. CASE Block
  <2>1. /\ pc = "loop" /\ pc' = "sweep" /\ still' = Append(still, active[pos])
        /\ pos' = pos + 1 /\ active' = active /\ now' = now /\ status' = status
    BY <1>4 DEF Block, MayTurn, Keep, Current, candVars
  <2>2. pos \in 1 .. Len(active)
    BY <2>1 DEF TypeInv, TypeOK, Cursor
  <2>3. /\ Len(still') = Len(still) + 1
        /\ \A i \in 1 .. Len(still) : still'[i] = still[i]
        /\ still'[Len(still) + 1] = active[pos]
    BY <2>1, <2>2, ListTypes
  <2>4. \A c \in Cycles : InSeq(c, still)' <=> InSeq(c, still) \/ c = active[pos]
    <3>1. ASSUME NEW c \in Cycles, InSeq(c, still)' PROVE InSeq(c, still) \/ c = active[pos]
      BY <2>3, <3>1, ListTypes
    <3>2. ASSUME NEW c \in Cycles, InSeq(c, still) PROVE InSeq(c, still)'
      BY <2>3, <3>2, ListTypes
    <3>3. Len(still) + 1 \in 1 .. Len(still')
      BY <2>3, ListTypes
    <3> QED  BY <2>3, <3>1, <3>2, <3>3
  <2>5. \A c \in Cycles : InRest(c) <=> InRest(c)' \/ c = active[pos]
    BY <2>1, <2>2, ListTypes
  <2> QED  BY <2>1, <2>4, <2>5 DEF Sweeping
<1>5. CASE Leaves
  BY <1>5 DEF Leaves, Sweeping
<1>6. CASE Stays /\ status' = status
  BY <1>6 DEF Stays, listVars, Sweeping
<1>7. CASE Settles
  <2>1. /\ Sweeping /\ pos \in 1 .. Len(active) /\ pc' = "sweep" /\ now' = now
        /\ still' = still /\ active' = active /\ pos' = pos + 1
    BY <1>7 DEF Settles, Settle, TypeInv, TypeOK, Cursor, Sweeping
  <2>6. PICK v \in Settled : status' = [status EXCEPT ![active[pos]] = v]
    BY <1>7 DEF Settles, Settle, Current
  <2>2. \A c \in Cycles : IF c = active[pos] THEN status'[c] \in Settled
                                             ELSE status'[c] = status[c]
    BY <2>6 DEF TypeInv, TypeOK
  <2>3. \A c \in Cycles : InRest(c)' <=> InRest(c) /\ c # active[pos]
    BY <2>1, ListTypes DEF Order, Ascending
  <2>4. ~InSeq(active[pos], still)
    BY <2>1, ListTypes DEF Order
  <2>5. active[pos] <= now
    BY <2>1 DEF Order
  <2>7. SUFFICES ASSUME NEW c \in Cycles
                 PROVE  /\ status'[c] = "live" <=> InSeq(c, still)' \/ InRest(c)'
                        /\ c > now => status'[c] = "none"
    BY <2>1 DEF Sweeping
  <2>8. /\ status[c] = "live" <=> InSeq(c, still) \/ InRest(c)
        /\ c > now => status[c] = "none"
    BY <2>1
  <2>9. InSeq(c, still)' <=> InSeq(c, still)
    BY <2>1
  <2>10. CASE c = active[pos]
    <3>1. status'[c] \in Settled
      BY <2>2, <2>10
    <3>2. ~InRest(c)' /\ ~InSeq(c, still)'
      BY <2>3, <2>4, <2>9, <2>10
    <3>3. ~(c > now)
      BY <2>5, <2>10, ListTypes, CyclesAreInts
    <3> QED  BY <3>1, <3>2, <3>3 DEF Settled, Reported
  <2>11. CASE c # active[pos]
    BY <2>2, <2>3, <2>8, <2>9, <2>11
  <2> QED  BY <2>10, <2>11
<1>8. CASE UNCHANGED vars
  BY <1>8 DEF vars, listVars, candVars, Sweeping
<1>9. Stays => ~Start /\ ~StartCandidate /\ ~CloseWindow
  BY DEF Stays, Start, NewRun, StartCandidate, CloseWindow, Sweeping
<1> QED
  BY <1>1, <1>2, <1>3, <1>4, <1>5, <1>6, <1>7, <1>8, <1>9, StepShapes, StatusSteps

RInv == IInv /\ Behind /\ LiveLists

LEMMA RInvHolds == Spec => []RInv
<1>1. Init => Behind /\ LiveLists
  BY DEF Init, Behind, LiveLists, Sweeping
<1>2. RInv /\ [Next]_vars => Behind' /\ LiveLists'
  BY BehindNext, LiveListsNext DEF RInv, IInv
<1> QED
  BY <1>1, <1>2, IInvHolds, PTL DEF Spec, RInv

-----------------------------------------------------------------------------
(***************************************************************************)
(* A verdict is final.                                                     *)
(***************************************************************************)
LEMMA EndSteps ==
  ASSUME TypeInv, Next
  PROVE  Start \/ Settles \/ CloseWindow \/ endAt' = endAt
  BY DEF Next, Sweep, Turn, Finish, Suspend, Work, Settles, Settled, Reported, MayTurn,
         StartCandidate, TimeOut, BeginAdvance, EndSweep, Block, GuardFails, Unblock,
         FirstResume, StepLimitExceeded, FinishMatch, FinishCollect, Yield, ReturnOk,
         ReturnOther, ReturnNone, ReturnValue, RequireFails, Observe, TryConsume, NestedRun, Raise,
         candVars

\* Once a candidate has a verdict, no later step of the run changes it or its
\* end: only live candidates are in the lists that sweeps and closing go over.
THEOREM VerdictsFinal == Spec => VerdictFinal
<1> DEFINE Kept(c) == status'[c] = status[c] /\ endAt'[c] = endAt[c]
<1>1. RInv /\ [Next]_vars =>
        (epoch' = epoch => \A c \in Cycles : status[c] \in Settled => Kept(c))
  <2> SUFFICES ASSUME RInv, [Next]_vars, epoch' = epoch,
                      NEW c \in Cycles, status[c] \in Settled
               PROVE  Kept(c)
    OBVIOUS
  <2>1. TypeInv /\ Order /\ LiveLists
    BY DEF RInv, IInv
  <2>2. status[c] # "live" /\ status[c] # "none"
    BY DEF Settled, Reported
  <2>3. ~Start
    BY <2>1 DEF Start, NewRun, TypeInv, TypeOK
  <2>4. CASE StartCandidate
    <3>1. c # now
      BY <2>1, <2>2, <2>4, CyclesAreInts DEF LiveLists, StartCandidate
    <3> QED  BY <2>1, <2>4, <3>1 DEF StartCandidate, TypeInv, TypeOK
  <2>5. CASE Settles
    <3>1. Sweeping /\ pos \in 1 .. Len(active)
      BY <2>1, <2>5 DEF Settles, TypeInv, TypeOK, Cursor, Sweeping
    <3>2. c # active[pos]
      BY <2>1, <2>2, <3>1 DEF LiveLists, InRest
    <3> QED  BY <2>1, <2>5, <3>2 DEF Settles, Settle, Current, TypeInv, TypeOK
  <2>6. CASE CloseWindow
    <3>1. ~InSeq(c, active)
      BY <2>1, <2>2, <2>6 DEF LiveLists, CloseWindow
    <3> QED  BY <2>6, <3>1 DEF CloseWindow, Leftover
  <2>7. CASE status' = status /\ endAt' = endAt
    BY <2>7
  <2>8. CASE UNCHANGED vars
    BY <2>8 DEF vars, candVars
  <2> QED
    BY <2>1, <2>3, <2>4, <2>5, <2>6, <2>7, <2>8, StatusSteps, EndSteps
<1> QED
  BY <1>1, RInvHolds, PTL DEF Spec, VerdictFinal

-----------------------------------------------------------------------------
(***************************************************************************)
(* The refinement, step by step.                                           *)
(***************************************************************************)
LEMMA RefinesInit == Init => Contract!Init
  BY DEF Init, Contract!Init, Contract!Unjudged, Contract!NoOwners, Contract!Nobody,
         phaseBar, turnBar, liveBar, verdictBar, ownerBar, Sweeping, Settled, Reported

\* While the sweep is at a candidate that has not had its turn, that one is next.
LEMMA NextInLine ==
  ASSUME RInv, pc = "sweep", pos <= Len(active)
  PROVE  /\ Contract!IsNext(active[pos])
         /\ active[pos] \in Cycles
<1>1. TypeInv /\ Order /\ Behind /\ LiveLists /\ Sweeping
  BY DEF RInv, IInv, Sweeping
<1>2. pos \in 1 .. Len(active) /\ active[pos] \in Cycles
  BY <1>1, ListTypes
<1>3. active[pos] \in liveBar
  BY <1>1, <1>2 DEF LiveLists, InRest, liveBar
<1>4. active[pos] > turnBar
  <2>1. active[pos] > -1
    BY <1>2, CyclesAssumption DEF Cycles
  <2>2. pos > 1 => active[pos] > active[pos - 1]
    BY <1>1, <1>2, ListTypes DEF Order, Ascending
  <2> QED  BY <2>1, <2>2 DEF turnBar
<1>5. ASSUME NEW d \in liveBar, d > turnBar PROVE active[pos] <= d
  <2>1. d \in Cycles /\ (InSeq(d, still) \/ InRest(d))
    BY <1>1, <1>5 DEF LiveLists, liveBar
  <2>2. CASE InSeq(d, still)
    <3>1. PICK i \in 1 .. Len(still) : still[i] = d
      BY <2>2 DEF InSeq
    <3>2. pos > 1 /\ d <= active[pos - 1]
      BY <1>1, <3>1 DEF Behind
    <3>3. turnBar = active[pos - 1]
      BY <3>2 DEF turnBar
    <3> QED  BY <1>1, <1>2, <1>5, <3>2, <3>3, <2>1, ListTypes, CyclesAreInts
  <2>3. CASE InRest(d)
    BY <1>1, <1>2, <2>3, ListTypes DEF InRest, Order, Ascending
  <2> QED  BY <2>1, <2>2, <2>3
<1> QED  BY <1>2, <1>3, <1>4, <1>5 DEF Contract!IsNext

\* A step that judges the candidate the sweep is at.
LEMMA JudgeStep ==
  ASSUME RInv, Settles, UNCHANGED <<mark, grants, epoch>>
  PROVE  \E c \in Cycles, v \in Contract!Verdicts : Contract!Judge(c, v)
<1>1. TypeInv /\ Order /\ LiveLists
  BY DEF RInv, IInv
<1>2. /\ Sweeping /\ Sweeping' /\ pos \in 1 .. Len(active) /\ active' = active
      /\ pos' = pos + 1 /\ pc' = "sweep" /\ now' = now
  BY <1>1 DEF Settles, Settle, TypeInv, TypeOK, Cursor, Sweeping
<1>3. PICK v \in Settled : status' = [status EXCEPT ![active[pos]] = v]
  BY DEF Settles, Settle, Current
<1>4. active[pos] \in Cycles /\ v \in Contract!Verdicts
  BY <1>1, <1>2, ListTypes DEF Contract!Verdicts, Settled, Reported
<1>5. phaseBar = "cycle" /\ phaseBar' = "cycle"
  BY <1>2 DEF phaseBar
<1>6. \/ active[pos] = turnBar /\ active[pos] \in liveBar
      \/ Contract!IsNext(active[pos])
  <2>1. CASE pc = "sweep"
    BY <2>1, <1>2, NextInLine
  <2>2. CASE pc \in {"loop", "resume"}
    BY <1>1, <1>2, <1>4, <2>2 DEF turnBar, liveBar, LiveLists, InRest
  <2> QED  BY <2>1, <2>2, <1>2 DEF Sweeping
<1>7. turnBar' = active[pos]
  BY <1>1, <1>2, ListTypes DEF turnBar
<1>8. liveBar' = liveBar \ {active[pos]}
  BY <1>1, <1>3, <1>4 DEF liveBar, TypeInv, TypeOK, Settled, Reported
<1>9. verdictBar' = [verdictBar EXCEPT ![active[pos]] = v]
  BY <1>1, <1>3, <1>4 DEF verdictBar, TypeInv, TypeOK
<1>10. ownerBar' = ownerBar
  BY <1>2 DEF ownerBar, Free
<1> QED
  BY <1>2, <1>4, <1>5, <1>6, <1>7, <1>8, <1>9, <1>10 DEF Contract!Judge

\* A step in the turn of a candidate that judges nobody: it takes a channel or
\* is invisible.
Idles == status' = status /\ phaseBar' = "cycle" /\ turnBar' = turnBar /\ now' = now

LEMMA InvisibleStep ==
  ASSUME TypeInv, Sweeping, Idles, UNCHANGED <<grants, epoch>>,
         \A ch \in OwnChannels : mark'[ch] = mark[ch]
  PROVE  UNCHANGED Contract!vars
<1>1. phaseBar' = phaseBar
  BY DEF Idles, phaseBar
<1>2. liveBar' = liveBar /\ verdictBar' = verdictBar
  BY DEF Idles, liveBar, verdictBar
<1>3. ownerBar' = ownerBar
  BY DEF Idles, ownerBar, Free, phaseBar
<1> QED  BY <1>1, <1>2, <1>3 DEF Idles, Contract!vars

LEMMA TakeStep ==
  ASSUME RInv, pc \in {"loop", "resume"}, Idles, epoch' = epoch,
         NEW ch \in Channels, Free(ch), Take(ch)
  PROVE  [Contract!Next]_(Contract!vars)
<1>1. TypeInv /\ Sweeping /\ Sweeping' /\ LiveLists
  BY DEF RInv, IInv, Sweeping, Idles, phaseBar
<1>2. CASE ch \notin OwnChannels
  <2>1. grants' = [grants EXCEPT ![ch] = Append(@, Current)]
        /\ \A d \in OwnChannels : mark'[d] = mark[d] /\ grants'[d] = grants[d]
    BY <1>1, <1>2 DEF Take, OwnChannels, TypeInv, TypeOK
  <2>2. phaseBar' = phaseBar /\ liveBar' = liveBar /\ verdictBar' = verdictBar
    BY <1>1 DEF Idles, phaseBar, liveBar, verdictBar
  <2>3. ownerBar' = ownerBar
    BY <1>1, <2>1 DEF Idles, ownerBar, Free
  <2> QED  BY <2>2, <2>3 DEF Idles, Contract!vars
<1>3. CASE ch \in OwnChannels
  <2>1. grants[ch] = <<>>
    BY <1>1, <1>3 DEF RInv, IInv, Granted, GrantOf
  <2>2. /\ grants'[ch] = <<active[pos]>>
        /\ mark'[ch] = [epoch |-> epoch, at |-> now]
        /\ \A d \in OwnChannels : d # ch => mark'[d] = mark[d] /\ grants'[d] = grants[d]
    BY <1>1, <1>3, <2>1 DEF Take, Current, OwnChannels, TypeInv, TypeOK
  <2>3. ~Free(ch)' /\ \A d \in OwnChannels : d # ch => (Free(d)' <=> Free(d))
    BY <2>2 DEF Free, Idles
  <2>4. pos \in 1 .. Len(active) /\ turnBar = active[pos]
    BY <1>1 DEF TypeInv, TypeOK, Cursor, turnBar
  <2>5. turnBar \in liveBar
    BY <1>1, <2>4, ListTypes DEF LiveLists, InRest, liveBar
  <2>6. ownerBar[ch] = -1 /\ ownerBar' = [ownerBar EXCEPT ![ch] = turnBar]
    <3>1. ownerBar[ch] = -1
      BY <1>3 DEF ownerBar
    <3>2. grants'[ch][1] = turnBar
      BY <2>2, <2>4
    <3>3. \A d \in OwnChannels :
            ownerBar'[d] = IF d = ch THEN turnBar ELSE ownerBar[d]
      BY <1>1, <1>3, <2>2, <2>3, <3>2 DEF ownerBar
    <3> QED  BY <3>1, <3>3 DEF ownerBar
  <2>7. phaseBar = "cycle" /\ liveBar' = liveBar /\ verdictBar' = verdictBar
    BY <1>1 DEF Idles, phaseBar, liveBar, verdictBar
  <2>8. Contract!Take(ch)
    BY <2>5, <2>6, <2>7 DEF Contract!Take, Contract!Nobody, Idles
  <2> QED  BY <1>3, <2>8 DEF Contract!Next
<1> QED  BY <1>2, <1>3

\* An error ends the run; nobody is judged.
LEMMA AbortStep ==
  ASSUME Sweeping, pc' = "failed", status' = status, now' = now
  PROVE  Contract!Abort
  BY DEF Contract!Abort, Contract!NoOwners, Contract!Nobody, phaseBar, turnBar, liveBar,
         verdictBar, ownerBar, Sweeping

LEMMA RefinesStart ==
  ASSUME TypeInv, Start
  PROVE  Contract!Begin
<1>1. PICK given \in BOOLEAN, from \in Requests \cup {NoRequest},
           to \in Requests \cup {NoRequest} : NewRun(given, from, to)
  BY DEF Start
<1>2. now' \in Nat
  BY <1>1, WindowIndices, CyclesAssumption DEF NewRun
<1>3. pc \in {"idle", "done", "failed"} /\ pc' \in {"scan", "failed"}
      /\ status' = [c \in Cycles |-> "none"]
  BY <1>1 DEF NewRun
<1> QED
  BY <1>2, <1>3
  DEF Contract!Begin, Contract!Unjudged, Contract!NoOwners, Contract!Nobody, phaseBar,
      turnBar, liveBar, verdictBar, ownerBar, Sweeping, Settled, Reported

LEMMA RefinesStartCandidate ==
  ASSUME RInv, RInv', StartCandidate
  PROVE  Contract!Admit
<1>1. TypeInv /\ LiveLists /\ Granted'
  BY DEF RInv, IInv
<1>2. /\ pc = "scan" /\ pc' = "sweep" /\ pos' = 1 /\ now' = now
      /\ status' = [status EXCEPT ![now] = "live"]
      /\ grants' = [ch \in Channels |-> <<>>]
  BY DEF StartCandidate
<1>3. now \in Cycles /\ status[now] = "none"
  <2>1. now \in Cycles
    BY CyclesAssumption, <1>1 DEF StartCandidate, TypeInv, TypeOK, Window, Cycles
  <2> QED  BY <1>1, <1>2, <2>1, ListTypes DEF LiveLists
<1>4. phaseBar = "between" /\ phaseBar' = "cycle"
  BY <1>2 DEF phaseBar, Sweeping
<1>5. turnBar = -1 /\ turnBar' = -1
  BY <1>2 DEF turnBar
<1>6. liveBar' = liveBar \cup {now}
  BY <1>1, <1>2, <1>3 DEF liveBar, TypeInv, TypeOK
<1>7. verdictBar' = verdictBar
  BY <1>1, <1>2, <1>3 DEF verdictBar, TypeInv, TypeOK, Settled, Reported
<1>8. ownerBar' = ownerBar
  <2>1. \A ch \in OwnChannels : Free(ch)'
    BY <1>1, <1>2 DEF Granted, GrantOf, OwnChannels, Sweeping
  <2> QED  BY <1>2, <2>1 DEF ownerBar, Sweeping
<1> QED
  BY <1>2, <1>3, <1>4, <1>5, <1>6, <1>7, <1>8 DEF Contract!Admit

LEMMA RefinesEndSweep ==
  ASSUME RInv, EndSweep
  PROVE  Contract!EndCycle \/ Contract!Abort
<1>1. TypeInv /\ LiveLists /\ Behind
  BY DEF RInv, IInv
<1>2. pc = "sweep" /\ pos > Len(active) /\ status' = status /\ Sweeping
  BY DEF EndSweep, candVars, Sweeping
<1>3. CASE pc' = "failed"
  BY <1>2, <1>3, AbortStep DEF EndSweep
<1>4. CASE pc' # "failed"
  <2>1. pc' = "scan" /\ now' = now + 1
    BY <1>4 DEF EndSweep
  <2>2. ASSUME NEW c \in liveBar PROVE c <= turnBar
    <3>1. PICK i \in 1 .. Len(still) : still[i] = c
      BY <1>1, <1>2, <2>2, ListTypes DEF LiveLists, InSeq, InRest, liveBar
    <3> QED  BY <1>1, <1>2, <3>1 DEF Behind, turnBar
  <2>3. /\ phaseBar = "cycle" /\ phaseBar' = "between" /\ turnBar' = -1
        /\ liveBar' = liveBar /\ verdictBar' = verdictBar
    BY <1>2, <2>1 DEF phaseBar, turnBar, liveBar, verdictBar, Sweeping
  <2>4. ownerBar' = [ch \in OwnChannels |-> -1]
    BY <2>1 DEF ownerBar, Sweeping
  <2> QED
    BY <2>1, <2>2, <2>3, <2>4 DEF Contract!EndCycle, Contract!NoOwners, Contract!Nobody
<1> QED  BY <1>3, <1>4

LEMMA RefinesCloseWindow ==
  ASSUME RInv, CloseWindow
  PROVE  Contract!Close
<1>1. TypeInv /\ LiveLists
  BY DEF RInv, IInv
<1>2. /\ pc = "scan" /\ pc' = "closed" /\ now' = now
      /\ status' = [c \in Cycles |-> IF Leftover(c) THEN "TIMEOUT" ELSE status[c]]
  BY DEF CloseWindow
<1>3. \A c \in Cycles : Leftover(c) <=> c \in liveBar
  BY <1>1, <1>2 DEF LiveLists, Leftover, liveBar
<1>4. phaseBar = "between" /\ phaseBar' = "over" /\ turnBar' = turnBar /\ ownerBar' = ownerBar
  BY <1>2 DEF phaseBar, turnBar, ownerBar, Sweeping
<1>5. liveBar' = {}
  BY <1>2, <1>3 DEF liveBar
<1>6. verdictBar' = [c \in Cycles |-> IF c \in liveBar THEN "TIMEOUT" ELSE verdictBar[c]]
  BY <1>2, <1>3 DEF verdictBar, Settled, Reported
<1> QED  BY <1>2, <1>4, <1>5, <1>6 DEF Contract!Close

LEMMA RefinesNext == RInv /\ RInv' /\ [Next]_vars => [Contract!Next]_(Contract!vars)
<1> SUFFICES ASSUME RInv, RInv', [Next]_vars PROVE [Contract!Next]_(Contract!vars)
  OBVIOUS
<1> USE DEF Contract!Next
<1>1. TypeInv /\ TypeInv'
  BY DEF RInv, IInv
<1>2. CASE Start
  BY <1>1, <1>2, RefinesStart
<1>3. CASE StartCandidate
  BY <1>3, RefinesStartCandidate
<1>4. CASE TimeOut
  <2>1. Settles /\ UNCHANGED <<mark, grants, epoch>>
    BY <1>4 DEF TimeOut, Settles, Settled, Reported, runVars, chanVars
  <2> QED  BY <2>1, JudgeStep
<1>5. CASE BeginAdvance
  <2>1. Contract!IsNext(active[pos]) /\ active[pos] \in Cycles
    BY <1>5, NextInLine DEF BeginAdvance
  <2>2. /\ phaseBar = "cycle" /\ phaseBar' = "cycle" /\ turnBar' = active[pos]
        /\ liveBar' = liveBar /\ verdictBar' = verdictBar /\ ownerBar' = ownerBar /\ now' = now
    BY <1>5 DEF BeginAdvance, phaseBar, turnBar, liveBar, verdictBar, ownerBar, Free,
                Sweeping, runVars, listVars, candVars, chanVars
  <2>3. Contract!GetTurn(active[pos])
    BY <2>1, <2>2 DEF Contract!GetTurn
  <2> QED  BY <2>1, <2>3
<1>6. CASE EndSweep
  BY <1>6, RefinesEndSweep
<1>7. CASE Block
  <2>1. /\ pc = "loop" /\ pc' = "sweep" /\ pos' = pos + 1 /\ active' = active
        /\ status' = status /\ now' = now /\ epoch' = epoch
    BY <1>7 DEF Block, MayTurn, candVars, runVars
  <2>2. mark' = mark /\ grants' = grants
    BY <1>7 DEF Block, NotReady, Refuse, chanVars
  <2>3. Sweeping
    BY <2>1 DEF Sweeping
  <2>4. pos \in Nat \ {0}
    BY <1>1, ListTypes
  <2>5. pos' > 1 /\ pos' - 1 = pos
    BY <2>1, <2>4
  <2>6. turnBar = active[pos] /\ turnBar' = active[pos]
    BY <2>1, <2>5 DEF turnBar
  <2>7. phaseBar = "cycle" /\ phaseBar' = "cycle"
    BY <2>1 DEF phaseBar, Sweeping
  <2>8. Idles /\ UNCHANGED <<grants, epoch>> /\ \A ch \in OwnChannels : mark'[ch] = mark[ch]
    BY <2>1, <2>2, <2>6, <2>7 DEF Idles
  <2> QED  BY <1>1, <2>3, <2>8, InvisibleStep
<1>8. CASE GuardFails
  <2>1. Settles /\ UNCHANGED <<mark, grants, epoch>>
    BY <1>8 DEF GuardFails, MayTurn, NotReady, Refuse, Settles, Settled, Reported, runVars, chanVars
  <2> QED  BY <2>1, JudgeStep
<1>9. CASE Unblock
  <2>1. pc = "loop" /\ Idles /\ Sweeping /\ epoch' = epoch
    BY <1>9 DEF Unblock, MayTurn, Idles, phaseBar, turnBar, Sweeping, listVars, runVars
  <2>2. UNCHANGED chanVars \/ \E ch \in Channels : Free(ch) /\ Take(ch)
    BY <1>1, <1>9, <2>1, EvaluationShapes DEF Unblock
  <2>3. CASE UNCHANGED chanVars
    BY <1>1, <2>1, <2>3, InvisibleStep DEF chanVars
  <2>4. CASE \E ch \in Channels : Free(ch) /\ Take(ch)
    BY <2>1, <2>4, TakeStep
  <2> QED  BY <2>2, <2>3, <2>4
<1>10. CASE FirstResume \/ Observe \/ \E o \in Ops : Yield(o)
  <2>1. Idles /\ Sweeping /\ UNCHANGED <<mark, grants, epoch>>
    BY <1>10 DEF FirstResume, Observe, Yield, MayTurn, Idles, phaseBar, turnBar, Sweeping, listVars,
                 runVars, candVars, chanVars
  <2> QED  BY <1>1, <2>1, InvisibleStep
<1>11. CASE StepLimitExceeded \/ Raise
  <2>1. Sweeping /\ pc' = "failed" /\ status' = status /\ now' = now
    BY <1>11 DEF StepLimitExceeded, Raise, MayTurn, Sweeping, candVars
  <2> QED  BY <2>1, AbortStep
<1>12. CASE CloseWindow
  BY <1>12, RefinesCloseWindow
<1>13. CASE FinishMatch \/ FinishCollect
  <2>1. pc = "closed" /\ pc' \in {"done", "failed"} /\ status' = status /\ now' = now
    BY <1>13 DEF FinishMatch, FinishCollect, candVars
  <2> QED
    BY <2>1 DEF Contract!vars, phaseBar, turnBar, liveBar, verdictBar, ownerBar, Sweeping
<1>14. CASE ReturnOk \/ ReturnOther \/ ReturnNone \/ RequireFails
  <2>1. Settles /\ UNCHANGED <<mark, grants, epoch>>
    BY <1>14 DEF ReturnOk, ReturnOther, ReturnNone, ReturnValue, RequireFails, Settles,
                 Settled, Reported, runVars, chanVars
  <2> QED  BY <2>1, JudgeStep
<1>15. ASSUME NEW ch \in Channels, TryConsume(ch) PROVE [Contract!Next]_(Contract!vars)
  <2>1. pc = "resume" /\ Idles /\ Sweeping /\ epoch' = epoch
    BY <1>15 DEF TryConsume, Idles, phaseBar, turnBar, Sweeping, listVars, runVars, candVars
  <2>2. CASE Free(ch) /\ Take(ch)
    BY <2>1, <2>2, TakeStep
  <2>3. CASE Refuse(ch)
    BY <1>1, <2>1, <2>3, InvisibleStep DEF Refuse
  <2> QED  BY <1>15, <2>2, <2>3 DEF TryConsume
<1>16. ASSUME NEW ch \in Channels, NEW at \in Cycles, NestedRun(ch, at)
       PROVE  [Contract!Next]_(Contract!vars)
  <2>1. pc = "resume" /\ Idles /\ Sweeping /\ UNCHANGED <<grants, epoch>>
    BY <1>16 DEF NestedRun, Idles, phaseBar, turnBar, Sweeping, listVars, candVars
  <2>2. \A d \in OwnChannels : mark'[d] = mark[d]
    BY <1>1, <1>16 DEF NestedRun, Foreign, OwnChannels, TypeInv, TypeOK
  <2> QED  BY <1>1, <2>1, <2>2, InvisibleStep
<1>17. CASE UNCHANGED vars
  BY <1>17 DEF vars, runVars, listVars, candVars, chanVars, Contract!vars, phaseBar, turnBar,
               liveBar, verdictBar, ownerBar, Sweeping, Free
<1> QED
  BY <1>2, <1>3, <1>4, <1>5, <1>6, <1>7, <1>8, <1>9, <1>10, <1>11, <1>12, <1>13, <1>14,
     <1>15, <1>16, <1>17
  DEF Next, Sweep, Turn, Finish, Suspend, Work

\* The runtime keeps the contract: every candidate gets one turn per cycle, by
\* age, channels are taken by whoever asks first in that order, and each verdict
\* is given once, to a live candidate in its turn or when the window closes.
THEOREM RuntimeKeepsContract == Spec => KeepsContract
<1>1. RInv /\ RInv' /\ [Next]_vars => [Contract!Next]_(Contract!vars)
  BY RefinesNext
<1> QED
  BY <1>1, RefinesInit, RInvHolds, PTL DEF Spec, KeepsContract, Contract!Spec
=============================================================================
