-------------------------- MODULE LocalHostProofs --------------------------
(***************************************************************************)
(* Proofs about the local host, for any threads, numbers of calls and      *)
(* readings of the clock, and for any area, velocity and period that the   *)
(* assumption of Motion admits.                                            *)
(***************************************************************************)
EXTENDS LocalHost, TLAPS

\* What a call has read is no earlier than `serial' and no later than what the
\* pushes so far explain; a call without overlap is alone.
ClockInv ==
  /\ ClockTypeOK
  /\ serial <= last_time
  /\ \A t \in Threads :
       /\ step[t] = "load" => current_time[t] <= clock
       /\ step[t] = "exchange" => /\ current_time[t] = expected[t] + 1
                                  /\ serial <= expected[t]
                                  /\ expected[t] <= clock + bumps
  /\ \A t, u \in Threads :
       Calling(t) /\ Calling(u) /\ t # u => overlapped[t]
  /\ SerialCallsIncrease
  /\ AheadOfClock

LEMMA InitClockInv == ClockInit => ClockInv
BY ClockAssumption
DEF ClockInit, ClockInv, ClockTypeOK, Calling, SerialCallsIncrease, AheadOfClock

LEMMA StepClockInv == ClockInv /\ [ClockNext]_clockVars => ClockInv'
<1> SUFFICES ASSUME ClockInv, [ClockNext]_clockVars PROVE ClockInv'
  OBVIOUS
<1> USE ClockAssumption
<1> USE DEF ClockInv, ClockTypeOK, Calling, SerialCallsIncrease, AheadOfClock, local
<1>1. CASE Tick
  BY <1>1 DEF Tick
<1>2. ASSUME NEW t \in Threads, ReadClock(t) PROVE ClockInv'
  <2> USE <1>2 DEF ReadClock
  <2>1. ClockTypeOK'
    <3>1. overlapped' \in [Threads -> BOOLEAN]
      BY Zenon
    <3>2. /\ step' \in [Threads -> {"load", "exchange", "store", "return"}]
          /\ current_time' \in [Threads -> Nat]
          /\ calls' \in Nat
      OBVIOUS
    <3> QED BY <3>1, <3>2
  <2>2. ASSUME NEW u \in Threads, NEW w \in Threads,
               Calling(u)', Calling(w)', u # w
        PROVE  overlapped'[u]
    <3>1. CASE u = t
      BY <2>2, <3>1
    <3>2. CASE u # t
      BY <2>2, <3>2
    <3> QED BY <3>1, <3>2
  <2>3. \A u \in Threads :
          u # t => step'[u] = step[u] /\ current_time'[u] = current_time[u]
    OBVIOUS
  <2>4. step'[t] = "load" /\ current_time'[t] = clock
    OBVIOUS
  <2>5. /\ serial' <= last_time'
        /\ SerialCallsIncrease'
        /\ AheadOfClock'
    BY <2>3, <2>4
  <2>6. ASSUME NEW u \in Threads
        PROVE  /\ step'[u] = "load" => current_time'[u] <= clock'
               /\ step'[u] = "exchange" => /\ current_time'[u] = expected'[u] + 1
                                           /\ serial' <= expected'[u]
                                           /\ expected'[u] <= clock' + bumps'
    BY <2>3, <2>4
  <2> QED BY <2>1, <2>2, <2>5, <2>6
<1>3. ASSUME NEW t \in Threads, Load(t) PROVE ClockInv'
  BY <1>3 DEF Load, TestLoop, pushed
<1>4. ASSUME NEW t \in Threads, Exchange(t) PROVE ClockInv'
  BY <1>4 DEF Exchange
<1>5. ASSUME NEW t \in Threads, ExchangeFails(t) PROVE ClockInv'
  BY <1>5 DEF ExchangeFails, TestLoop, pushed
<1>6. ASSUME NEW t \in Threads, Store(t) PROVE ClockInv'
  BY <1>6 DEF Store
<1>7. CASE UNCHANGED clockVars
  BY <1>7 DEF clockVars
<1> QED
  BY <1>1, <1>2, <1>3, <1>4, <1>5, <1>6, <1>7 DEF ClockNext, Inside
-----------------------------------------------------------------------------
\* What the drone flies in one period, forward or back.
Pace == IF v < 0 THEN -(v * Period) ELSE v * Period

\* Outside the area a drone flies back, or a failed send has turned it; then it
\* is nearer to the area by one step.
MotionInv ==
  /\ MotionTypeOK
  /\ v # 0 => /\ x <= High + failedSends * Pace + (IF v < 0 THEN Pace ELSE 0)
                 \/ x <= High
              /\ x >= Low - failedSends * Pace - (IF v > 0 THEN Pace ELSE 0)
                 \/ x >= Low

\* Products of natural numbers grow with their factors.
LEMMA Monotonic ==
  ASSUME NEW a \in Nat, NEW b \in Nat, NEW c \in Nat, a <= b
  PROVE  a * c <= b * c /\ c * a <= c * b
OBVIOUS

\* The paces of a drone stay within Reach, which stays within the coordinates.
LEMMA PaceReach ==
  ASSUME MotionTypeOK
  PROVE  /\ Pace \in Nat
         /\ failedSends * Pace \in Nat
         /\ (failedSends + 1) * Pace = failedSends * Pace + Pace
         /\ failedSends * Pace + Pace <= Reach(failedSends)
         /\ Reach(failedSends) <= Reach(MaxFailedSends)
         /\ Reach(failedSends) \in Nat
         /\ Reach(MaxFailedSends) \in Nat
<1> USE MotionAssumption DEF MotionTypeOK
<1>1. Pace \in Nat /\ Pace <= Step
  <2>1. CASE v < 0
    <3>1. -v \in Nat /\ -v <= Velocity
      BY <2>1
    <3>2. (-v) * Period <= Velocity * Period /\ (-v) * Period \in Nat
      BY <3>1, Monotonic
    <3> QED BY <2>1, <3>1, <3>2 DEF Pace, Step
  <2>2. CASE v >= 0
    BY <2>2, Monotonic DEF Pace, Step
  <2> QED BY <2>1, <2>2
<1>2. Step \in Nat
  BY DEF Step
<1>3. (failedSends + 1) * Pace <= (failedSends + 1) * Step
  BY <1>1, <1>2, Monotonic
<1>4. (failedSends + 1) * Step <= (MaxFailedSends + 1) * Step
  BY <1>2, Monotonic
<1>5. failedSends * Pace \in Nat /\ (failedSends + 1) * Pace = failedSends * Pace + Pace
  BY <1>1
<1>6. (failedSends + 1) * Step \in Nat /\ (MaxFailedSends + 1) * Step \in Nat
  BY <1>2
<1> QED BY <1>1, <1>3, <1>4, <1>5, <1>6 DEF Reach

LEMMA InitMotionInv == MotionInit => MotionInv
<1> SUFFICES ASSUME MotionInit PROVE MotionInv
  OBVIOUS
<1> USE MotionAssumption DEF MotionInit, MotionInv, MotionTypeOK
<1>1. MotionTypeOK
  <2>1. Reach(MaxFailedSends) \in Nat
    BY DEF Reach, Step
  <2> QED BY <2>1
<1>2. failedSends * Pace = 0 /\ Pace \in Nat
  BY <1>1, PaceReach
<1> QED BY <1>1, <1>2

\* No coordinate wraps, whether the drone flies or stays.
LEMMA NoWrap ==
  ASSUME MotionInv
  PROVE  /\ (x + v * Period) % CoordinateRange = x + v * Period
         /\ (x + v * 0) % CoordinateRange = x
         /\ v * Period = IF v < 0 THEN -Pace ELSE Pace
<1> USE MotionAssumption DEF MotionInv, MotionTypeOK
<1>1. v * Period \in Int /\ (v # 0 \/ v * Period = 0)
  OBVIOUS
<1>2. v * Period = IF v < 0 THEN -Pace ELSE Pace
  BY <1>1 DEF Pace
<1>3. /\ Pace \in Nat /\ failedSends * Pace \in Nat
      /\ failedSends * Pace + Pace <= Reach(MaxFailedSends)
      /\ Reach(MaxFailedSends) \in Nat
  BY PaceReach
<1>4. x + v * Period \in 0..CoordinateRange - 1
  <2>1. CASE v > 0
    BY <2>1, <1>2, <1>3
  <2>2. CASE v < 0
    BY <2>2, <1>2, <1>3
  <2>3. CASE v = 0
    BY <2>3, <1>1
  <2> QED BY <2>1, <2>2, <2>3
<1>5. \A n \in 0..CoordinateRange - 1 : n % CoordinateRange = n
  OBVIOUS
<1>6. v * 0 = 0
  OBVIOUS
<1> QED BY <1>2, <1>4, <1>5, <1>6

LEMMA StepMotionInv == MotionInv /\ [MotionNext]_motionVars => MotionInv'
<1> SUFFICES ASSUME MotionInv, [MotionNext]_motionVars PROVE MotionInv'
  OBVIOUS
<1> USE MotionAssumption DEF MotionInv, MotionTypeOK, reverseVilocity, modifyLocation
<1>1. /\ Pace \in Nat /\ failedSends * Pace \in Nat
      /\ (failedSends + 1) * Pace = failedSends * Pace + Pace
      /\ failedSends * Pace + Pace <= Reach(MaxFailedSends)
      /\ Reach(MaxFailedSends) \in Nat
  BY PaceReach
<1>2. ASSUME v' = v \/ v' = -v
      PROVE  Pace' = Pace
  <2>1. (-v) * Period = -(v * Period) /\ v * Period \in Int /\ (v = 0 => v * Period = 0)
    OBVIOUS
  <2> QED BY <1>2, <2>1 DEF Pace
<1>3. CASE Fly
  <2> USE <1>3 DEF Fly
  <2>1. x' = x + (IF v < 0 THEN -Pace ELSE Pace)
    BY NoWrap
  <2>2. /\ v' = IF x' < Low \/ x' > High THEN -v ELSE v
        /\ failedSends' = failedSends
    OBVIOUS
  <2>3. Pace' = Pace
    BY <1>2, <2>2
  <2>4. MotionTypeOK'
    BY NoWrap
  <2>5. v = 0 => x' = x /\ v' = 0
    BY <2>2, NoWrap
  <2> QED BY <1>1, <2>1, <2>2, <2>3, <2>4, <2>5
<1>4. CASE StayForFailedSend
  <2> USE <1>4 DEF StayForFailedSend
  <2>1. x' = x
    BY NoWrap
  <2>2. /\ v' = IF x' < Low \/ x' > High THEN -v ELSE v
        /\ failedSends' = failedSends + 1
    OBVIOUS
  <2>3. failedSends' * Pace' = failedSends * Pace + Pace /\ Pace' = Pace
    BY <1>1, <1>2, <2>2
  <2> QED BY <1>1, <2>1, <2>2, <2>3
<1>5. CASE UNCHANGED motionVars
  BY <1>5 DEF motionVars, Pace
<1> QED
  BY <1>3, <1>4, <1>5 DEF MotionNext

LEMMA MotionInvImplies == MotionInv => WithinReach
<1> SUFFICES ASSUME MotionInv PROVE WithinReach
  OBVIOUS
<1> USE MotionAssumption DEF MotionInv, MotionTypeOK
<1>1. /\ Pace \in Nat /\ failedSends * Pace \in Nat
      /\ failedSends * Pace + Pace <= Reach(failedSends)
      /\ Reach(failedSends) \in Nat
  BY PaceReach
<1> QED BY <1>1 DEF WithinReach
-----------------------------------------------------------------------------
\* The local host is a clock and a drone that flies: both invariants hold.
LEMMA Invariants == Spec => [](ClockInv /\ MotionInv)
<1>1. Init => ClockInv /\ MotionInv
  BY InitClockInv, InitMotionInv DEF Init
<1>2. ClockInv /\ MotionInv /\ [Next]_vars => (ClockInv /\ MotionInv)'
  <2> SUFFICES ASSUME ClockInv, MotionInv, [Next]_vars
               PROVE  ClockInv' /\ MotionInv'
    OBVIOUS
  <2>1. [ClockNext]_clockVars /\ [MotionNext]_motionVars
    BY DEF Next, vars, ReadTime, Move, FailedMove, MotionNext
  <2> QED BY <2>1, StepClockInv, StepMotionInv
<1> QED BY <1>1, <1>2, PTL DEF Spec

\* Every variable keeps its type; no coordinate wraps.
THEOREM TypeCorrect == Spec => []TypeOK
<1>1. ClockInv /\ MotionInv => TypeOK
  BY DEF ClockInv, MotionInv, TypeOK
<1> QED BY <1>1, Invariants, PTL

\* The times of calls without overlap increase, with every number of threads.
THEOREM SerialTimes == Spec => []SerialCallsIncrease
<1>1. ClockInv => SerialCallsIncrease
  BY DEF ClockInv
<1> QED BY <1>1, Invariants, PTL

\* The time runs ahead of the clock by at most one millisecond for each push.
THEOREM Ahead == Spec => []AheadOfClock
<1>1. ClockInv => AheadOfClock
  BY DEF ClockInv
<1> QED BY <1>1, Invariants, PTL

\* A drone stays within one step of its area, and one more for each failed send.
THEOREM StaysNear == Spec => []WithinReach
<1> QED BY MotionInvImplies, Invariants, PTL
=============================================================================
