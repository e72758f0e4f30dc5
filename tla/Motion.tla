------------------------------- MODULE Motion -------------------------------
(***************************************************************************)
(* The flight of a drone along one axis (localInit, modifyLocation and     *)
(* reverseVilocity of local_host.c), as the main thread moves it after     *)
(* every turn of its send loop.  The other axes move by the same rule, or, *)
(* with OPPOSITE_MOVE, stand still.                                        *)
(***************************************************************************)
EXTENDS Integers

CONSTANTS
  Low, High,            \* the area: OPPOSITE_DISTANCE_BASE or FLIGHT_AREA_LOW_BASE,
                        \*           and FLIGHT_AREA_UPON_BASE
  Velocity,             \* OPPOSITE_VELOCITY, or RANDOM_VELOCITY
  Period,               \* RANGING_PERIOD, what QueueTaskTx returns
  CoordinateRange,      \* coordinates are unsigned 16-bit integers: 2^16
  MaxFailedSends        \* bound: failing mallocs in QueueTaskTx

VARIABLES
  x,            \* location.x
  v,            \* velocity.x
  failedSends   \* history: calls of QueueTaskTx that returned NULL_TIMESTAMP

motionVars == <<x, v, failedSends>>

\* The farthest a drone flies in one period, and beyond the area after n
\* failed sends.
Step     == Velocity * Period
Reach(n) == (n + 1) * Step

ASSUME MotionAssumption ==
  /\ Low \in Nat /\ High \in Nat /\ Low <= High
  /\ Velocity \in Nat /\ Period \in Nat
  /\ MaxFailedSends \in Nat
  /\ CoordinateRange \in Nat
  \* No coordinate wraps: 1400 below 5000, and 41400 below 65536.
  /\ Reach(MaxFailedSends) <= Low
  /\ High + Reach(MaxFailedSends) < CoordinateRange

\* RANDOM_MOVE: any place in the area.  OPPOSITE_MOVE: a drone with an even
\* address starts at the low end and flies, one with an odd address stays at 0.
MotionInit ==
  /\ \/ x \in Low..High /\ v \in -Velocity..Velocity
     \/ x = Low /\ v = Velocity
     \/ x = 0   /\ v = 0
  /\ failedSends = 0

\* Mutant: turn back toward the area only when leaving above.
reverseAbove(place, speed) == IF place > High THEN -speed ELSE speed

\* Mutant: the drone comes back at twice the speed.
reverseTwofold(place, speed) ==
  IF place < Low \/ place > High THEN speed - 3 * speed ELSE speed

reverseVilocity(place, speed) ==
  IF place < Low \/ place > High THEN speed - 2 * speed ELSE speed

\* Mutant: the velocity is reversed before the drone moves.
modifyLocationLate(delay) ==
  /\ x' = (x + v * delay) % CoordinateRange
  /\ v' = reverseVilocity(x, v)

\* The velocity is converted to the unsigned type of the delay and the sum to
\* that of the coordinate: the result is the sum modulo CoordinateRange.
modifyLocation(delay) ==
  /\ x' = (x + v * delay) % CoordinateRange
  /\ v' = reverseVilocity(x', v)

\* A turn of the send loop, after the rounds of alignment.
Fly == modifyLocation(Period) /\ UNCHANGED failedSends

\* QueueTaskTx returned NULL_TIMESTAMP, which is a delay of 0: the drone stays
\* where it is, and is reversed there when it is outside the area.
StayForFailedSend ==
  /\ failedSends < MaxFailedSends
  /\ modifyLocation(0)
  /\ failedSends' = failedSends + 1

MotionNext == Fly \/ StayForFailedSend

MotionSpec == MotionInit /\ [][MotionNext]_motionVars
-----------------------------------------------------------------------------
MotionTypeOK ==
  /\ x \in 0..CoordinateRange - 1
  /\ v \in -Velocity..Velocity
  /\ failedSends \in 0..MaxFailedSends

InArea == x \in Low..High

\* A flying drone leaves the area by one step at most, and by one step more
\* for every failed send, which may turn it away from the area.
WithinReach ==
  v # 0 => x \in Low - Reach(failedSends)..High + Reach(failedSends)

\* A drone whose sends do not fail comes back whenever it has left the area.
ComesBack == [](failedSends = 0) => []<>(InArea \/ v = 0)
=============================================================================
