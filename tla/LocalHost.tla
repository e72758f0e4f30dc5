----------------------------- MODULE LocalHost -----------------------------
(***************************************************************************)
(* local_host.c as the threads of a drone use it: the main and the receive *)
(* thread read the time, and the main thread flies the drone between its   *)
(* readings.                                                               *)
(***************************************************************************)
EXTENDS Clock, Motion

CONSTANT Main     \* the main thread, one of Threads

ASSUME MainAssumption == Main \in Threads

vars == <<clockVars, motionVars>>

Init == ClockInit /\ MotionInit

ReadTime == ClockNext /\ UNCHANGED motionVars

Move == ~Calling(Main) /\ Fly /\ UNCHANGED clockVars

\* Without memory for the message the main thread reads no time and returns.
FailedMove == ~Calling(Main) /\ StayForFailedSend /\ UNCHANGED clockVars

Next == ReadTime \/ Move \/ FailedMove

Spec == Init /\ [][Next]_vars

\* The scheduler runs a thread that has begun a call, and the send loop goes
\* on.  Nothing makes a call begin, the clock tick or a malloc fail.
FairSpec ==
  /\ Spec
  /\ \A t \in Threads : WF_vars(Inside(t) /\ UNCHANGED motionVars)
  /\ WF_vars(Move)
-----------------------------------------------------------------------------
TypeOK == ClockTypeOK /\ MotionTypeOK
=============================================================================
