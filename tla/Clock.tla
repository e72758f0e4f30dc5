------------------------------- MODULE Clock -------------------------------
(***************************************************************************)
(* get_current_milliseconds of local_host.c: the time in milliseconds,     *)
(* pushed forward when the clock has not moved since the last call.  The   *)
(* main thread calls it when a message leaves and the receive thread when  *)
(* one arrives, so calls overlap; a step is one access to the clock or to  *)
(* the atomic last_time.  baseTime, which getCurrentTime subtracts, shifts *)
(* all times alike and is left out.                                        *)
(***************************************************************************)
EXTENDS Integers

CONSTANTS
  Threads,      \* the threads that call get_current_milliseconds
  MaxClock,     \* bound: the last reading of the clock
  MaxCalls      \* bound: the number of calls

ASSUME ClockAssumption == MaxClock \in Nat /\ MaxCalls \in Nat

VARIABLES
  clock,        \* CLOCK_MONOTONIC_RAW, in milliseconds
  last_time,
  step,         \* thread -> what its call does next
  current_time, \* thread -> the local variable
  expected,     \* thread -> the local variable
  calls,        \* history: calls begun
  bumps,        \* history: calls that left the loop after pushing the time
  overlapped,   \* history: thread -> does its call overlap another one
  serial        \* history: the latest time returned by a call without overlap

local     == <<current_time, expected>>
clockVars == <<clock, last_time, step, current_time, expected, calls, bumps,
               overlapped, serial>>

ClockInit ==
  /\ clock \in 1..MaxClock
  /\ last_time = 0
  /\ step = [t \in Threads |-> "return"]
  /\ current_time = [t \in Threads |-> 0]
  /\ expected = [t \in Threads |-> 0]
  /\ calls = 0 /\ bumps = 0
  /\ overlapped = [t \in Threads |-> FALSE]
  /\ serial = 0

Calling(t) == step[t] # "return"

Tick ==
  /\ clock < MaxClock
  /\ clock' = clock + 1
  /\ UNCHANGED <<last_time, step, local, calls, bumps, overlapped, serial>>

\* clock_gettime.
ReadClock(t) ==
  /\ calls < MaxCalls
  /\ step[t] = "return"
  /\ step' = [step EXCEPT ![t] = "load"]
  /\ current_time' = [current_time EXCEPT ![t] = clock]
  /\ calls' = calls + 1
  /\ overlapped' = [u \in Threads |->
                      IF u = t THEN \E w \in Threads : Calling(w)
                               ELSE overlapped[u] \/ Calling(u)]
  /\ UNCHANGED <<clock, last_time, expected, bumps, serial>>

\* Mutants: the time is not pushed, or pushed too far.
notPushed(e) == e
twicePushed(e) == e + 2

\* The first millisecond after e.
pushed(e) == e + 1

\* expected becomes e and the condition of the loop is evaluated: the body's
\* first line sets current_time, otherwise the loop is left.
TestLoop(t, e) ==
  /\ expected' = [expected EXCEPT ![t] = e]
  /\ \/ /\ current_time[t] <= e
        /\ current_time' = [current_time EXCEPT ![t] = pushed(e)]
        /\ step' = [step EXCEPT ![t] = "exchange"]
     \/ /\ current_time[t] > e
        /\ step' = [step EXCEPT ![t] = "store"]
        /\ UNCHANGED current_time

Load(t) ==
  /\ step[t] = "load"
  /\ TestLoop(t, last_time)
  /\ UNCHANGED <<clock, last_time, calls, bumps, overlapped, serial>>

\* atomic_compare_exchange_weak succeeds, and the loop is left.
Exchange(t) ==
  /\ step[t] = "exchange"
  /\ last_time = expected[t]
  /\ last_time' = current_time[t]
  /\ step' = [step EXCEPT ![t] = "store"]
  /\ bumps' = bumps + 1
  /\ UNCHANGED <<clock, local, calls, overlapped, serial>>

\* Mutant: the failing exchange does not refresh expected.
ExchangeFailsStale(t) ==
  /\ step[t] = "exchange"
  /\ last_time # expected[t]
  /\ current_time' = [current_time EXCEPT ![t] = pushed(expected[t])]
  /\ UNCHANGED <<clock, last_time, step, expected, calls, bumps, overlapped, serial>>

\* It fails, for another value or spuriously, as the weak form may, and loads
\* last_time into expected.
ExchangeFails(t) ==
  /\ step[t] = "exchange"
  /\ TestLoop(t, last_time)
  /\ bumps' = IF step'[t] = "store" THEN bumps + 1 ELSE bumps
  /\ UNCHANGED <<clock, last_time, calls, overlapped, serial>>

Store(t) ==
  /\ step[t] = "store"
  /\ last_time' = current_time[t]
  /\ step' = [step EXCEPT ![t] = "return"]
  /\ serial' = IF overlapped[t] THEN serial ELSE current_time[t]
  /\ UNCHANGED <<clock, local, calls, bumps, overlapped>>

Inside(t) == Load(t) \/ Exchange(t) \/ ExchangeFails(t) \/ Store(t)

ClockNext == Tick \/ \E t \in Threads : ReadClock(t) \/ Inside(t)

ClockSpec == ClockInit /\ [][ClockNext]_clockVars
-----------------------------------------------------------------------------
ClockTypeOK ==
  /\ clock \in Nat /\ last_time \in Nat
  /\ step \in [Threads -> {"load", "exchange", "store", "return"}]
  /\ current_time \in [Threads -> Nat]
  /\ expected \in [Threads -> Nat]
  /\ calls \in Nat /\ bumps \in Nat
  /\ overlapped \in [Threads -> BOOLEAN]
  /\ serial \in Nat

\* A call that overlapped no other is earlier than every call begun later: a
\* call about to return, overlapped or not, returns more than all of those.
\* Calls that overlap have no such order, and may return equal times.
SerialCallsIncrease ==
  \A t \in Threads : step[t] = "store" => current_time[t] > serial

\* Pushed times run ahead of the clock by at most one millisecond for each call
\* that found the clock not ahead of last_time, however the exchanges interleave.
AheadOfClock ==
  /\ last_time <= clock + bumps
  /\ \A t \in Threads : step[t] = "store" => current_time[t] <= clock + bumps

\* The lock-free loop ends: every call returns.
EveryCallReturns == \A t \in Threads : Calling(t) ~> ~Calling(t)
=============================================================================
