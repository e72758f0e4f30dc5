---------------------------- MODULE TaskChannel ----------------------------
(***************************************************************************)
(* What the task queue of lock.c promises its two users, with the threads, *)
(* the mutexes and the ring of slots left out: a bounded first-in          *)
(* first-out channel.  The receive thread offers the messages 1, 2, 3, ... *)
(* and the process thread takes them one at a time.  A message is lost in  *)
(* two cases only: the channel holds Capacity tasks, or malloc failed.     *)
(***************************************************************************)
EXTENDS Integers, Sequences

CONSTANTS
  Capacity,     \* QUEUE_TASK_LENGTH
  MaxArrivals   \* bound: the number of messages offered in a behaviour

VARIABLES
  pending,      \* the tasks accepted and not yet processed, oldest first
  arrivals,     \* how many messages have been offered
  delivered,    \* the last message processed, 0 before the first
  failures      \* how many messages were lost to a failing malloc

vars == <<pending, arrivals, delivered, failures>>

Init ==
  /\ pending = <<>>
  /\ arrivals = 0
  /\ delivered = 0
  /\ failures = 0

Offer == arrivals < MaxArrivals /\ arrivals' = arrivals + 1

Accept ==
  /\ Offer
  /\ Len(pending) < Capacity
  /\ pending' = Append(pending, arrivals + 1)
  /\ UNCHANGED <<delivered, failures>>

Miss ==
  /\ Offer
  /\ Len(pending) = Capacity
  /\ UNCHANGED <<pending, delivered, failures>>

Fail ==
  /\ Offer
  /\ failures' = failures + 1
  /\ UNCHANGED <<pending, delivered>>

Deliver ==
  /\ pending # <<>>
  /\ delivered' = Head(pending)
  /\ pending' = Tail(pending)
  /\ UNCHANGED <<arrivals, failures>>

Next == Accept \/ Miss \/ Fail \/ Deliver

Spec == Init /\ [][Next]_vars

\* Every accepted message is handed to processRangingMessage in the end.
EveryTaskDelivered ==
  \A m \in 1..MaxArrivals :
    (\E i \in 1..Len(pending) : pending[i] = m) ~> (delivered = m)
=============================================================================
