------------------------------- MODULE Relay -------------------------------
(***************************************************************************)
(* What the control center promises to the drones: a total order broadcast *)
(* with members that join late.  The messages of a member are put in one   *)
(* log, each once and in the order it sent them; a member gets the log     *)
(* from where it joined, without gaps.                                     *)
(***************************************************************************)
EXTENDS Integers, Sequences

CONSTANT Drones

VARIABLES
  log,    \* the messages relayed, of all drones
  join,   \* drone -> length of the log when it joined, or Outside
  got     \* drone -> the messages it has received

vars == <<log, join, got>>

Outside == -1

Message(d, n) == [kind |-> "message", from |-> d, number |-> n]

Init ==
  /\ log = <<>>
  /\ join = [d \in Drones |-> Outside]
  /\ got = [d \in Drones |-> <<>>]

Join(d) ==
  /\ join[d] = Outside
  /\ join' = [join EXCEPT ![d] = Len(log)]
  /\ UNCHANGED <<log, got>>

\* The numbers of the messages of d in the log.
Numbers(d) == {log[k].number : k \in {j \in 1..Len(log) : log[j].from = d}}

\* The next message of a member is the one after those in the log.
RelayNext(d) ==
  /\ join[d] # Outside
  /\ \E n \in 1..Len(log) + 1 :
       /\ Numbers(d) = 1..n - 1
       /\ log' = Append(log, Message(d, n))
  /\ UNCHANGED <<join, got>>

Deliver(d) ==
  /\ join[d] # Outside
  /\ join[d] + Len(got[d]) < Len(log)
  /\ got' = [got EXCEPT ![d] = Append(@, log[join[d] + Len(@) + 1])]
  /\ UNCHANGED <<log, join>>

Next == \E d \in Drones : Join(d) \/ RelayNext(d) \/ Deliver(d)

Spec == Init /\ [][Next]_vars
=============================================================================
