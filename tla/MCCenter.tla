------------------------------ MODULE MCCenter ------------------------------
(* Drones of the runs of ControlCenter.                                    *)
EXTENDS ControlCenter, TLC

CONSTANTS d1, d2, d3

ThreeDrones == {d1, d2, d3}
\* One talks and answers, one talks, one only listens.
ThreeMessages == d1 :> 3 @@ d2 :> 1 @@ d3 :> 0

\* A drone is refused whatever the others say.
NoMessages == [d \in Drones |-> 0]
=============================================================================
