---------------------------- MODULE MCNeighbors ----------------------------
(***************************************************************************)
(* Model values for Neighbors: five drones in range, tables for four.      *)
(***************************************************************************)
EXTENDS Neighbors, TLC

CONSTANTS a, b, c, d, e

Drones == {a, b, c, d, e}

\* The drones are only compared: they can be exchanged for one another.
Symmetric == Permutations(Drones)
=============================================================================
