----------------------------- MODULE MCRanging -----------------------------
(***************************************************************************)
(* Model values for ModifiedRanging.                                       *)
(***************************************************************************)
EXTENDS ModifiedRanging, TLC

CONSTANTS a, b, c

\* The drones all run the same program.
Symmetric == Permutations(Drones)
=============================================================================
