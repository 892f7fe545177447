--------------------------- MODULE MCRefreshCycle ---------------------------
(* Model checking of RefreshCycle: slots and jobs are interchangeable.      *)
EXTENDS RefreshCycle, TLC

Symmetry == Permutations(Slots) \cup Permutations(Jobs)
=============================================================================
