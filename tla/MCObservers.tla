------------------------------ MODULE MCObservers ------------------------------
(***************************************************************************)
(* Instances of Observers for TLC.                                         *)
(***************************************************************************)
EXTENDS Observers, TLC

CONSTANTS n1, n2, a, b, none

Symmetry == Permutations({n1, n2}) \cup Permutations({a, b})
=============================================================================
