--------------------------- MODULE MCServerLifecycle ---------------------------
(***************************************************************************)
(* Instances of ServerLifecycle for TLC.                                   *)
(***************************************************************************)
EXTENDS ServerLifecycle, TLC

CONSTANTS d1, d2, c1

Symmetry == Permutations(Instances)
=============================================================================
