----------------------------- MODULE MCHvacIpc -----------------------------
(* Model values for HvacIpc. *)
EXTENDS HvacIpc, TLC

CONSTANTS m1, m2

Symm == Permutations(Meters)
=============================================================================
