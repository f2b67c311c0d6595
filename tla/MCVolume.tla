------------------------------ MODULE MCVolume ------------------------------
(* Model values for Volume. *)
EXTENDS Volume, TLC

Symmetry == Permutations(Requests)
=============================================================================
