------------------------------ MODULE MCAccounts ------------------------------
(* Model values and symmetry for Accounts. *)
EXTENDS Accounts, TLC

Symmetric == Permutations(Workers) \cup Permutations(Requests)
=============================================================================
