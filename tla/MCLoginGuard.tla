---------------------------- MODULE MCLoginGuard ----------------------------
(* Symmetry for LoginGuard: nothing orders users, addresses or requests. *)
EXTENDS LoginGuard, TLC

Symmetric == Permutations(Usernames) \cup Permutations(Addresses) \cup Permutations(Requests)
=============================================================================
