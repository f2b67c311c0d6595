--------------------------- MODULE MCRemoteRestore ---------------------------
(* Two URLs on different hosts. *)
EXTENDS RemoteRestore, TLC

CONSTANTS OldUrl, NewUrl, OldHost, NewHost

MCHostOf == OldUrl :> OldHost @@ NewUrl :> NewHost
\* The two URLs can be swapped together with their hosts.
Swapped == OldUrl :> NewUrl @@ NewUrl :> OldUrl @@ OldHost :> NewHost @@ NewHost :> OldHost
Symmetric == Permutations(Tokens) \cup Permutations(Clients) \cup {Swapped}
=============================================================================
