--------------------------- MODULE MCChunkedUpload ---------------------------
(* Model values and symmetry for ChunkedUpload. *)
EXTENDS ChunkedUpload, TLC

Symmetric == Permutations(Requests) \cup Permutations(Procs)
=============================================================================
