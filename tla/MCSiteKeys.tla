------------------------------ MODULE MCSiteKeys ------------------------------
(* Symmetry for SiteKeys: nothing orders browsers, requests or uploads. *)
EXTENDS SiteKeys, TLC

Symmetric == Permutations(Browsers) \cup Permutations(Requests) \cup Permutations(Uploads)
=============================================================================
