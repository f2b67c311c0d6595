------------------------------- MODULE MCVault -------------------------------
(* Two days of one week, and three uploads.                                      *)
EXTENDS Vault, TLC

MCTiers == {"daily", "weekly"}
MCTimes == 1 .. 2
MCBuckets == {"d1", "d2", "w1"}
MCBucketOf == [daily |-> <<"d1", "d2">>, weekly |-> <<"w1", "w1">>]

LastDay == [daily |-> 1, weekly |-> 0]
TwoDays == [daily |-> 2, weekly |-> 1]

OnePolicy == {LastDay}
TwoPolicies == {LastDay, TwoDays}

\* Uploads, and request slots, are interchangeable: nothing orders them.
Symmetric == Permutations(Names) \cup Permutations(Requests)
=============================================================================
