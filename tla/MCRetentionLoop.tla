--------------------------- MODULE MCRetentionLoop ---------------------------
(* Six backups on five times: two share a time (told apart by id), ids are not   *)
(* in order of time, a day holds up to three of them and a week spans days.      *)
EXTENDS RetentionLoop

MCTiers == {"daily", "weekly"}
MCTimes == 1 .. 5
MCBuckets == {"d1", "d2", "d3", "w1", "w2"}
MCBucketOf ==
    [daily  |-> <<"d1", "d1", "d2", "d3", "d3">>,
     weekly |-> <<"w1", "w1", "w1", "w2", "w2">>]
MCTierOrder == <<"daily", "weekly">>
MCUniverse == {[id |-> 1, at |-> 2], [id |-> 2, at |-> 1], [id |-> 3, at |-> 3],
               [id |-> 4, at |-> 4], [id |-> 5, at |-> 4], [id |-> 6, at |-> 5]}
MCPolicies == [MCTiers -> -1 .. 3]
=============================================================================
