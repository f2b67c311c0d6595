------------------------------ MODULE Retention ------------------------------
(***************************************************************************)
(* Grandfather-Father-Son retention: which of a set of backups a prune     *)
(* keeps (app/retention.py).  A backup is any record with the fields `at'  *)
(* (created_at) and `id'; the calendar is abstracted to BucketOf, the      *)
(* day, week, month or year a creation time falls in.                      *)
(*                                                                         *)
(* This module says WHAT survives, without an order of evaluation;         *)
(* RetentionLoop models the loop the code runs, and is shown to compute    *)
(* exactly this set.                                                       *)
(***************************************************************************)
EXTENDS Integers, FiniteSets

CONSTANTS
    Tiers,      \* "daily", "weekly", "monthly", "yearly"
    Times,      \* creation times: integers, compared as datetimes are
    Buckets,    \* every bucket key of every tier
    BucketOf    \* BucketOf[tier][t]: the bucket of tier that time t falls in

\* A datetime's year is at most 9999, so there are finitely many buckets.
ASSUME RetentionAssumption ==
    /\ Times \subseteq Int
    /\ IsFiniteSet(Buckets)
    /\ BucketOf \in [Tiers -> [Times -> Buckets]]

\* The bucket of a tier that a backup falls in.
BucketKey(tier, b) == BucketOf[tier][b.at]

\* The sort key of survivors(): creation time, then id.
Newer(a, b) == a.at > b.at \/ (a.at = b.at /\ a.id > b.id)

\* The buckets of a tier that hold a backup of B newer than b: those the loop
\* has claimed when it reaches b.
KeysAbove(tier, b, B) ==
    {k \in Buckets : \E x \in B : Newer(x, b) /\ BucketKey(tier, x) = k}

\* Mutant of PickedBy: the window is one bucket short.
PickedByOneShort(tier, count, b, B) ==
    LET above == KeysAbove(tier, b, B)
    IN  BucketKey(tier, b) \notin above /\ Cardinality(above) + 1 < count

\* A tier picks b when b is the newest of its bucket and fewer than `count'
\* newer buckets of the tier hold a backup.
PickedBy(tier, count, b, B) ==
    LET above == KeysAbove(tier, b, B)
    IN  BucketKey(tier, b) \notin above /\ Cardinality(above) < count

\* A policy maps each tier to how many buckets of it are kept; a count that is
\* not positive disables the tier.
Survivors(B, policy) ==
    {b \in B : \E tier \in Tiers :
                   policy[tier] > 0 /\ PickedBy(tier, policy[tier], b, B)}

\* A policy with every tier disabled prunes nothing.
KeepsAll(policy) == \A tier \in Tiers : ~(policy[tier] > 0)

\* What prune_site_scope deletes of the backups B of one site and scope.
Losers(B, policy) ==
    IF KeepsAll(policy) THEN {} ELSE B \ Survivors(B, policy)
=============================================================================
