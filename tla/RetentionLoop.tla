---------------------------- MODULE RetentionLoop ----------------------------
(***************************************************************************)
(* The loop of survivors() (app/retention.py:36-57), one step per          *)
(* iteration: the backups are sorted newest first and each tier walks them *)
(* once, claiming one backup per bucket, until its count of buckets is     *)
(* full.  Declarative counterpart: Retention!Survivors.                    *)
(***************************************************************************)
EXTENDS Retention, Sequences

CONSTANTS
    TierOrder,   \* the sequence of tiers the outer loop goes through
    Universe,    \* backups a call may be given
    Policies     \* policies a call may be given

ASSUME LoopAssumption ==
    /\ TierOrder \in Seq(Tiers)
    /\ \A tier \in Tiers : \E i \in 1 .. Len(TierOrder) : TierOrder[i] = tier
    /\ IsFiniteSet(Universe)
    /\ Universe \subseteq [id : Nat, at : Times]
    /\ \A a, b \in Universe : a.id = b.id => a = b     \* id is the primary key
    /\ Policies \subseteq [Tiers -> Int]

VARIABLES
    backups,   \* the argument: a set of backups
    policy,    \* the argument: tier -> count
    ordered,   \* the backups, newest first
    t,         \* the tier being walked is TierOrder[t]
    i,         \* the next backup of the walk is ordered[i]
    seen,      \* seen_set: the bucket keys this tier has claimed
    keep       \* ids of the backups kept so far

vars == <<backups, policy, ordered, t, i, seen, keep>>
inputs == <<backups, policy, ordered>>

NewestFirst(s) == \A j, k \in DOMAIN s : j < k => Newer(s[j], s[k])

Init ==
    /\ backups \in SUBSET Universe
    /\ policy \in Policies
    /\ ordered \in [1 .. Cardinality(backups) -> backups]
    /\ \A b \in backups : \E j \in DOMAIN ordered : ordered[j] = b
    /\ NewestFirst(ordered)
    /\ t = 1
    /\ i = 1
    /\ seen = {}
    /\ keep = {}

Done == t > Len(TierOrder)

Count == policy[TierOrder[t]]
Key == BucketKey(TierOrder[t], ordered[i])

\* On to the next tier, with nothing claimed in it.
NextTier ==
    /\ t' = t + 1
    /\ i' = 1
    /\ seen' = {}

\* `if count <= 0: continue'.
SkipTier ==
    /\ ~Done
    /\ i = 1
    /\ Count <= 0
    /\ NextTier
    /\ UNCHANGED <<inputs, keep>>

\* The inner loop is at a backup.
AtBackup == ~Done /\ Count > 0 /\ i <= Len(ordered)

\* A newer backup already claimed this bucket.
Claimed ==
    /\ AtBackup
    /\ Key \in seen
    /\ i' = i + 1
    /\ UNCHANGED <<inputs, t, seen, keep>>

\* This bucket is older than the window the tier keeps: break.
Break ==
    /\ AtBackup
    /\ Key \notin seen
    /\ Cardinality(seen) >= Count
    /\ NextTier
    /\ UNCHANGED <<inputs, keep>>

\* Mutant of Take: one bucket more than the tier keeps.
TakeOneTooMany ==
    /\ AtBackup
    /\ Key \notin seen
    /\ Cardinality(seen) <= Count
    /\ seen' = seen \cup {Key}
    /\ keep' = keep \cup {ordered[i].id}
    /\ i' = i + 1
    /\ UNCHANGED <<inputs, t>>

\* The newest backup of a bucket inside the window.
Take ==
    /\ AtBackup
    /\ Key \notin seen
    /\ Cardinality(seen) < Count
    /\ seen' = seen \cup {Key}
    /\ keep' = keep \cup {ordered[i].id}
    /\ i' = i + 1
    /\ UNCHANGED <<inputs, t>>

\* The walk of a tier reached the end of the list.
WalkEnds ==
    /\ ~Done
    /\ Count > 0
    /\ i > Len(ordered)
    /\ NextTier
    /\ UNCHANGED <<inputs, keep>>

Next == SkipTier \/ Claimed \/ Break \/ Take \/ WalkEnds

Spec == Init /\ [][Next]_vars

-----------------------------------------------------------------------------
TypeOK ==
    /\ backups \in SUBSET Universe
    /\ policy \in Policies
    /\ ordered \in Seq(backups)
    /\ t \in 1 .. Len(TierOrder) + 1
    /\ i \in 1 .. Len(ordered) + 1
    /\ seen \in SUBSET Buckets
    /\ keep \in SUBSET {b.id : b \in backups}

\* The backups a tier keeps.
Picks(tier) ==
    {b \in backups : policy[tier] > 0 /\ PickedBy(tier, policy[tier], b, backups)}

\* The loop invariant: the list enumerates the argument newest first, the tier has
\* claimed the buckets of what it has walked past, and what is kept is what the
\* tiers already walked keep, and this one among the backups before the i-th.
LoopInv ==
    /\ TypeOK
    /\ \A b \in backups : \E j \in 1 .. Len(ordered) : ordered[j] = b
    /\ NewestFirst(ordered)
    /\ Done => i = 1
    /\ ~Done => seen = {BucketKey(TierOrder[t], ordered[j]) : j \in 1 .. i - 1}
    /\ keep = {b.id : b \in {c \in backups :
                   \/ \E k \in 1 .. t - 1 : c \in Picks(TierOrder[k])
                   \/ \E j \in 1 .. i - 1 : c = ordered[j] /\ c \in Picks(TierOrder[t])}}

\* The call returns exactly the ids of the backups the policy promises to keep
\* (retention.py:5-6): the early break loses none, and no tier undoes another.
ReturnsSurvivors == Done => keep = {b.id : b \in Survivors(backups, policy)}
=============================================================================
