------------------------- MODULE RetentionLoopProofs -------------------------
(***************************************************************************)
(* The loop of survivors() returns what the policy promises, for every     *)
(* calendar, every list of backups and every policy.                       *)
(***************************************************************************)
EXTENDS RetentionLoop, FiniteSetTheorems, TLAPS

\* The buckets above a backup are finitely many.
LEMMA KeysAboveFinite ==
    ASSUME NEW tier, NEW b, NEW B
    PROVE  /\ IsFiniteSet(KeysAbove(tier, b, B))
           /\ Cardinality(KeysAbove(tier, b, B)) \in Nat
<1>1. KeysAbove(tier, b, B) \subseteq Buckets
  BY DEF KeysAbove
<1> QED
  BY <1>1, FS_Subset, FS_CardinalityType, RetentionAssumption

\* What the invariant says of the list, in the form the steps use it.
LEMMA ListFacts ==
    ASSUME LoopInv
    PROVE  /\ Len(ordered) \in Nat
           /\ \A j \in 1 .. Len(ordered) : ordered[j] \in backups
           /\ \A b \in backups : b.at \in Int /\ b.id \in Nat
           /\ \A j, k \in 1 .. Len(ordered) : j < k => Newer(ordered[j], ordered[k])
           /\ policy \in [Tiers -> Int]
           /\ ~Done => TierOrder[t] \in Tiers
           /\ Len(TierOrder) \in Nat
<1>1. ordered \in Seq(backups)
  BY DEF LoopInv, TypeOK
<1>2. Len(ordered) \in Nat /\ DOMAIN ordered = 1 .. Len(ordered)
  BY <1>1
<1>3. \A j \in 1 .. Len(ordered) : ordered[j] \in backups
  BY <1>1
<1>4. \A b \in backups : b.at \in Int /\ b.id \in Nat
  BY LoopAssumption, RetentionAssumption DEF LoopAssumption, RetentionAssumption, LoopInv, TypeOK
<1>5. \A j, k \in 1 .. Len(ordered) : j < k => Newer(ordered[j], ordered[k])
  BY <1>2 DEF LoopInv, NewestFirst
<1>6. policy \in [Tiers -> Int]
  BY LoopAssumption DEF LoopAssumption, LoopInv, TypeOK
<1>7. TierOrder \in Seq(Tiers) /\ Len(TierOrder) \in Nat
  BY LoopAssumption DEF LoopAssumption
<1>8. ~Done => TierOrder[t] \in Tiers
  BY <1>7 DEF LoopInv, TypeOK, Done
<1> QED
  BY <1>2, <1>3, <1>4, <1>5, <1>6, <1>7, <1>8

\* Exactly the backups before the k-th of the list are newer than it.
LEMMA NewerIsBefore ==
    ASSUME LoopInv, NEW k \in 1 .. Len(ordered), NEW x \in backups
    PROVE  Newer(x, ordered[k]) <=> \E j \in 1 .. k - 1 : x = ordered[j]
<1>1. PICK j \in 1 .. Len(ordered) : ordered[j] = x
  BY DEF LoopInv
<1>2. ASSUME Newer(x, ordered[k])
      PROVE  j < k
  <2>1. ~Newer(x, x)
    BY ListFacts DEF Newer
  <2>2. ~Newer(ordered[k], x)
    BY <1>2, ListFacts DEF Newer
  <2> QED
    BY <1>1, <1>2, <2>1, <2>2, ListFacts
<1>3. ASSUME NEW m \in 1 .. k - 1, x = ordered[m]
      PROVE  Newer(x, ordered[k])
  BY <1>3, ListFacts
<1> QED
  BY <1>1, <1>2, <1>3, ListFacts

\* The buckets above the k-th backup are those of the backups before it.
LEMMA KeysAboveAreBefore ==
    ASSUME LoopInv, NEW tier \in Tiers, NEW k \in 1 .. Len(ordered)
    PROVE  KeysAbove(tier, ordered[k], backups) =
               {BucketKey(tier, ordered[j]) : j \in 1 .. k - 1}
<1>1. \A j \in 1 .. k - 1 : ordered[j] \in backups
  BY ListFacts
<1>2. \A b \in backups : BucketKey(tier, b) \in Buckets
  <2>1. \A b \in backups : b.at \in Times
    BY LoopAssumption DEF LoopAssumption, LoopInv, TypeOK
  <2> QED
    BY <2>1, RetentionAssumption DEF RetentionAssumption, BucketKey
<1> QED
  BY <1>1, <1>2, NewerIsBefore DEF KeysAbove

\* The test of the loop body is the definition of being picked.
LEMMA TakenIsPicked ==
    ASSUME LoopInv, AtBackup
    PROVE  /\ seen = KeysAbove(TierOrder[t], ordered[i], backups)
           /\ ordered[i] \in backups
           /\ ordered[i] \in Picks(TierOrder[t]) <=>
                  Key \notin seen /\ Cardinality(seen) < Count
<1>1. i \in 1 .. Len(ordered) /\ ~Done /\ Count > 0
  BY ListFacts DEF AtBackup, LoopInv, TypeOK
<1>2. seen = KeysAbove(TierOrder[t], ordered[i], backups)
  BY <1>1, ListFacts, KeysAboveAreBefore DEF LoopInv
<1>3. ordered[i] \in backups
  BY <1>1, ListFacts
<1> QED
  BY <1>1, <1>2, <1>3 DEF Picks, PickedBy, Key, Count

\* Once the window of a tier is full, no later backup is picked by it.
LEMMA NothingAfterBreak ==
    ASSUME LoopInv, AtBackup, Key \notin seen, Cardinality(seen) >= Count,
           NEW k \in i .. Len(ordered)
    PROVE  ordered[k] \notin Picks(TierOrder[t])
<1> DEFINE tier == TierOrder[t]
<1> DEFINE above == KeysAbove(tier, ordered[k], backups)
<1>1. i \in 1 .. Len(ordered) /\ k \in 1 .. Len(ordered) /\ tier \in Tiers
  <2>1. i \in 1 .. Len(ordered) + 1 /\ i <= Len(ordered) /\ ~Done
    BY DEF AtBackup, LoopInv, TypeOK
  <2> QED
    BY <2>1, ListFacts
<1>2. seen \subseteq above
  <2>1. seen = {BucketKey(tier, ordered[j]) : j \in 1 .. i - 1}
    BY DEF LoopInv, AtBackup
  <2>2. above = {BucketKey(tier, ordered[j]) : j \in 1 .. k - 1}
    BY <1>1, KeysAboveAreBefore
  <2>3. 1 .. i - 1 \subseteq 1 .. k - 1
    BY <1>1, ListFacts
  <2> QED
    BY <2>1, <2>2, <2>3
<1>3. IsFiniteSet(above) /\ Cardinality(above) \in Nat
  BY KeysAboveFinite
<1>4. Cardinality(seen) <= Cardinality(above) /\ Cardinality(seen) \in Nat
  BY <1>2, <1>3, FS_Subset, FS_CardinalityType
<1>5. Count \in Int
  BY <1>1, ListFacts DEF Count
<1>6. ~(Cardinality(above) < Count)
  BY <1>3, <1>4, <1>5
<1> QED
  BY <1>6 DEF Picks, PickedBy, Count

-----------------------------------------------------------------------------
\* The conjuncts of TypeOK about the arguments, and of LoopInv about the list, hold
\* as long as the arguments stay.
LEMMA ListStays ==
    ASSUME LoopInv, UNCHANGED inputs
    PROVE  /\ backups' \in SUBSET Universe
           /\ policy' \in Policies
           /\ ordered' \in Seq(backups')
           /\ \A b \in backups' : \E j \in 1 .. Len(ordered') : ordered'[j] = b
           /\ NewestFirst(ordered')
           /\ \A tier : Picks(tier)' = Picks(tier)
BY DEF LoopInv, TypeOK, inputs, Picks, NewestFirst

\* A tier ends -- skipped, broken off, or walked to the end of the list -- when it
\* picks none of the backups that are left.
LEMMA TierEnds ==
    ASSUME LoopInv, ~Done, NextTier, UNCHANGED <<inputs, keep>>,
           \A k \in i .. Len(ordered) : ordered[k] \notin Picks(TierOrder[t])
    PROVE  LoopInv'
<1>1. t \in Nat /\ t \in 1 .. Len(TierOrder) /\ i \in 1 .. Len(ordered) + 1
  BY ListFacts DEF LoopInv, TypeOK, Done
<1>2. TypeOK'
  <2>1. t' \in 1 .. Len(TierOrder) + 1
    BY <1>1, ListFacts DEF NextTier
  <2>2. i' \in 1 .. Len(ordered') + 1
    BY ListFacts DEF NextTier, inputs
  <2>3. seen' \in SUBSET Buckets /\ keep' \in SUBSET {b.id : b \in backups'}
    BY DEF NextTier, inputs, LoopInv, TypeOK
  <2> QED
    BY <2>1, <2>2, <2>3, ListStays DEF TypeOK, inputs
<1>3. \A c \in Picks(TierOrder[t]) : \E j \in 1 .. i - 1 : c = ordered[j]
  <2> SUFFICES ASSUME NEW c \in Picks(TierOrder[t])
               PROVE  \E j \in 1 .. i - 1 : c = ordered[j]
    OBVIOUS
  <2>1. c \in backups
    BY DEF Picks
  <2>2. PICK j \in 1 .. Len(ordered) : ordered[j] = c
    BY <2>1 DEF LoopInv
  <2>3. j \notin i .. Len(ordered)
    BY <2>2
  <2> QED
    BY <1>1, <2>2, <2>3, ListFacts
<1>4. \A c \in backups :
         (\E k \in 1 .. t' - 1 : c \in Picks(TierOrder[k]))
           <=> \/ \E k \in 1 .. t - 1 : c \in Picks(TierOrder[k])
               \/ \E j \in 1 .. i - 1 : c = ordered[j] /\ c \in Picks(TierOrder[t])
  <2>1. t' - 1 = t
    BY <1>1 DEF NextTier
  <2>2. \A k \in 1 .. t : k = t \/ k \in 1 .. t - 1
    BY <1>1
  <2>3. t \in 1 .. t /\ 1 .. t - 1 \subseteq 1 .. t
    BY <1>1
  <2> QED
    BY <1>3, <2>1, <2>2, <2>3
<1>5. 1 .. i' - 1 = {} /\ i' = 1 /\ seen' = {}
  BY DEF NextTier
<1>6. seen' = {BucketKey(TierOrder[t'], ordered'[j]) : j \in 1 .. i' - 1}
  BY <1>5
<1>7. keep' = {b.id : b \in {c \in backups' :
           \/ \E k \in 1 .. t' - 1 : c \in Picks(TierOrder[k])'
           \/ \E j \in 1 .. i' - 1 : c = ordered'[j] /\ c \in Picks(TierOrder[t])'}}
  <2>1. \A tier : Picks(tier)' = Picks(tier)
    BY ListStays
  <2>2. {c \in backups' :
           \/ \E k \in 1 .. t' - 1 : c \in Picks(TierOrder[k])'
           \/ \E j \in 1 .. i' - 1 : c = ordered'[j] /\ c \in Picks(TierOrder[t])'}
        = {c \in backups : \E k \in 1 .. t' - 1 : c \in Picks(TierOrder[k])}
    BY <1>5, <2>1 DEF inputs
  <2>3. keep' = {b.id : b \in {c \in backups :
                   \/ \E k \in 1 .. t - 1 : c \in Picks(TierOrder[k])
                   \/ \E j \in 1 .. i - 1 : c = ordered[j] /\ c \in Picks(TierOrder[t])}}
    BY DEF LoopInv
  <2>4. {c \in backups : \E k \in 1 .. t' - 1 : c \in Picks(TierOrder[k])}
        = {c \in backups :
             \/ \E k \in 1 .. t - 1 : c \in Picks(TierOrder[k])
             \/ \E j \in 1 .. i - 1 : c = ordered[j] /\ c \in Picks(TierOrder[t])}
    BY <1>4
  <2> QED
    BY <2>2, <2>3, <2>4
<1>8. /\ (\A b \in backups : \E j \in 1 .. Len(ordered) : ordered[j] = b)'
      /\ NewestFirst(ordered)'
  BY ListStays
<1>9. (Done => i = 1)' /\ (~Done => seen = {BucketKey(TierOrder[t], ordered[j]) : j \in 1 .. i - 1})'
  BY <1>5, <1>6
<1> QED
  BY <1>2, <1>7, <1>8, <1>9 DEF LoopInv
\* The walk moves past a backup: its bucket is claimed now, and the backup is kept
\* when the tier picks it.
LEMMA WalkGoesOn ==
    ASSUME LoopInv, AtBackup, UNCHANGED <<inputs, t>>, i' = i + 1,
           seen' = seen \cup {Key},
           keep' = keep \cup {b.id : b \in {c \in {ordered[i]} : c \in Picks(TierOrder[t])}}
    PROVE  LoopInv'
<1>1. i \in 1 .. Len(ordered) /\ ~Done
  BY ListFacts DEF AtBackup, LoopInv, TypeOK
<1>2. 1 .. i' - 1 = (1 .. i - 1) \cup {i} /\ i' \in 1 .. Len(ordered) + 1
  BY <1>1, ListFacts
<1>3. ordered[i] \in backups
  BY <1>1, ListFacts
<1>4. TypeOK'
  <2>1. Key \in Buckets
    <3>1. ordered[i].at \in Times
      BY <1>3, LoopAssumption DEF LoopAssumption, LoopInv, TypeOK
    <3> QED
      BY <1>1, <3>1, ListFacts, RetentionAssumption DEF RetentionAssumption, Key, BucketKey
  <2>2. seen' \in SUBSET Buckets
    BY <2>1 DEF LoopInv, TypeOK
  <2>3. keep' \in SUBSET {b.id : b \in backups'}
    BY <1>3 DEF LoopInv, TypeOK, inputs
  <2>4. t' \in 1 .. Len(TierOrder) + 1 /\ i' \in 1 .. Len(ordered') + 1
    BY <1>2 DEF LoopInv, TypeOK, inputs
  <2> QED
    BY <2>2, <2>3, <2>4, ListStays DEF TypeOK, inputs
<1>5. seen' = {BucketKey(TierOrder[t'], ordered'[j]) : j \in 1 .. i' - 1}
  <2>1. seen = {BucketKey(TierOrder[t], ordered[j]) : j \in 1 .. i - 1}
    BY <1>1 DEF LoopInv
  <2>2. t' = t /\ ordered' = ordered
    BY DEF inputs
  <2> QED
    BY <1>2, <2>1, <2>2 DEF Key
<1>6. keep' = {b.id : b \in {c \in backups' :
           \/ \E k \in 1 .. t' - 1 : c \in Picks(TierOrder[k])'
           \/ \E j \in 1 .. i' - 1 : c = ordered'[j] /\ c \in Picks(TierOrder[t])'}}
  <2> DEFINE before == {c \in backups :
                   \/ \E k \in 1 .. t - 1 : c \in Picks(TierOrder[k])
                   \/ \E j \in 1 .. i - 1 : c = ordered[j] /\ c \in Picks(TierOrder[t])}
  <2> DEFINE now == {c \in {ordered[i]} : c \in Picks(TierOrder[t])}
  <2>1. /\ \A tier : Picks(tier)' = Picks(tier)
        /\ backups' = backups /\ ordered' = ordered /\ t' = t
    BY ListStays DEF inputs
  <2>2. {c \in backups' :
           \/ \E k \in 1 .. t' - 1 : c \in Picks(TierOrder[k])'
           \/ \E j \in 1 .. i' - 1 : c = ordered'[j] /\ c \in Picks(TierOrder[t])'}
        = {c \in backups :
           \/ \E k \in 1 .. t - 1 : c \in Picks(TierOrder[k])
           \/ \E j \in (1 .. i - 1) \cup {i} : c = ordered[j] /\ c \in Picks(TierOrder[t])}
    BY <1>2, <2>1
  <2>3. {c \in backups :
           \/ \E k \in 1 .. t - 1 : c \in Picks(TierOrder[k])
           \/ \E j \in (1 .. i - 1) \cup {i} : c = ordered[j] /\ c \in Picks(TierOrder[t])}
        = before \cup now
    BY <1>3
  <2>4. keep = {b.id : b \in before}
    BY DEF LoopInv
  <2>5. keep' = {b.id : b \in before \cup now}
    BY <2>4
  <2> QED
    BY <2>2, <2>3, <2>5
<1>7. /\ (\A b \in backups : \E j \in 1 .. Len(ordered) : ordered[j] = b)'
      /\ NewestFirst(ordered)'
  BY ListStays
<1>8. (Done => i = 1)' /\ (~Done => seen = {BucketKey(TierOrder[t], ordered[j]) : j \in 1 .. i - 1})'
  BY <1>1, <1>5 DEF Done
<1> QED
  BY <1>4, <1>6, <1>7, <1>8 DEF LoopInv

-----------------------------------------------------------------------------
\* The list of every call is finite and enumerates its argument.
LEMMA InitLoopInv ==
    ASSUME Init
    PROVE  LoopInv
<1>1. IsFiniteSet(backups) /\ Cardinality(backups) \in Nat
  BY LoopAssumption, FS_Subset, FS_CardinalityType DEF Init, LoopAssumption
<1>2. /\ ordered \in Seq(backups)
      /\ Len(ordered) = Cardinality(backups)
      /\ DOMAIN ordered = 1 .. Len(ordered)
  BY <1>1 DEF Init
<1>3. Len(TierOrder) \in Nat
  BY LoopAssumption DEF LoopAssumption
<1>4. TypeOK
  BY <1>1, <1>2, <1>3 DEF Init, TypeOK
<1>5. 1 .. i - 1 = {} /\ 1 .. t - 1 = {}
  BY DEF Init
<1> QED
  BY <1>2, <1>4, <1>5 DEF Init, LoopInv

\* Every step of the loop, and the stutter at its end, keeps the invariant.
LEMMA StepLoopInv ==
    ASSUME LoopInv, [Next]_vars
    PROVE  LoopInv'
<1>1. CASE SkipTier
  <2>1. Picks(TierOrder[t]) = {}
    BY <1>1, ListFacts DEF SkipTier, Count, Picks
  <2> QED
    BY <1>1, <2>1, TierEnds DEF SkipTier
<1>2. CASE Claimed
  <2>1. ordered[i] \notin Picks(TierOrder[t])
    BY <1>2, TakenIsPicked DEF Claimed
  <2>2. seen' = seen \cup {Key} /\ keep' = keep
    BY <1>2 DEF Claimed
  <2>3. {b.id : b \in {c \in {ordered[i]} : c \in Picks(TierOrder[t])}} = {}
    BY <2>1
  <2> QED
    BY <1>2, <2>2, <2>3, WalkGoesOn DEF Claimed
<1>3. CASE Break
  <2>1. AtBackup /\ Key \notin seen /\ Cardinality(seen) >= Count /\ NextTier
        /\ UNCHANGED <<inputs, keep>>
    BY <1>3 DEF Break
  <2>2. \A k \in i .. Len(ordered) : ordered[k] \notin Picks(TierOrder[t])
    BY <2>1, NothingAfterBreak
  <2>3. ~Done
    BY <2>1 DEF AtBackup
  <2> QED
    BY <2>1, <2>2, <2>3, TierEnds
<1>4. CASE Take
  <2>1. ordered[i] \in Picks(TierOrder[t])
    BY <1>4, TakenIsPicked DEF Take
  <2>2. {b.id : b \in {c \in {ordered[i]} : c \in Picks(TierOrder[t])}} = {ordered[i].id}
    BY <2>1
  <2> QED
    BY <1>4, <2>2, WalkGoesOn DEF Take
<1>5. CASE WalkEnds
  <2>1. i .. Len(ordered) = {}
    BY <1>5, ListFacts DEF WalkEnds, LoopInv, TypeOK
  <2> QED
    BY <1>5, <2>1, TierEnds DEF WalkEnds
<1>6. CASE UNCHANGED vars
  BY <1>6 DEF vars, LoopInv, TypeOK, NewestFirst, Done, Picks
<1> QED
  BY <1>1, <1>2, <1>3, <1>4, <1>5, <1>6 DEF Next

\* The loop invariant holds throughout every call of survivors().
THEOREM LoopInvariance == Spec => []LoopInv
<1>1. Init => LoopInv
  BY InitLoopInv
<1>2. LoopInv /\ [Next]_vars => LoopInv'
  BY StepLoopInv
<1> QED
  BY <1>1, <1>2, PTL DEF Spec

\* survivors() returns exactly what the policy promises (retention.py:36-57).
THEOREM LoopIsCorrect == Spec => []ReturnsSurvivors
<1>1. ASSUME LoopInv, Done
      PROVE  keep = {b.id : b \in Survivors(backups, policy)}
  <2>1. t - 1 = Len(TierOrder) /\ 1 .. i - 1 = {}
    BY <1>1, ListFacts DEF LoopInv, TypeOK, Done
  <2>2. \A tier \in Tiers : \E k \in 1 .. t - 1 : TierOrder[k] = tier
    BY <2>1, LoopAssumption DEF LoopAssumption
  <2>3. \A k \in 1 .. t - 1 : TierOrder[k] \in Tiers
    BY <2>1, LoopAssumption DEF LoopAssumption
  <2>4. {c \in backups :
           \/ \E k \in 1 .. t - 1 : c \in Picks(TierOrder[k])
           \/ \E j \in 1 .. i - 1 : c = ordered[j] /\ c \in Picks(TierOrder[t])}
        = Survivors(backups, policy)
    BY <2>1, <2>2, <2>3 DEF Survivors, Picks
  <2> QED
    BY <1>1, <2>4 DEF LoopInv
<1>2. LoopInv => ReturnsSurvivors
  BY <1>1 DEF ReturnsSurvivors
<1> QED
  BY <1>2, LoopInvariance, PTL
=============================================================================
