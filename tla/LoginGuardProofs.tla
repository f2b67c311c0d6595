--------------------------- MODULE LoginGuardProofs ---------------------------
(***************************************************************************)
(* Proofs about LoginGuard, for any number of sign-ins in progress, any    *)
(* threshold, window and users.                                            *)
(***************************************************************************)
EXTENDS LoginGuard, FiniteSetTheorems, TLAPS

\* What the proofs keep: the table is finite, so that its rows can be counted.
IInv ==
    /\ TypeOK
    /\ IsFiniteSet(attempts)
    /\ OvershootIsBounded

-----------------------------------------------------------------------------
(* Type correctness *)

\* The table of failures and the request slots are well typed at the start.
LEMMA TypeOKInit == Init => TypeOK /\ IsFiniteSet(attempts)
  BY LoginGuardAssumption, FS_EmptySet DEF Init, TypeOK

\* Every step keeps the table of failures and the request slots well typed; a new row
\* has a number that no row has had.
LEMMA TypeOKStep ==
    ASSUME TypeOK, [Next]_vars
    PROVE  TypeOK'
<1> USE LoginGuardAssumption DEF TypeOK
<1>1. ASSUME NEW r \in Requests, NEW c \in Client, Admit(r, c)
      PROVE  TypeOK'
  BY <1>1 DEF Admit
<1>2. ASSUME NEW r \in Requests, Succeed(r)
      PROVE  TypeOK'
  BY <1>2 DEF Succeed, Free
<1>3. ASSUME NEW r \in Requests, Fail(r)
      PROVE  TypeOK'
  <2> DEFINE row == [id |-> recorded + 1, username |-> client[r].username,
                     ip |-> client[r].ip, at |-> clock]
  <2>1. client[r] \in Client
    BY <1>3 DEF Fail
  <2>2. row \in Attempt
    BY <2>1 DEF Attempt, Client
  <2>3. row.id = recorded + 1 /\ row.at = clock
    OBVIOUS
  <2>4. attempts' = attempts \cup {row} /\ recorded' = recorded + 1
    BY <1>3 DEF Fail
  <2> HIDE DEF row
  <2>5. attempts' \in SUBSET Attempt /\ recorded' \in 0 .. MaxFailures
    BY <1>3, <2>2, <2>4 DEF Fail
  <2>6. \A a \in attempts : a \in Attempt /\ a.id \in Nat /\ a.at \in Nat
    BY DEF Attempt
  <2>7. \A a \in attempts' : a.id <= recorded' /\ a.at <= clock'
    BY <1>3, <2>3, <2>4, <2>6 DEF Fail
  <2>8. \A a, b \in attempts' : a.id = b.id => a = b
    BY <2>3, <2>4, <2>6
  <2>9. /\ pc' \in [Requests -> {"idle", "verifying", "pruning"}]
        /\ client' \in [Requests -> Client \cup {NoClient}]
        /\ \A q \in Requests : client'[q] = NoClient <=> pc'[q] = "idle"
    BY <1>3 DEF Fail
  <2> QED
    BY <1>3, <2>5, <2>7, <2>8, <2>9 DEF Fail
<1>4. ASSUME NEW r \in Requests, Prune(r)
      PROVE  TypeOK'
  BY <1>4 DEF Prune, Free
<1>5. ASSUME NEW r \in Requests, PruneFails(r)
      PROVE  TypeOK'
  BY <1>5 DEF PruneFails, Free
<1>6. ASSUME NEW r \in Requests, Die(r)
      PROVE  TypeOK'
  BY <1>6 DEF Die, Free
<1>7. ASSUME Tick
      PROVE  TypeOK'
  <2>1. clock' \in Nat /\ clock' >= clock /\ clock' \in 0 .. MaxTime
    BY <1>7 DEF Tick
  <2>2. \A a \in attempts : a.at \in Nat
    BY DEF Attempt
  <2> QED
    BY <1>7, <2>1, <2>2 DEF Tick
<1>8. CASE UNCHANGED vars
  BY <1>8 DEF vars
<1> QED
  BY <1>1, <1>2, <1>3, <1>4, <1>5, <1>6, <1>7, <1>8 DEF Next, SignIn

-----------------------------------------------------------------------------
(* Counting failures *)

\* The failures that count and the sign-ins in progress are finite sets.
LEMMA CountsAreNumbers ==
    ASSUME TypeOK, IsFiniteSet(attempts), NEW axis \in Axes, NEW v, NEW now
    PROVE  /\ IsFiniteSet(Failures(axis, v, now))
           /\ Cardinality(Failures(axis, v, now)) \in Nat
           /\ IsFiniteSet(Verifying(axis, v))
           /\ Cardinality(Verifying(axis, v)) \in Nat
           /\ Cardinality(Verifying(axis, v)) <= Cardinality(Requests)
           /\ Cardinality(Requests) \in Nat
<1>1. Failures(axis, v, now) \in SUBSET attempts
  BY DEF Failures
<1>2. Verifying(axis, v) \in SUBSET Requests
  BY DEF Verifying
<1>3. IsFiniteSet(Requests)
  BY LoginGuardAssumption
<1>4. IsFiniteSet(Failures(axis, v, now))
  BY <1>1, FS_Subset
<1>5. /\ IsFiniteSet(Verifying(axis, v))
      /\ Cardinality(Verifying(axis, v)) <= Cardinality(Requests)
  BY <1>2, <1>3, FS_Subset
<1> QED
  BY <1>3, <1>4, <1>5, FS_CardinalityType

\* The table stays finite.
LEMMA FiniteStep ==
    ASSUME IsFiniteSet(attempts), [Next]_vars
    PROVE  IsFiniteSet(attempts')
<1>1. attempts' \subseteq attempts \/ \E row : attempts' = attempts \cup {row}
  BY DEF Next, SignIn, Admit, Succeed, Fail, Prune, PruneFails, Die, Tick, vars
<1>2. CASE attempts' \subseteq attempts
  BY <1>2, FS_Subset
<1>3. CASE \E row : attempts' = attempts \cup {row}
  BY <1>3, FS_AddElement
<1> QED
  BY <1>1, <1>2, <1>3

\* Failures and sign-ins in progress that only become fewer keep the bound.
LEMMA FewerKeepTheBound ==
    ASSUME TypeOK, IsFiniteSet(attempts), OvershootIsBounded, Threshold > 0,
           NEW axis \in Axes, NEW v \in Usernames \cup Addresses,
           NEW F \in SUBSET Failures(axis, v, clock),
           NEW V \in SUBSET Verifying(axis, v)
    PROVE  Cardinality(F) + Cardinality(V) <= Threshold - 1 + Cardinality(Requests)
<1>1. /\ IsFiniteSet(Failures(axis, v, clock)) /\ IsFiniteSet(Verifying(axis, v))
      /\ Cardinality(Failures(axis, v, clock)) \in Nat
      /\ Cardinality(Verifying(axis, v)) \in Nat
      /\ Cardinality(Requests) \in Nat
  BY CountsAreNumbers
<1>2. IsFiniteSet(F) /\ Cardinality(F) <= Cardinality(Failures(axis, v, clock))
  BY <1>1, FS_Subset
<1>3. IsFiniteSet(V) /\ Cardinality(V) <= Cardinality(Verifying(axis, v))
  BY <1>1, FS_Subset
<1>4. Cardinality(F) \in Nat /\ Cardinality(V) \in Nat
  BY <1>2, <1>3, FS_CardinalityType
<1>5. Cardinality(Failures(axis, v, clock)) + Cardinality(Verifying(axis, v))
          <= Threshold - 1 + Cardinality(Requests)
  BY DEF OvershootIsBounded
<1> QED
  BY <1>1, <1>2, <1>3, <1>4, <1>5, LoginGuardAssumption

\* Who is admitted was below the threshold on both axes, and one more sign-in in
\* progress is still a request; who fails turns a sign-in into a failure; all other
\* steps only take away.
LEMMA BoundStep ==
    ASSUME IInv, [Next]_vars
    PROVE  OvershootIsBounded'
<1> USE DEF IInv
<1> SUFFICES ASSUME Threshold > 0,
                    NEW axis \in Axes, NEW v \in Usernames \cup Addresses
             PROVE  Cardinality(Failures(axis, v, clock)') + Cardinality(Verifying(axis, v)')
                        <= Threshold - 1 + Cardinality(Requests)
  BY DEF OvershootIsBounded
<1> DEFINE F == Failures(axis, v, clock)
           V == Verifying(axis, v)
<1>0. \A a \in attempts : a.at \in Nat
  BY DEF TypeOK, Attempt
<1>n. /\ clock \in Nat /\ Window \in Nat /\ Threshold \in Int
  BY LoginGuardAssumption DEF TypeOK
<1>f. F' \subseteq F /\ V' \subseteq V => 
          Cardinality(F') + Cardinality(V') <= Threshold - 1 + Cardinality(Requests)
  BY FewerKeepTheBound
<1>1. ASSUME NEW r \in Requests, NEW c \in Client, Admit(r, c)
      PROVE  Cardinality(F') + Cardinality(V') <= Threshold - 1 + Cardinality(Requests)
  <2>1. F' = F
    BY <1>1 DEF Admit, Failures
  <2>2. CASE c[axis] = v
    <3>1. ~ (Cardinality(F) >= Threshold)
      BY <1>1, <2>2 DEF Admit, Locked, LockedAt, AxisLocked
    <3>2. Cardinality(F) \in Nat /\ Cardinality(Requests) \in Nat
      BY CountsAreNumbers
    <3>3. V' \in SUBSET Requests
      BY DEF Verifying
    <3>4. IsFiniteSet(V') /\ Cardinality(V') <= Cardinality(Requests)
      BY <3>3, LoginGuardAssumption, FS_Subset
    <3>5. Cardinality(V') \in Nat
      BY <3>4, FS_CardinalityType
    <3> QED
      BY <2>1, <3>1, <3>2, <3>4, <3>5, <1>n
  <2>3. CASE c[axis] # v
    <3>1. V' \subseteq V
      BY <1>1, <2>3 DEF Admit, Verifying, TypeOK
    <3> QED
      BY <2>1, <3>1, <1>f
  <2> QED
    BY <2>2, <2>3
<1>2. ASSUME NEW r \in Requests, Succeed(r)
      PROVE  F' \subseteq F /\ V' \subseteq V
  BY <1>2 DEF Succeed, Free, Failures, Verifying, TypeOK
<1>3. ASSUME NEW r \in Requests, Fail(r)
      PROVE  Cardinality(F') + Cardinality(V') <= Threshold - 1 + Cardinality(Requests)
  <2> DEFINE row == [id |-> recorded + 1, username |-> client[r].username,
                     ip |-> client[r].ip, at |-> clock]
  <2>1. attempts' = attempts \cup {row} /\ clock' = clock
    BY <1>3 DEF Fail
  <2>2. row[axis] = client[r][axis]
    BY DEF Axes
  <2> HIDE DEF row
  <2>3. CASE client[r][axis] = v
    <3>1. F' \subseteq F \cup {row}
      BY <2>1 DEF Failures
    <3>2. r \in V
      BY <1>3, <2>3 DEF Fail, Verifying
    <3>3. V' \subseteq V \ {r}
      BY <1>3 DEF Fail, Verifying, TypeOK
    <3>4. /\ IsFiniteSet(F) /\ Cardinality(F) \in Nat
          /\ IsFiniteSet(V) /\ Cardinality(V) \in Nat
          /\ Cardinality(Requests) \in Nat
      BY CountsAreNumbers
    <3> HIDE DEF F, V
    <3>5. IsFiniteSet(F \cup {row}) /\ Cardinality(F \cup {row}) <= Cardinality(F) + 1
      <4>1. /\ IsFiniteSet(F \cup {row})
            /\ Cardinality(F \cup {row}) =
                   IF row \in F THEN Cardinality(F) ELSE Cardinality(F) + 1
        BY <3>4, FS_AddElement, Zenon
      <4> QED
        BY <4>1, <3>4
    <3>6. IsFiniteSet(V \ {r}) /\ Cardinality(V \ {r}) = Cardinality(V) - 1
      BY <3>2, <3>4, FS_RemoveElement
    <3>7. IsFiniteSet(F') /\ Cardinality(F') <= Cardinality(F \cup {row})
      BY <3>1, <3>5, FS_Subset
    <3>8. IsFiniteSet(V') /\ Cardinality(V') <= Cardinality(V \ {r})
      BY <3>3, <3>6, FS_Subset
    <3>9. /\ Cardinality(F') \in Nat /\ Cardinality(V') \in Nat
          /\ Cardinality(F \cup {row}) \in Nat
      BY <3>5, <3>7, <3>8, FS_CardinalityType
    <3>10. Cardinality(F) + Cardinality(V) <= Threshold - 1 + Cardinality(Requests)
      BY DEF OvershootIsBounded, F, V
    <3> QED
      BY <3>4, <3>5, <3>6, <3>7, <3>8, <3>9, <3>10, <1>n
  <2>4. CASE client[r][axis] # v
    <3>1. F' \subseteq F
      BY <2>1, <2>2, <2>4 DEF Failures
    <3>2. V' \subseteq V
      BY <1>3 DEF Fail, Verifying, TypeOK
    <3> QED
      BY <3>1, <3>2, <1>f
  <2> QED
    BY <2>3, <2>4
<1>4. ASSUME NEW r \in Requests, Prune(r)
      PROVE  F' \subseteq F /\ V' \subseteq V
  BY <1>4 DEF Prune, Free, Failures, Verifying, TypeOK
<1>5. ASSUME NEW r \in Requests, PruneFails(r)
      PROVE  F' \subseteq F /\ V' \subseteq V
  BY <1>5 DEF PruneFails, Free, Failures, Verifying, TypeOK
<1>6. ASSUME NEW r \in Requests, Die(r)
      PROVE  F' \subseteq F /\ V' \subseteq V
  BY <1>6 DEF Die, Free, Failures, Verifying, TypeOK
<1>7. ASSUME Tick
      PROVE  F' \subseteq F /\ V' \subseteq V
  <2>1. V' = V
    BY <1>7 DEF Tick, Verifying
  <2>2. attempts' = attempts /\ clock' \in Nat /\ clock' >= clock
    BY <1>7, <1>n, LoginGuardAssumption DEF Tick
  <2> QED
    BY <2>1, <2>2, <1>0, <1>n DEF Failures
<1>8. CASE UNCHANGED vars
  BY <1>8, <1>f DEF vars, Failures, Verifying
<1> QED
  BY <1>1, <1>2, <1>3, <1>4, <1>5, <1>6, <1>7, <1>8, <1>f DEF Next, SignIn

\* The bound on the overshoot, the types and the finiteness of the table hold in every
\* state, however many sign-ins overlap.
THEOREM GuardInvariance == Spec => []IInv
<1>1. Init => IInv
  <2> SUFFICES ASSUME Init
               PROVE  IInv
    OBVIOUS
  <2>1. TypeOK /\ IsFiniteSet(attempts)
    BY TypeOKInit
  <2>2. ASSUME Threshold > 0, NEW axis \in Axes, NEW v \in Usernames \cup Addresses
        PROVE  Cardinality(Failures(axis, v, clock)) + Cardinality(Verifying(axis, v))
                   <= Threshold - 1 + Cardinality(Requests)
    <3>1. Failures(axis, v, clock) = {} /\ Verifying(axis, v) = {}
      BY DEF Init, Failures, Verifying
    <3>2. Cardinality(Requests) \in Nat
      BY LoginGuardAssumption, FS_CardinalityType
    <3> QED
      BY <2>2, <3>1, <3>2, FS_EmptySet, LoginGuardAssumption
  <2> QED
    BY <2>1, <2>2 DEF IInv, OvershootIsBounded
<1>2. IInv /\ [Next]_vars => IInv'
  BY TypeOKStep, FiniteStep, BoundStep DEF IInv
<1> QED
  BY <1>1, <1>2, PTL DEF Spec

\* Sign-ins that overlap between the check and the record of a failure take the count
\* past the threshold by less than the number of requests in progress.
THEOREM OvershootStaysBounded == Spec => []OvershootIsBounded
<1>1. IInv => OvershootIsBounded
  BY DEF IInv
<1> QED
  BY <1>1, GuardInvariance, PTL

-----------------------------------------------------------------------------
(* What maintenance and honest users do to other people's locks *)

\* The rows that a prune drops are older than any that count, so that no count changes.
LEMMA PruneCountsTheSame ==
    ASSUME TypeOK, NEW r \in Requests, Prune(r), NEW c \in Client
    PROVE  Locked(c) => Locked(c)'
<1>1. /\ attempts' = {a \in attempts : a.at >= clock - Window}
      /\ clock' = clock
  BY DEF Prune
<1>2. clock \in Nat /\ Window \in Nat /\ \A a \in attempts : a.at \in Nat
  BY LoginGuardAssumption DEF TypeOK, Attempt
<1>3. \A axis \in Axes : \A v : Failures(axis, v, clock)' = Failures(axis, v, clock)
  BY <1>1, <1>2 DEF Failures
<1>4. \A axis \in Axes : AxisLocked(axis, c, clock)' <=> AxisLocked(axis, c, clock)
  BY <1>1, <1>3 DEF AxisLocked
<1> QED
  BY <1>4 DEF Locked, LockedAt

\* The transaction after a failure unlocks nobody, whenever it runs, "rows this old can
\* never affect a lock".
THEOREM PruningUnlocksNobody == Spec => PruneUnlocksNobody
<1> DEFINE Kept == (\E r \in Requests : pc[r] = "pruning" /\ pc'[r] = "idle")
                       => \A c \in Client : Locked(c) => Locked(c)'
<1>1. ASSUME TypeOK, Next
      PROVE  Kept
  <2>1. ASSUME NEW r \in Requests, SignIn(r)
        PROVE  Kept
    <3>1. CASE Prune(r)
      BY <1>1, <3>1, PruneCountsTheSame
    <3>2. CASE PruneFails(r)
      BY <3>2 DEF PruneFails, Locked, LockedAt, AxisLocked, Failures
    <3>3. CASE (\E c \in Client : Admit(r, c)) \/ Succeed(r) \/ Fail(r) \/ Die(r)
      BY <1>1, <3>3 DEF Admit, Succeed, Fail, Die, Free, TypeOK
    <3> QED
      BY <2>1, <3>1, <3>2, <3>3 DEF SignIn
  <2>2. CASE Tick
    BY <2>2 DEF Tick
  <2> QED
    BY <1>1, <2>1, <2>2 DEF Next
<1>2. TypeOK /\ [Next]_vars => [Kept]_vars
  BY <1>1
<1>3. IInv => TypeOK
  BY DEF IInv
<1> QED
  BY <1>2, <1>3, GuardInvariance, PTL DEF Spec, PruneUnlocksNobody

\* A failure is forgotten when it is past the window or when its own user name signs in,
\* and never because somebody else at the same address did.
THEOREM NobodyElseForgives == Spec => FailuresAreNotForgiven
<1> DEFINE Earned == \A a \in attempts \ attempts' :
                         \/ a.at < clock - Window
                         \/ \E r \in Requests : /\ pc[r] = "verifying"
                                                /\ pc'[r] = "idle"
                                                /\ client[r].username = a.username
<1>1. ASSUME TypeOK, Next
      PROVE  Earned
  <2>1. ASSUME NEW r \in Requests, Prune(r)
        PROVE  Earned
    BY <1>1, <2>1, LoginGuardAssumption DEF Prune, TypeOK, Attempt
  <2>2. ASSUME NEW r \in Requests, Succeed(r)
        PROVE  Earned
    BY <1>1, <2>2 DEF Succeed, Free, TypeOK
  <2>3. ASSUME attempts \subseteq attempts'
        PROVE  Earned
    BY <2>3
  <2> QED
    BY <1>1, <2>1, <2>2, <2>3 DEF Next, SignIn, Tick, Admit, Fail, PruneFails, Die
<1>2. TypeOK /\ [Next]_vars => [Earned]_vars
  BY <1>1
<1>3. IInv => TypeOK
  BY DEF IInv
<1> QED
  BY <1>2, <1>3, GuardInvariance, PTL DEF Spec, FailuresAreNotForgiven

-----------------------------------------------------------------------------
(* When a lock ends *)

\* The failures that Later puts after a.
After(a, F) == {b \in F : Later(b, a)}

\* Rows are numbered in the order they come, so that any two are ordered.
LEMMA RowsAreOrdered ==
    ASSUME TypeOK
    PROVE  /\ \A a \in attempts : a.at \in Nat /\ ~Later(a, a)
           /\ \A a, b \in attempts : a # b => Later(a, b) \/ Later(b, a)
           /\ \A a, b, c \in attempts : Later(c, a) /\ Later(a, b) => Later(c, b)
<1>1. \A a \in attempts : a.id \in Nat /\ a.at \in Nat
  BY DEF TypeOK, Attempt
<1>2. \A a, b \in attempts : a.id = b.id => a = b
  BY DEF TypeOK
<1> QED
  BY <1>1, <1>2 DEF Later

\* Of n failures there is one that exactly k others come after, for every k below n: the
\* ranks of n failures in that order are 0 .. n-1, each taken once.
LEMMA EveryRankIsTaken ==
    ASSUME TypeOK, NEW F \in SUBSET attempts, IsFiniteSet(F),
           NEW k \in Nat, k < Cardinality(F)
    PROVE  \E a \in F : Cardinality(After(a, F)) = k
<1> DEFINE n == Cardinality(F)
           rank == [a \in F |-> Cardinality(After(a, F))]
<1>0. n \in Nat
  BY FS_CardinalityType
<1>1. ASSUME NEW a \in F
      PROVE  /\ IsFiniteSet(After(a, F))
             /\ Cardinality(After(a, F)) \in 0 .. n - 1
  <2>1. After(a, F) \in SUBSET (F \ {a})
    BY RowsAreOrdered DEF After
  <2>2. IsFiniteSet(F \ {a}) /\ Cardinality(F \ {a}) = n - 1
    BY FS_RemoveElement
  <2>3. IsFiniteSet(After(a, F)) /\ Cardinality(After(a, F)) <= n - 1
    BY <2>1, <2>2, FS_Subset
  <2>4. Cardinality(After(a, F)) \in Nat
    BY <2>3, FS_CardinalityType
  <2> QED
    BY <1>0, <2>3, <2>4
<1>2. ASSUME NEW a \in F, NEW b \in F, Later(a, b)
      PROVE  Cardinality(After(a, F)) < Cardinality(After(b, F))
  <2>1. /\ After(a, F) \in SUBSET After(b, F)
        /\ a \in After(b, F) /\ a \notin After(a, F)
    BY <1>2, RowsAreOrdered DEF After
  <2>2. After(a, F) # After(b, F)
    BY <2>1
  <2>3. /\ IsFiniteSet(After(b, F))
        /\ Cardinality(After(a, F)) \in Nat /\ Cardinality(After(b, F)) \in Nat
    BY <1>0, <1>1
  <2>4. /\ Cardinality(After(a, F)) <= Cardinality(After(b, F))
        /\ Cardinality(After(b, F)) = Cardinality(After(a, F)) => After(b, F) = After(a, F)
    BY <2>1, <2>3, FS_Subset
  <2> QED
    BY <2>2, <2>3, <2>4
<1>3. \A a, b \in F : rank[a] = rank[b] => a = b
  <2> SUFFICES ASSUME NEW a \in F, NEW b \in F, rank[a] = rank[b], a # b
               PROVE  FALSE
    OBVIOUS
  <2>1. Later(a, b) \/ Later(b, a)
    BY RowsAreOrdered
  <2>2. rank[a] \in Int /\ rank[b] \in Int
    BY <1>0, <1>1
  <2>3. rank[a] < rank[b] \/ rank[b] < rank[a]
    BY <1>2, <2>1
  <2> QED
    BY <2>2, <2>3
<1>4. rank \in Injection(F, 0 .. n - 1)
  BY <1>1, <1>3 DEF Injection, IsInjective
<1>5. IsFiniteSet(0 .. n - 1) /\ Cardinality(0 .. n - 1) = n
  <2>1. k >= 0 /\ k < n
    BY <1>0
  <2>2. 0 \in Int /\ n - 1 \in Int /\ ~(0 > n - 1) /\ (n - 1) - 0 + 1 = n
    BY <1>0, <2>1
  <2> HIDE DEF n
  <2> QED
    BY <2>2, FS_Interval
<1>6. rank \in Surjection(F, 0 .. n - 1)
  BY <1>4, <1>5, FS_Injection
<1>7. k \in 0 .. n - 1
  BY <1>0
<1>8. \E a \in F : rank[a] = k
  BY <1>6, <1>7 DEF Surjection
<1> QED
  BY <1>8

\* The pivot of a locked axis is the failure on whose age the count depends: from now on
\* the axis is locked as long as that one is inside the window.
LEMMA AxisUntilIsExact ==
    ASSUME TypeOK, IsFiniteSet(attempts), NEW axis \in Axes, NEW c \in Client,
           AxisLocked(axis, c, clock)
    PROVE  /\ AxisUntil(axis, c) \in Nat
           /\ \A now \in Int : now >= clock =>
                  (AxisLocked(axis, c, now) <=> now < AxisUntil(axis, c))
<1> DEFINE F == Failures(axis, c[axis], clock)
           p == CHOOSE a \in F : Cardinality({b \in F : Later(b, a)}) = Threshold - 1
<1>0. Threshold \in Int /\ Window \in Nat /\ clock \in Nat
  BY LoginGuardAssumption DEF TypeOK
<1>1. Threshold > 0 /\ Cardinality(F) >= Threshold
  BY DEF AxisLocked
<1>2. F \in SUBSET attempts /\ IsFiniteSet(F) /\ Cardinality(F) \in Nat
  BY CountsAreNumbers DEF Failures
<1>3. p \in F /\ Cardinality(After(p, F)) = Threshold - 1
  <2>1. Threshold - 1 \in Nat /\ Threshold - 1 < Cardinality(F)
    BY <1>0, <1>1, <1>2
  <2>2. \E a \in F : Cardinality(After(a, F)) = Threshold - 1
    BY <1>2, <2>1, EveryRankIsTaken
  <2> QED
    BY <2>2 DEF After
<1>4. AxisUntil(axis, c) = p.at + Window
  BY DEF AxisUntil
<1>5. \A a \in F : a.at \in Nat
  BY <1>2, RowsAreOrdered
<1> HIDE DEF p
<1>6. IsFiniteSet(After(p, F))
  BY <1>2, FS_Subset DEF After
<1>7. p \notin After(p, F)
  BY <1>2, <1>3, RowsAreOrdered DEF After
<1>8. ASSUME NEW now \in Int, now >= clock
      PROVE  AxisLocked(axis, c, now) <=> now < p.at + Window
  <2> DEFINE G == Failures(axis, c[axis], now)
  <2>1. G = {a \in F : a.at > now - Window}
    <3>1. \A a \in attempts : a.at > now - Window => a.at > clock - Window
      BY <1>0, <1>8, RowsAreOrdered
    <3> QED
      BY <3>1 DEF Failures
  <2>2. IsFiniteSet(G) /\ Cardinality(G) \in Nat
    BY CountsAreNumbers
  <2>3. AxisLocked(axis, c, now) <=> Cardinality(G) >= Threshold
    BY <1>1 DEF AxisLocked
  <2> HIDE DEF F, G
  <2>4. CASE now < p.at + Window
    <3>1. \A b \in After(p, F) : b \in F /\ b.at >= p.at
      BY <1>3, <1>5 DEF After, Later
    <3>2. After(p, F) \cup {p} \in SUBSET G
      BY <1>0, <1>3, <1>5, <2>1, <2>4, <3>1
    <3>3. /\ IsFiniteSet(After(p, F) \cup {p})
          /\ Cardinality(After(p, F) \cup {p}) = Cardinality(After(p, F)) + 1
      BY <1>6, <1>7, FS_AddElement
    <3>4. Cardinality(After(p, F) \cup {p}) <= Cardinality(G)
      BY <2>2, <3>2, FS_Subset
    <3> QED
      BY <1>0, <1>3, <2>2, <2>3, <2>4, <3>3, <3>4
  <2>5. CASE ~(now < p.at + Window)
    <3>1. G \in SUBSET After(p, F)
      BY <1>0, <1>3, <1>5, <2>1, <2>5 DEF After, Later
    <3>2. Cardinality(G) <= Cardinality(After(p, F))
      BY <1>6, <3>1, FS_Subset
    <3> QED
      BY <1>0, <1>3, <2>2, <2>3, <2>5, <3>2
  <2> QED
    BY <2>4, <2>5
<1>9. p.at + Window \in Nat
  BY <1>0, <1>3, <1>5
<1> QED
  BY <1>4, <1>8, <1>9

\* An axis that is not locked does not become so with time alone.
LEMMA AxisStaysOpen ==
    ASSUME TypeOK, IsFiniteSet(attempts), NEW axis \in Axes, NEW c \in Client,
           ~AxisLocked(axis, c, clock), NEW now \in Int, now >= clock
    PROVE  ~AxisLocked(axis, c, now)
<1>0. Threshold \in Int /\ Window \in Nat /\ clock \in Nat
  BY LoginGuardAssumption DEF TypeOK
<1>1. Failures(axis, c[axis], now) \in SUBSET Failures(axis, c[axis], clock)
  BY <1>0, RowsAreOrdered DEF Failures
<1>2. /\ IsFiniteSet(Failures(axis, c[axis], clock))
      /\ Cardinality(Failures(axis, c[axis], clock)) \in Nat
      /\ Cardinality(Failures(axis, c[axis], now)) \in Nat
  BY CountsAreNumbers
<1>3. Cardinality(Failures(axis, c[axis], now)) <= Cardinality(Failures(axis, c[axis], clock))
  BY <1>1, <1>2, FS_Subset
<1> QED
  BY <1>0, <1>2, <1>3 DEF AxisLocked

\* Whoever is locked out is locked on the user name, on the address or on both; the lock
\* ends with the later of the two.
LEMMA LockEnds ==
    ASSUME IInv, NEW c \in Client, Locked(c), NEW now \in Int, now >= clock
    PROVE  /\ LockedUntil(c) \in Nat
           /\ LockedAt(c, now) <=> now < LockedUntil(c)
<1> DEFINE on == {x \in Axes : AxisLocked(x, c, clock)}
           ends == {AxisUntil(axis, c) : axis \in on}
<1>0. TypeOK /\ IsFiniteSet(attempts) /\ clock \in Nat /\ Window \in Nat
  BY LoginGuardAssumption DEF IInv, TypeOK
<1>1. now \in Int /\ now >= clock
  OBVIOUS
<1>2. \A x \in on : /\ AxisUntil(x, c) \in Nat
                    /\ AxisLocked(x, c, now) <=> now < AxisUntil(x, c)
  BY <1>0, <1>1, AxisUntilIsExact
<1>3. LockedAt(c, now) <=> \E x \in on : now < AxisUntil(x, c)
  BY <1>0, <1>1, <1>2, AxisStaysOpen DEF LockedAt
<1>4. on # {}
  BY DEF Locked, LockedAt
<1> DEFINE last == CHOOSE t \in ends : \A s \in ends : s <= t
<1>5. LockedUntil(c) = last
  BY DEF LockedUntil
<1>6. last \in ends /\ \A s \in ends : s <= last
  <2>1. \E t \in ends : \A s \in ends : s <= t
    <3> DEFINE u == AxisUntil("username", c)
               i == AxisUntil("ip", c)
    <3>1. \A s \in ends : s \in Nat /\ (s = u \/ s = i)
      BY <1>2 DEF Axes
    <3>2. PICK t \in ends : TRUE
      BY <1>4
    <3>3. CASE u \in ends /\ i \in ends
      BY <3>1, <3>3
    <3>4. CASE ~(u \in ends /\ i \in ends)
      BY <3>1, <3>2, <3>4
    <3> QED
      BY <3>3, <3>4
  <2> QED
    BY <2>1
<1> HIDE DEF last
<1>7. (\E x \in on : now < AxisUntil(x, c)) <=> now < last
  BY <1>1, <1>2, <1>6
<1>8. last \in Nat
  BY <1>2, <1>6
<1> QED
  BY <1>3, <1>5, <1>7, <1>8

\* locked_until is when the lock ends, whatever the threshold and the window, and
\* however far overlapping sign-ins have overshot them.
LEMMA ExactInEveryState == IInv => LockedUntilIsExact
<1> SUFFICES ASSUME IInv, NEW c \in Client, Locked(c)
             PROVE  /\ LockedUntil(c) > clock
                    /\ LockedAt(c, LockedUntil(c) - 1)
                    /\ ~LockedAt(c, LockedUntil(c))
  BY DEF LockedUntilIsExact
<1>1. clock \in Nat
  BY DEF IInv, TypeOK
<1>2. LockedUntil(c) \in Nat /\ LockedUntil(c) > clock
  BY <1>1, LockEnds DEF Locked
<1>3. /\ LockedUntil(c) \in Int /\ LockedUntil(c) >= clock
      /\ LockedUntil(c) - 1 \in Int /\ LockedUntil(c) - 1 >= clock
      /\ LockedUntil(c) - 1 < LockedUntil(c) /\ ~(LockedUntil(c) < LockedUntil(c))
  BY <1>1, <1>2
<1>4. LockedAt(c, LockedUntil(c) - 1) <=> LockedUntil(c) - 1 < LockedUntil(c)
  BY <1>3, LockEnds
<1>5. LockedAt(c, LockedUntil(c)) <=> LockedUntil(c) < LockedUntil(c)
  BY <1>3, LockEnds
<1> QED
  BY <1>2, <1>3, <1>4, <1>5

\* The lock of a client ends at the time that check_locked computes, in every state.
THEOREM LockedUntilStaysExact == Spec => []LockedUntilIsExact
  BY ExactInEveryState, GuardInvariance, PTL

\* Seconds are rounded up, and then to the nearest minute.
LEMMA Rounding ==
    ASSUME NEW left \in Nat, left > 0
    PROVE  LET told == 120 * Minutes(left \div 2 + 1)
           IN  /\ told \in Nat
               /\ left < told + 60
               /\ told > 120 => told - 63 <= left - 1 /\ told - 63 >= 0
<1> DEFINE seconds == left \div 2 + 1
           minutes == seconds \div 60
           rest == seconds % 60
<1>1. seconds \in Nat /\ left < 2 * seconds /\ 2 * seconds <= left + 2
  OBVIOUS
<1> HIDE DEF seconds
<1>2. minutes \in Nat /\ rest \in 0 .. 59 /\ seconds = 60 * minutes + rest
  BY <1>1
<1> DEFINE mins == Minutes(seconds)
<1>3. \/ mins = minutes + 1 /\ (rest >= 30 \/ minutes = 0)
      \/ mins = minutes /\ rest <= 30 /\ minutes > 0
  BY <1>2 DEF Minutes
<1> HIDE DEF minutes, rest, mins
<1>4. mins \in Nat /\ mins > 0
  BY <1>2, <1>3
<1>5. seconds <= 60 * mins + 30
  BY <1>2, <1>3, <1>4
<1>6. mins > 1 => 60 * mins <= seconds + 30
  BY <1>2, <1>3, <1>4
<1>7. /\ 120 * mins \in Nat
      /\ left < 120 * mins + 60
      /\ 120 * mins > 120 => 120 * mins - 63 <= left - 1 /\ 120 * mins - 63 >= 0
  BY <1>1, <1>4, <1>5, <1>6
<1> QED
  BY <1>7 DEF seconds, mins

\* "Please wait about {mins} minutes" (auth.py:95): the lock is over half a minute after
\* the time that a client is told, and when that is more than one minute the client
\* stays locked out until 31 seconds before it.
THEOREM ToldWaitStaysClose == Spec => []ToldWaitIsClose
<1>1. ASSUME IInv, NEW c \in Client, Locked(c)
      PROVE  /\ ~LockedAt(c, clock + ToldToWait(c) + 60)
             /\ ToldToWait(c) > 120 => LockedAt(c, clock + ToldToWait(c) - 63)
  <2> DEFINE left == LockedUntil(c) - clock
  <2>1. clock \in Nat
    BY <1>1 DEF IInv, TypeOK
  <2>2. LockedUntil(c) \in Nat /\ LockedUntil(c) > clock
    BY <1>1, <2>1, LockEnds DEF Locked
  <2>3. left \in Nat /\ left > 0
    BY <2>1, <2>2
  <2>4. /\ ToldToWait(c) \in Nat
        /\ left < ToldToWait(c) + 60
        /\ ToldToWait(c) > 120 => ToldToWait(c) - 63 <= left - 1 /\ ToldToWait(c) - 63 >= 0
    <3> HIDE DEF left
    <3>1. ToldToWait(c) = 120 * Minutes(left \div 2 + 1)
      BY DEF ToldToWait, RetryAfter, left
    <3> QED
      BY <2>3, <3>1, Rounding
  <2>5. /\ clock + ToldToWait(c) + 60 \in Int /\ clock + ToldToWait(c) + 60 >= clock
        /\ ~(clock + ToldToWait(c) + 60 < LockedUntil(c))
    BY <2>1, <2>2, <2>4
  <2>6. ASSUME ToldToWait(c) > 120
        PROVE  /\ clock + ToldToWait(c) - 63 \in Int /\ clock + ToldToWait(c) - 63 >= clock
               /\ clock + ToldToWait(c) - 63 < LockedUntil(c)
    BY <2>1, <2>2, <2>4, <2>6
  <2>7. ~LockedAt(c, clock + ToldToWait(c) + 60)
    BY <1>1, <2>5, LockEnds
  <2>8. ToldToWait(c) > 120 => LockedAt(c, clock + ToldToWait(c) - 63)
    BY <1>1, <2>6, LockEnds
  <2> QED
    BY <2>7, <2>8
<1>2. IInv => ToldWaitIsClose
  BY <1>1 DEF ToldWaitIsClose
<1> QED
  BY <1>2, GuardInvariance, PTL
=============================================================================
